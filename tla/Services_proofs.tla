-------------------------- MODULE Services_proofs --------------------------
(***************************************************************************)
(* Proofs about the services that share no state with each other: agents   *)
(* and their approvals (McpControl), accounts and their sessions           *)
(* (Accounts), the chats that are listed and left (Dialogs), the control   *)
(* of the monitor (MonitorControl), and the copies of a library elsewhere: *)
(* uploads and what they leave (BackupTransfers), a full backup restored   *)
(* (FullRestore), the catalog a paired instance keeps (ClusterSync).  For  *)
(* every set of agents, logins, accounts, chats, requests, transfers and   *)
(* rows, any restarts and page size, and every bound.                      *)
(***************************************************************************)
EXTENDS McpControl, Accounts, Dialogs, MonitorControl,
        BackupTransfers, FullRestore, ClusterSync,
        FiniteSetTheorems, WellFoundedInduction, TLAPS
-----------------------------------------------------------------------------
(* Agents run what they were granted (mcpcontrol/store.go).                *)

\* Rows and calls are of their kinds.
AgentsOK == agent \in [Agents -> [active : BOOLEAN, scopes : SUBSET Scopes]]
IssuedOK == issued \in [Tokens -> [agent : Agents \cup {Nobody}, scopes : SUBSET Scopes, live : BOOLEAN]]
ApprovalsOK ==
  approval \in [Approvals -> [status : {"none", "pending", "expired", "approved", "rejected", "executed", "failed"},
                              requester : Agents \cup {Nobody}, payload : Payloads \cup {Nobody},
                              by : Agents \cup {Admin, Nobody}]]
KeyRows == [payload : Payloads \cup {Nobody}, result : {"none", "pending", "done"}]
KeysOK == idempotency \in [Agents -> [IdemKeys -> KeyRows]]
CallRows == [pc : {"off", "verified", "key", "run", "complete", "decide", "validate", "execute", "executed", "failed"},
             agent : Agents \cup {Admin, Nobody}, scopes : SUBSET Scopes,
             what : {"direct", "request", "decide"}, key : IdemKeys \cup {Nobody},
             payload : Payloads \cup {Nobody}, approval : Approvals \cup {0}, n : Nat]
CallsOK == call \in [Calls -> CallRows]
EffectsOK ==
  effects \subseteq [agent : Agents, key : IdemKeys \cup {Nobody}, approval : Approvals \cup {0}, n : Nat]
McpSpentOK == mcpSpent \in [calls : Nat, crashes : Nat, grants : Nat]

\* A token that still works is a registered agent's.
LiveTokens == \A t \in Tokens : issued[t].live => issued[t].agent \in Agents

Deciding(c) == call[c].pc \in {"decide", "validate", "execute", "executed", "failed"}
Acting(c) == call[c].pc \in {"validate", "execute", "executed", "failed"}

\* A call that asks is an agent's, with its key once it has one; one that decides is about a request
\* that was made, by somebody else.
CallsAreNamed == \A c \in Calls :
  /\ call[c].pc \in {"verified", "key", "run", "complete"} => call[c].agent \in Agents
  /\ call[c].pc \in {"key", "run", "complete"} => call[c].key \in IdemKeys
  /\ Deciding(c) => /\ call[c].approval \in Approvals /\ call[c].agent # Nobody
                    /\ approval[call[c].approval].requester \in Agents \ {call[c].agent}

\* A request that was made is an agent's.
RequestsAreNamed == \A a \in Approvals : approval[a] = NoApproval \/ approval[a].requester \in Agents

\* Who runs an operation under a key has taken the key, nobody else runs it, and none has run.
KeysAreTaken ==
  /\ \A e \in effects : e.key # Nobody => idempotency[e.agent][e.key].result # "none"
  /\ \A c \in Calls : call[c].pc = "run" =>
       /\ idempotency[call[c].agent][call[c].key].result # "none"
       /\ \A e \in effects : e.key # Nobody => <<e.agent, e.key>> # <<call[c].agent, call[c].key>>
       /\ \A d \in Calls : call[d].pc = "run" /\ call[d].agent = call[c].agent /\ call[d].key = call[c].key => d = c

\* Who decided a request alone acts on it, once.
OneActs ==
  /\ \A c \in Calls : Acting(c) => approval[call[c].approval].status = "approved"
  /\ \A c, d \in Calls : Acting(c) /\ Acting(d) /\ call[c].approval = call[d].approval => c = d
  /\ \A c \in Calls : call[c].pc \in {"validate", "execute"} => \A e \in effects : e.approval # call[c].approval

\* The decision on a request is somebody else's.
DecidedByOthers == \A a \in Approvals :
  approval[a].status \in {"approved", "executed", "failed"} => approval[a].by \notin {Nobody, approval[a].requester}

McpInv ==
  /\ AgentsOK /\ IssuedOK /\ ApprovalsOK /\ KeysOK /\ CallsOK /\ EffectsOK /\ McpSpentOK /\ LiveTokens
  /\ CallsAreNamed /\ RequestsAreNamed /\ KeysAreTaken /\ OneActs /\ DecidedByOthers
  /\ TokensFollowGrants /\ KeyRunsOnce /\ ApprovedRunsOnce /\ RunsAsApproved

\* The record of no call is one.
LEMMA NoCallOK == NoCall \in CallRows
  BY DEF NoCall, CallRows, Scopes

\* A changed grant takes the agent's tokens back.
LEMMA ChangeGrantKept ==
  ASSUME McpInv, NEW g \in Agents, NEW active \in BOOLEAN, NEW scopes \in SUBSET Scopes,
         ChangeGrant(g, active, scopes)
  PROVE  McpInv'
  <1>1. AgentsOK'
    BY DEF McpInv, AgentsOK, ChangeGrant, RevokedTokens
  <1>2. IssuedOK'
    BY DEF McpInv, IssuedOK, ChangeGrant, RevokedTokens
  <1>3. CallsOK'
    BY DEF McpInv, CallsOK, ChangeGrant, RevokedTokens, CallRows
  <1>4. EffectsOK'
    BY DEF McpInv, EffectsOK, ChangeGrant, RevokedTokens
  <1>5. McpSpentOK'
    BY DEF McpInv, McpSpentOK, ChangeGrant, RevokedTokens
  <1>6. LiveTokens'
    BY DEF McpInv, LiveTokens, ChangeGrant, RevokedTokens
  <1>7. CallsAreNamed'
    BY DEF McpInv, CallsAreNamed, ChangeGrant, RevokedTokens, Deciding
  <1>8. KeysAreTaken'
    BY DEF McpInv, KeysAreTaken, ChangeGrant, RevokedTokens
  <1>9. TokensFollowGrants'
    BY DEF McpInv, TokensFollowGrants, ChangeGrant, RevokedTokens
  <1>10. KeyRunsOnce'
    BY DEF McpInv, KeyRunsOnce, ChangeGrant, RevokedTokens
  <1>11. /\ ApprovalsOK' /\ KeysOK' /\ RequestsAreNamed' /\ OneActs' /\ DecidedByOthers'
         /\ ApprovedRunsOnce' /\ RunsAsApproved'
    BY DEF McpInv, ApprovalsOK, KeysOK, RequestsAreNamed, OneActs, DecidedByOthers,
       ApprovedRunsOnce, RunsAsApproved, ChangeGrant, RevokedTokens, Acting
  <1> QED
    BY <1>1, <1>2, <1>3, <1>4, <1>5, <1>6, <1>7, <1>8, <1>9, <1>10, <1>11 DEF McpInv

\* A new token grants what its agent has.
LEMMA IssueClientTokenKept ==
  ASSUME McpInv, NEW t \in Tokens, NEW g \in Agents, IssueClientToken(t, g, agent[g].scopes)
  PROVE  McpInv'
  <1>1. IssuedOK'
    BY DEF McpInv, IssuedOK, IssueClientToken, NoToken, AgentsOK
  <1>2. LiveTokens'
    BY DEF McpInv, LiveTokens, IssueClientToken, NoToken
  <1>3. TokensFollowGrants'
    BY DEF McpInv, TokensFollowGrants, IssueClientToken, NoToken
  <1>4. /\ AgentsOK' /\ ApprovalsOK' /\ KeysOK' /\ CallsOK' /\ EffectsOK' /\ McpSpentOK'
        /\ CallsAreNamed' /\ RequestsAreNamed' /\ KeysAreTaken' /\ OneActs' /\ DecidedByOthers'
        /\ KeyRunsOnce' /\ ApprovedRunsOnce' /\ RunsAsApproved'
    BY DEF McpInv, AgentsOK, ApprovalsOK, KeysOK, CallsOK, EffectsOK, McpSpentOK, CallsAreNamed,
       RequestsAreNamed, KeysAreTaken, OneActs, DecidedByOthers, KeyRunsOnce, ApprovedRunsOnce,
       RunsAsApproved, IssueClientToken, NoToken, CallRows, Deciding, Acting
  <1> QED
    BY <1>1, <1>2, <1>3, <1>4 DEF McpInv

\* A token that has expired grants nothing.
LEMMA TokenExpiresKept ==
  ASSUME McpInv, NEW t \in Tokens, TokenExpires(t)
  PROVE  McpInv'
  <1>1. IssuedOK'
    BY DEF McpInv, IssuedOK, TokenExpires
  <1>2. McpSpentOK'
    BY DEF McpInv, McpSpentOK, TokenExpires
  <1>3. LiveTokens'
    BY DEF McpInv, LiveTokens, TokenExpires
  <1>4. TokensFollowGrants'
    BY DEF McpInv, TokensFollowGrants, TokenExpires
  <1>5. /\ AgentsOK' /\ ApprovalsOK' /\ KeysOK' /\ CallsOK' /\ EffectsOK' /\ CallsAreNamed'
        /\ RequestsAreNamed' /\ KeysAreTaken' /\ OneActs' /\ DecidedByOthers' /\ KeyRunsOnce'
        /\ ApprovedRunsOnce' /\ RunsAsApproved'
    BY DEF McpInv, AgentsOK, ApprovalsOK, KeysOK, CallsOK, EffectsOK, CallsAreNamed,
       RequestsAreNamed, KeysAreTaken, OneActs, DecidedByOthers, KeyRunsOnce, ApprovedRunsOnce,
       RunsAsApproved, TokenExpires, CallRows, Deciding, Acting
  <1> QED
    BY <1>1, <1>2, <1>3, <1>4, <1>5 DEF McpInv

\* A call is the agent's whose token it shows.
LEMMA VerifyTokenKept ==
  ASSUME McpInv, NEW c \in Calls, NEW t \in Tokens, NEW what \in {"direct", "request", "decide"},
         VerifyToken(c, t, what)
  PROVE  McpInv'
  <1>1. CallsOK'
    <2> DEFINE new == [NoCall EXCEPT !.pc = "verified", !.agent = issued[t].agent, !.what = what,
                                     !.scopes = issued[t].scopes \cap agent[issued[t].agent].scopes,
                                     !.n = mcpSpent.calls + 1]
    <2>1. /\ issued[t].agent \in Agents /\ issued[t].scopes \in SUBSET Scopes
          /\ mcpSpent.calls + 1 \in Nat
      BY DEF McpInv, IssuedOK, McpSpentOK, VerifyToken, LiveTokens
    <2>2. new \in CallRows
      BY <2>1 DEF CallRows, NoCall
    <2>3. call' = [call EXCEPT ![c] = new]
      BY DEF VerifyToken
    <2> QED
      BY <2>2, <2>3 DEF McpInv, CallsOK
  <1>2. McpSpentOK'
    BY DEF McpInv, McpSpentOK, VerifyToken, FreeCall, NoCall
  <1>3. CallsAreNamed'
    BY DEF McpInv, CallsAreNamed, VerifyToken, FreeCall, NoCall, Deciding, LiveTokens
  <1>4. KeysAreTaken'
    BY DEF McpInv, KeysAreTaken, VerifyToken, FreeCall, NoCall
  <1>5. OneActs'
    BY DEF McpInv, OneActs, VerifyToken, FreeCall, NoCall, Acting
  <1>6. /\ AgentsOK' /\ IssuedOK' /\ ApprovalsOK' /\ KeysOK' /\ EffectsOK' /\ LiveTokens'
        /\ RequestsAreNamed' /\ DecidedByOthers' /\ TokensFollowGrants' /\ KeyRunsOnce'
        /\ ApprovedRunsOnce' /\ RunsAsApproved'
    BY DEF McpInv, AgentsOK, IssuedOK, ApprovalsOK, KeysOK, EffectsOK, LiveTokens,
       RequestsAreNamed, DecidedByOthers, TokensFollowGrants, KeyRunsOnce, ApprovedRunsOnce,
       RunsAsApproved, VerifyToken, FreeCall, NoCall
  <1> QED
    BY <1>1, <1>2, <1>3, <1>4, <1>5, <1>6 DEF McpInv

\* It names its key,
LEMMA RequireAgentKept ==
  ASSUME McpInv, NEW c \in Calls, NEW key \in IdemKeys, NEW payload \in Payloads,
         RequireAgent(c, key, payload)
  PROVE  McpInv'
  <1>1. CallsOK'
    <2>1. call[c] \in CallRows
      BY DEF McpInv, CallsOK
    <2>2. [call[c] EXCEPT !.pc = "key", !.key = key, !.payload = payload] \in CallRows
      BY <2>1 DEF CallRows
    <2> QED
      BY <2>2, NoCallOK DEF McpInv, CallsOK, RequireAgent
  <1>2. CallsAreNamed'
    BY DEF McpInv, CallsAreNamed, RequireAgent, ScopeOf, NoCall, Deciding, CallsOK, CallRows
  <1>3. KeysAreTaken'
    <2>1. KeysAreTaken /\ idempotency' = idempotency /\ effects' = effects
      BY DEF McpInv, RequireAgent
    <2>2. \A d \in Calls : call'[d].pc = "run" => call'[d] = call[d] /\ call[d].pc = "run"
      BY DEF McpInv, CallsOK, CallRows, RequireAgent, NoCall
    <2> QED
      BY <2>1, <2>2 DEF KeysAreTaken
  <1>4. OneActs'
    BY DEF McpInv, OneActs, RequireAgent, ScopeOf, NoCall, Acting
  <1>5. /\ AgentsOK' /\ IssuedOK' /\ ApprovalsOK' /\ KeysOK' /\ EffectsOK' /\ McpSpentOK'
        /\ LiveTokens' /\ RequestsAreNamed' /\ DecidedByOthers' /\ TokensFollowGrants'
        /\ KeyRunsOnce' /\ ApprovedRunsOnce' /\ RunsAsApproved'
    BY DEF McpInv, AgentsOK, IssuedOK, ApprovalsOK, KeysOK, EffectsOK, McpSpentOK, LiveTokens,
       RequestsAreNamed, DecidedByOthers, TokensFollowGrants, KeyRunsOnce, ApprovedRunsOnce,
       RunsAsApproved, RequireAgent, NoCall
  <1> QED
    BY <1>1, <1>2, <1>3, <1>4, <1>5 DEF McpInv

\* which it alone runs: nothing has run under a new key.
LEMMA BeginIdempotencyKept ==
  ASSUME McpInv, NEW c \in Calls, BeginIdempotency(c)
  PROVE  McpInv'
  <1>1. KeysOK' /\ KeysAreTaken'
    <2> DEFINE g == call[c].agent  k == call[c].key  new == [payload |-> call[c].payload, result |-> "pending"]
    <2>1. g \in Agents /\ k \in IdemKeys /\ new \in KeyRows
      BY DEF McpInv, CallsOK, CallRows, KeyRows, CallsAreNamed, BeginIdempotency
    <2>0. KeysOK /\ CallsOK /\ KeysAreTaken /\ effects' = effects
      BY DEF McpInv, BeginIdempotency
    <2>3. CASE NewKey(idempotency[g][k])
      <3>1. /\ idempotency' = [idempotency EXCEPT ![g][k] = new]
            /\ call' = [call EXCEPT ![c].pc = "run"]
        BY <2>3 DEF BeginIdempotency
      <3> HIDE DEF new, g, k
      <3>2. KeysOK'
        BY <2>0, <2>1, <3>1 DEF KeysOK
      <3>3. /\ idempotency'[g][k] = new
            /\ \A h \in Agents, i \in IdemKeys : <<h, i>> # <<g, k>> => idempotency'[h][i] = idempotency[h][i]
        BY <2>0, <2>1, <3>1 DEF KeysOK
      <3>4. new.result # "none" /\ idempotency[g][k].result = "none"
        BY <2>3 DEF new, NewKey
      <3>5. /\ call'[c].pc = "run" /\ call'[c].agent = g /\ call'[c].key = k
            /\ \A d \in Calls \ {c} : call'[d] = call[d]
        BY <2>0, <3>1 DEF CallsOK, CallRows, g, k
      <3>6. \A d \in Calls : call[d].pc = "run" => call[d].agent \in Agents /\ call[d].key \in IdemKeys
        BY DEF McpInv, CallsAreNamed
      <3>7. \A e \in effects : e.agent \in Agents /\ e.key \in IdemKeys \cup {Nobody}
        BY DEF McpInv, EffectsOK
      <3>8. \A d \in Calls : call[d].pc = "run" => <<call[d].agent, call[d].key>> # <<g, k>>
        BY <2>0, <3>4 DEF KeysAreTaken
      <3>9. \A e \in effects : e.key # Nobody => <<e.agent, e.key>> # <<g, k>>
        BY <2>0, <3>4 DEF KeysAreTaken
      <3>10. \A e \in effects : e.key # Nobody => idempotency'[e.agent][e.key].result # "none"
        BY <2>0, <3>3, <3>7, <3>9 DEF KeysAreTaken
      <3> QED
        BY <2>0, <3>2, <3>3, <3>4, <3>5, <3>6, <3>8, <3>9, <3>10 DEF KeysAreTaken
    <2>4. CASE ~NewKey(idempotency[g][k])
      <3>1. idempotency' = idempotency /\ call' = [call EXCEPT ![c] = NoCall] /\ NoCall.pc # "run"
        BY <2>4 DEF BeginIdempotency, NoCall
      <3>2. \A d \in Calls : call'[d].pc = "run" => call'[d] = call[d] /\ call[d].pc = "run"
        BY <2>0, <3>1 DEF CallsOK
      <3> QED
        BY <2>0, <3>1, <3>2 DEF KeysOK, KeysAreTaken
    <2> QED
      BY <2>3, <2>4
  <1>2. CallsOK'
    BY DEF McpInv, CallsOK, BeginIdempotency, NewKey, NoCall, CallRows
  <1>3. CallsAreNamed'
    BY DEF McpInv, CallsAreNamed, BeginIdempotency, NewKey, NoCall, Deciding, CallsOK, CallRows
  <1>4. OneActs'
    BY DEF McpInv, OneActs, BeginIdempotency, NewKey, NoCall, Acting, CallsOK, CallRows
  <1>5. /\ AgentsOK' /\ IssuedOK' /\ ApprovalsOK' /\ EffectsOK' /\ McpSpentOK' /\ LiveTokens'
        /\ RequestsAreNamed' /\ DecidedByOthers' /\ TokensFollowGrants' /\ KeyRunsOnce'
        /\ ApprovedRunsOnce' /\ RunsAsApproved'
    BY DEF McpInv, AgentsOK, IssuedOK, ApprovalsOK, EffectsOK, McpSpentOK, LiveTokens,
       RequestsAreNamed, DecidedByOthers, TokensFollowGrants, KeyRunsOnce, ApprovedRunsOnce,
       RunsAsApproved, BeginIdempotency, NoCall
  <1> QED
    BY <1>1, <1>2, <1>3, <1>4, <1>5 DEF McpInv

\* What runs is the first of its key.
LEMMA RunDirectKept ==
  ASSUME McpInv, NEW c \in Calls, RunDirect(c)
  PROVE  McpInv'
  <1>1. CallsOK'
    BY DEF McpInv, CallsOK, RunDirect, CallRows
  <1>2. EffectsOK'
    BY DEF McpInv, EffectsOK, RunDirect, CallsAreNamed, CallsOK, CallRows
  <1>3. CallsAreNamed'
    BY DEF McpInv, CallsAreNamed, RunDirect, Deciding
  <1>4. KeysAreTaken'
    BY DEF McpInv, KeysAreTaken, RunDirect, CallsOK
  <1>5. OneActs'
    BY McpAssumption DEF McpInv, OneActs, RunDirect, Acting, CallsAreNamed, Deciding,
       McpAssumption
  <1>6. KeyRunsOnce'
    BY DEF McpInv, KeyRunsOnce, RunDirect, KeysAreTaken
  <1>7. ApprovedRunsOnce'
    BY DEF McpInv, ApprovedRunsOnce, RunDirect
  <1>8. RunsAsApproved'
    BY DEF McpInv, RunsAsApproved, RunDirect
  <1>9. /\ AgentsOK' /\ IssuedOK' /\ ApprovalsOK' /\ KeysOK' /\ McpSpentOK' /\ LiveTokens'
        /\ RequestsAreNamed' /\ DecidedByOthers' /\ TokensFollowGrants'
    BY DEF McpInv, AgentsOK, IssuedOK, ApprovalsOK, KeysOK, McpSpentOK, LiveTokens,
       RequestsAreNamed, DecidedByOthers, TokensFollowGrants, RunDirect
  <1> QED
    BY <1>1, <1>2, <1>3, <1>4, <1>5, <1>6, <1>7, <1>8, <1>9 DEF McpInv

\* A failure leaves the key taken.
LEMMA DirectFailsKept ==
  ASSUME McpInv, NEW c \in Calls, DirectFails(c)
  PROVE  McpInv'
  <1>1. CallsOK'
    BY DEF McpInv, CallsOK, DirectFails, NoCall, CallRows
  <1>2. CallsAreNamed'
    BY DEF McpInv, CallsAreNamed, DirectFails, NoCall, Deciding
  <1>3. KeysAreTaken'
    BY DEF McpInv, KeysAreTaken, DirectFails, NoCall
  <1>4. OneActs'
    BY DEF McpInv, OneActs, DirectFails, NoCall, Acting
  <1>5. /\ AgentsOK' /\ IssuedOK' /\ ApprovalsOK' /\ KeysOK' /\ EffectsOK' /\ McpSpentOK'
        /\ LiveTokens' /\ RequestsAreNamed' /\ DecidedByOthers' /\ TokensFollowGrants'
        /\ KeyRunsOnce' /\ ApprovedRunsOnce' /\ RunsAsApproved'
    BY DEF McpInv, AgentsOK, IssuedOK, ApprovalsOK, KeysOK, EffectsOK, McpSpentOK, LiveTokens,
       RequestsAreNamed, DecidedByOthers, TokensFollowGrants, KeyRunsOnce, ApprovedRunsOnce,
       RunsAsApproved, DirectFails, NoCall
  <1> QED
    BY <1>1, <1>2, <1>3, <1>4, <1>5 DEF McpInv

\* So does the end of the call.
LEMMA CompleteIdempotencyKept ==
  ASSUME McpInv, NEW c \in Calls, CompleteIdempotency(c)
  PROVE  McpInv'
  <1>1. KeysOK'
    BY DEF McpInv, KeysOK, CompleteIdempotency, NoCall, KeyRows, CallsAreNamed,
       ApprovedRunsOnce, RunsAsApproved, ApprovalsOK, CallsOK, McpSpentOK
  <1>2. CallsOK'
    BY DEF McpInv, CallsOK, CompleteIdempotency, NoCall, CallRows
  <1>3. CallsAreNamed'
    BY DEF McpInv, CallsAreNamed, CompleteIdempotency, NoCall, Deciding
  <1>4. KeysAreTaken'
    BY DEF McpInv, KeysAreTaken, CompleteIdempotency, NoCall
  <1>5. OneActs'
    BY DEF McpInv, OneActs, CompleteIdempotency, NoCall, Acting
  <1>6. /\ AgentsOK' /\ IssuedOK' /\ ApprovalsOK' /\ EffectsOK' /\ McpSpentOK' /\ LiveTokens'
        /\ RequestsAreNamed' /\ DecidedByOthers' /\ TokensFollowGrants' /\ KeyRunsOnce'
        /\ ApprovedRunsOnce' /\ RunsAsApproved'
    BY DEF McpInv, AgentsOK, IssuedOK, ApprovalsOK, EffectsOK, McpSpentOK, LiveTokens,
       RequestsAreNamed, DecidedByOthers, TokensFollowGrants, KeyRunsOnce, ApprovedRunsOnce,
       RunsAsApproved, CompleteIdempotency, NoCall
  <1> QED
    BY <1>1, <1>2, <1>3, <1>4, <1>5, <1>6 DEF McpInv

\* Nobody decides a request before it is made.
LEMMA CreateApprovalKept ==
  ASSUME McpInv, NEW c \in Calls, NEW a \in Approvals, CreateApproval(c, a)
  PROVE  McpInv'
  <1>1. ApprovalsOK'
    BY DEF McpInv, ApprovalsOK, CreateApproval, NoApproval, CallsAreNamed, CallsOK, CallRows
  <1>2. CallsOK'
    BY DEF McpInv, CallsOK, CreateApproval, NoApproval, CallRows
  <1>3. EffectsOK'
    BY DEF McpInv, EffectsOK, CreateApproval, NoApproval
  <1>4. CallsAreNamed'
    BY McpAssumption DEF McpInv, CallsAreNamed, CreateApproval, NoApproval, Deciding,
       McpAssumption
  <1>5. RequestsAreNamed'
    BY DEF McpInv, RequestsAreNamed, CreateApproval, NoApproval, CallsAreNamed
  <1>6. KeysAreTaken'
    BY DEF McpInv, KeysAreTaken, CreateApproval, NoApproval
  <1>7. OneActs'
    BY DEF McpInv, OneActs, CreateApproval, NoApproval, Acting
  <1>8. DecidedByOthers'
    BY DEF McpInv, DecidedByOthers, CreateApproval, NoApproval
  <1>9. ApprovedRunsOnce'
    BY DEF McpInv, ApprovedRunsOnce, CreateApproval, NoApproval
  <1>10. RunsAsApproved'
    BY DEF McpInv, RunsAsApproved, CreateApproval, NoApproval
  <1>11. /\ AgentsOK' /\ IssuedOK' /\ KeysOK' /\ McpSpentOK' /\ LiveTokens' /\ TokensFollowGrants'
         /\ KeyRunsOnce'
    BY DEF McpInv, AgentsOK, IssuedOK, KeysOK, McpSpentOK, LiveTokens, TokensFollowGrants,
       KeyRunsOnce, CreateApproval
  <1> QED
    BY <1>1, <1>2, <1>3, <1>4, <1>5, <1>6, <1>7, <1>8, <1>9, <1>10, <1>11 DEF McpInv

\* Only what nobody decided expires.
LEMMA ApprovalExpiresKept ==
  ASSUME McpInv, NEW a \in Approvals, ApprovalExpires(a)
  PROVE  McpInv'
  <1>1. ApprovalsOK'
    BY DEF McpInv, ApprovalsOK, ApprovalExpires
  <1>2. CallsOK'
    BY DEF McpInv, CallsOK, ApprovalExpires, CallRows
  <1>3. EffectsOK'
    BY DEF McpInv, EffectsOK, ApprovalExpires
  <1>4. CallsAreNamed'
    BY DEF McpInv, CallsAreNamed, ApprovalExpires, Deciding
  <1>5. RequestsAreNamed'
    BY DEF McpInv, RequestsAreNamed, ApprovalExpires, NoApproval
  <1>6. OneActs'
    BY DEF McpInv, OneActs, ApprovalExpires, Acting
  <1>7. DecidedByOthers'
    BY DEF McpInv, DecidedByOthers, ApprovalExpires
  <1>8. ApprovedRunsOnce'
    BY DEF McpInv, ApprovedRunsOnce, ApprovalExpires
  <1>9. RunsAsApproved'
    BY DEF McpInv, RunsAsApproved, ApprovalExpires
  <1>10. /\ AgentsOK' /\ IssuedOK' /\ KeysOK' /\ McpSpentOK' /\ LiveTokens' /\ KeysAreTaken'
         /\ TokensFollowGrants' /\ KeyRunsOnce'
    BY DEF McpInv, AgentsOK, IssuedOK, KeysOK, McpSpentOK, LiveTokens, KeysAreTaken,
       TokensFollowGrants, KeyRunsOnce, ApprovalExpires
  <1> QED
    BY <1>1, <1>2, <1>3, <1>4, <1>5, <1>6, <1>7, <1>8, <1>9, <1>10 DEF McpInv

\* Another agent
LEMMA AskDecisionKept ==
  ASSUME McpInv, NEW c \in Calls, NEW a \in Approvals, AskDecision(c, a)
  PROVE  McpInv'
  <1>1. CallsOK' /\ CallsAreNamed'
    <2> DEFINE new == [call[c] EXCEPT !.pc = "decide", !.approval = a]
    <2>1. call[c] \in CallRows /\ CallsOK /\ CallsAreNamed /\ approval' = approval
      BY DEF McpInv, CallsOK, AskDecision
    <2>2. new \in CallRows /\ new.approval = a /\ new.agent = call[c].agent /\ new.pc = "decide"
      BY <2>1 DEF CallRows
    <2>3. NoCall \in CallRows /\ NoCall.pc = "off"
      BY NoCallOK DEF NoCall
    <2>4. call[c].agent \in Agents /\ call[c].agent # Nobody
      BY McpAssumption DEF McpInv, CallsAreNamed, AskDecision, McpAssumption
    <2>5. approval[a].requester \in Agents
      BY DEF McpInv, AskDecision, RequestsAreNamed
    <2>6. CASE call' = [call EXCEPT ![c] = new] /\ approval[a].requester # call[c].agent
      <3> HIDE DEF new
      <3>1. call'[c] = new /\ \A d \in Calls \ {c} : call'[d] = call[d]
        BY <2>1, <2>6 DEF CallsOK
      <3> QED
        BY <2>1, <2>2, <2>4, <2>5, <2>6, <3>1 DEF CallsOK, CallsAreNamed, Deciding
    <2>7. CASE call' = [call EXCEPT ![c] = NoCall]
      <3>1. call'[c] = NoCall /\ \A d \in Calls \ {c} : call'[d] = call[d]
        BY <2>1, <2>7 DEF CallsOK
      <3> QED
        BY <2>1, <2>3, <2>7, <3>1 DEF CallsOK, CallsAreNamed, Deciding
    <2> QED
      BY <2>6, <2>7 DEF AskDecision, Other
  <1>2. KeysAreTaken'
    <2>1. KeysAreTaken /\ idempotency' = idempotency /\ effects' = effects
      BY DEF McpInv, AskDecision
    <2>2. \A d \in Calls : call'[d].pc = "run" => call'[d] = call[d] /\ call[d].pc = "run"
      BY DEF McpInv, CallsOK, CallRows, AskDecision, NoCall
    <2> QED
      BY <2>1, <2>2 DEF KeysAreTaken
  <1>3. OneActs'
    BY DEF McpInv, OneActs, AskDecision, NoApproval, Other, NoCall, Acting
  <1>4. /\ AgentsOK' /\ IssuedOK' /\ ApprovalsOK' /\ KeysOK' /\ EffectsOK' /\ McpSpentOK'
        /\ LiveTokens' /\ RequestsAreNamed' /\ DecidedByOthers' /\ TokensFollowGrants'
        /\ KeyRunsOnce' /\ ApprovedRunsOnce' /\ RunsAsApproved'
    BY DEF McpInv, AgentsOK, IssuedOK, ApprovalsOK, KeysOK, EffectsOK, McpSpentOK, LiveTokens,
       RequestsAreNamed, DecidedByOthers, TokensFollowGrants, KeyRunsOnce, ApprovedRunsOnce,
       RunsAsApproved, AskDecision, Other, NoCall
  <1> QED
    BY <1>1, <1>2, <1>3, <1>4 DEF McpInv

\* or the operator is about to decide.
LEMMA AdminDecisionKept ==
  ASSUME McpInv, NEW c \in Calls, NEW a \in Approvals, AdminDecision(c, a)
  PROVE  McpInv'
  <1>1. CallsOK' /\ CallsAreNamed'
    <2> DEFINE new == [NoCall EXCEPT !.pc = "decide", !.agent = Admin, !.what = "decide", !.approval = a, !.n = mcpSpent.calls + 1]
    <2>1. /\ CallsOK /\ CallsAreNamed /\ approval' = approval /\ call' = [call EXCEPT ![c] = new]
          /\ mcpSpent.calls + 1 \in Nat
      BY DEF McpInv, McpSpentOK, AdminDecision
    <2>2. new \in CallRows /\ new.approval = a /\ new.agent = Admin /\ new.pc = "decide"
      BY <2>1 DEF CallRows, NoCall
    <2>3. approval[a].requester \in Agents /\ approval[a].requester # Admin /\ Admin # Nobody
      BY McpAssumption DEF McpAssumption, McpInv, AdminDecision, RequestsAreNamed
    <2> HIDE DEF new
    <2>4. call'[c] = new /\ \A d \in Calls \ {c} : call'[d] = call[d]
      BY <2>1 DEF CallsOK
    <2> QED
      BY <2>1, <2>2, <2>3, <2>4 DEF CallsOK, CallsAreNamed, Deciding
  <1>2. McpSpentOK'
    BY DEF McpInv, McpSpentOK, AdminDecision, FreeCall, NoApproval, NoCall
  <1>3. KeysAreTaken'
    BY DEF McpInv, KeysAreTaken, AdminDecision, FreeCall, NoApproval, NoCall
  <1>4. OneActs'
    BY DEF McpInv, OneActs, AdminDecision, FreeCall, NoApproval, NoCall, Acting
  <1>5. /\ AgentsOK' /\ IssuedOK' /\ ApprovalsOK' /\ KeysOK' /\ EffectsOK' /\ LiveTokens'
        /\ RequestsAreNamed' /\ DecidedByOthers' /\ TokensFollowGrants' /\ KeyRunsOnce'
        /\ ApprovedRunsOnce' /\ RunsAsApproved'
    BY DEF McpInv, AgentsOK, IssuedOK, ApprovalsOK, KeysOK, EffectsOK, LiveTokens,
       RequestsAreNamed, DecidedByOthers, TokensFollowGrants, KeyRunsOnce, ApprovedRunsOnce,
       RunsAsApproved, AdminDecision, FreeCall, NoCall
  <1> QED
    BY <1>1, <1>2, <1>3, <1>4, <1>5 DEF McpInv

\* The first decision counts, and its caller alone acts on it;
LEMMA DecideApprovalKept ==
  ASSUME McpInv, NEW c \in Calls, NEW decision \in {"approved", "rejected"},
         DecideApproval(c, decision)
  PROVE  McpInv'
  <1>1. ApprovalsOK'
    BY DEF McpInv, ApprovalsOK, DecideApproval, Decidable, NoCall
  <1>2. CallsOK'
    BY DEF McpInv, CallsOK, DecideApproval, Decidable, NoCall, CallRows
  <1>3. EffectsOK'
    BY DEF McpInv, EffectsOK, DecideApproval, Decidable, NoCall
  <1>4. CallsAreNamed'
    BY DEF McpInv, CallsAreNamed, DecideApproval, Decidable, NoCall, Deciding, ApprovalsOK,
       CallsOK, CallRows
  <1>5. RequestsAreNamed'
    BY DEF McpInv, RequestsAreNamed, DecideApproval, Decidable, NoCall, NoApproval, ApprovalsOK
  <1>6. KeysAreTaken'
    BY DEF McpInv, KeysAreTaken, DecideApproval, Decidable, NoCall, CallsOK, CallRows
  <1>7. OneActs'
    <2> DEFINE a == call[c].approval
    <2>0. CallsOK /\ ApprovalsOK /\ OneActs /\ a \in Approvals /\ effects' = effects
      BY DEF McpInv, CallsAreNamed, Deciding, DecideApproval
    <2>1. CASE Decidable(a) /\ decision = "approved"
      <3>1. /\ approval' = [approval EXCEPT ![a].status = "approved", ![a].by = call[c].agent]
            /\ call' = [call EXCEPT ![c] = [call[c] EXCEPT !.pc = "validate"]]
        BY <2>1 DEF DecideApproval
      <3>2. \A d \in Calls : Acting(d) => call[d].approval # a
        BY <2>0, <2>1 DEF OneActs, Decidable
      <3>3. \A e \in effects : e.approval # a
        <4>1. a # 0 /\ approval[a].status = "pending"
          BY <2>0, <2>1, McpAssumption DEF McpAssumption, Decidable
        <4> QED
          BY <4>1 DEF McpInv, RunsAsApproved
      <3>4. /\ call'[c].approval = a /\ \A d \in Calls \ {c} : call'[d] = call[d]
        BY <2>0, <3>1 DEF CallsOK, CallRows
      <3>5. /\ approval'[a].status = "approved"
            /\ \A b \in Approvals \ {a} : approval'[b] = approval[b]
        BY <2>0, <3>1 DEF ApprovalsOK
      <3>6. \A d \in Calls : Acting(d) => call[d].approval \in Approvals
        BY DEF McpInv, CallsAreNamed, Acting, Deciding
      <3> QED
        BY <2>0, <3>2, <3>3, <3>4, <3>5, <3>6 DEF OneActs, Acting
    <2>2. CASE call' = [call EXCEPT ![c] = NoCall]
      <3>1. \A d \in Calls : Acting(d)' => Acting(d) /\ call'[d] = call[d]
        BY <2>0, <2>2 DEF CallsOK, Acting, NoCall
      <3>2. \A d \in Calls : Acting(d) => approval'[call[d].approval].status = "approved"
        BY <2>0 DEF OneActs, ApprovalsOK, DecideApproval, Decidable, McpInv, CallsAreNamed,
           Acting, Deciding
      <3> QED
        BY <2>0, <2>2, <3>1, <3>2 DEF OneActs, Acting, CallsOK
    <2> QED
      BY <2>1, <2>2 DEF DecideApproval
  <1>8. DecidedByOthers'
    BY DEF McpInv, DecidedByOthers, DecideApproval, Decidable, NoCall, CallsAreNamed,
       ApprovalsOK, Deciding
  <1>9. ApprovedRunsOnce'
    BY DEF McpInv, ApprovedRunsOnce, DecideApproval, Decidable, NoCall
  <1>10. RunsAsApproved'
    BY DEF McpInv, RunsAsApproved, DecideApproval, Decidable, NoCall, ApprovalsOK, EffectsOK
  <1>11. /\ AgentsOK' /\ IssuedOK' /\ KeysOK' /\ McpSpentOK' /\ LiveTokens' /\ TokensFollowGrants'
         /\ KeyRunsOnce'
    BY DEF McpInv, AgentsOK, IssuedOK, KeysOK, McpSpentOK, LiveTokens, TokensFollowGrants,
       KeyRunsOnce, DecideApproval, Decidable, NoCall
  <1> QED
    BY <1>1, <1>2, <1>3, <1>4, <1>5, <1>6, <1>7, <1>8, <1>9, <1>10, <1>11 DEF McpInv

\* the requester is looked at again,
LEMMA ValidateRequesterKept ==
  ASSUME McpInv, NEW c \in Calls, ValidateRequester(c)
  PROVE  McpInv'
  <1>1. CallsOK'
    <2>1. PICK pc \in {"execute", "failed"} : call' = [call EXCEPT ![c].pc = pc]
      BY DEF ValidateRequester
    <2>2. call[c] \in CallRows
      BY DEF McpInv, CallsOK
    <2>3. [call[c] EXCEPT !.pc = pc] \in CallRows
      BY <2>2 DEF CallRows
    <2> QED
      BY <2>1, <2>3 DEF McpInv, CallsOK
  <1>2. CallsAreNamed'
    BY DEF McpInv, CallsAreNamed, ValidateRequester, Deciding
  <1>3. KeysAreTaken'
    BY DEF McpInv, KeysAreTaken, ValidateRequester
  <1>4. OneActs'
    BY DEF McpInv, OneActs, ValidateRequester, Acting
  <1>5. /\ AgentsOK' /\ IssuedOK' /\ ApprovalsOK' /\ KeysOK' /\ EffectsOK' /\ McpSpentOK'
        /\ LiveTokens' /\ RequestsAreNamed' /\ DecidedByOthers' /\ TokensFollowGrants'
        /\ KeyRunsOnce' /\ ApprovedRunsOnce' /\ RunsAsApproved'
    BY DEF McpInv, AgentsOK, IssuedOK, ApprovalsOK, KeysOK, EffectsOK, McpSpentOK, LiveTokens,
       RequestsAreNamed, DecidedByOthers, TokensFollowGrants, KeyRunsOnce, ApprovedRunsOnce,
       RunsAsApproved, ValidateRequester
  <1> QED
    BY <1>1, <1>2, <1>3, <1>4, <1>5 DEF McpInv

\* the operation runs once
LEMMA ExecuteApprovalKept ==
  ASSUME McpInv, NEW c \in Calls, ExecuteApproval(c)
  PROVE  McpInv'
  <1>1. CallsOK'
    BY DEF McpInv, CallsOK, ExecuteApproval, CallRows
  <1>2. EffectsOK'
    BY DEF McpInv, EffectsOK, ExecuteApproval, CallsAreNamed, CallsOK, Deciding, CallRows
  <1>3. CallsAreNamed'
    BY DEF McpInv, CallsAreNamed, ExecuteApproval, Deciding
  <1>4. KeysAreTaken'
    <2>1. KeysAreTaken /\ idempotency' = idempotency /\ EffectsOK
      BY DEF McpInv, ExecuteApproval
    <2>2. \A e \in effects' : e \in effects \/ e.key = Nobody
      BY DEF ExecuteApproval
    <2>3. \A d \in Calls : call'[d].pc = "run" => call'[d] = call[d] /\ call[d].pc = "run"
      BY DEF McpInv, CallsOK, CallRows, ExecuteApproval
    <2> QED
      BY <2>1, <2>2, <2>3 DEF KeysAreTaken
  <1>5. OneActs'
    BY DEF McpInv, OneActs, ExecuteApproval, Acting, CallsOK
  <1>6. KeyRunsOnce'
    BY DEF McpInv, KeyRunsOnce, ExecuteApproval
  <1>7. ApprovedRunsOnce'
    BY DEF McpInv, ApprovedRunsOnce, ExecuteApproval, OneActs
  <1>8. RunsAsApproved'
    BY DEF McpInv, RunsAsApproved, ExecuteApproval, CallsAreNamed, OneActs, DecidedByOthers,
       Deciding, Acting
  <1>9. /\ AgentsOK' /\ IssuedOK' /\ ApprovalsOK' /\ KeysOK' /\ McpSpentOK' /\ LiveTokens'
        /\ RequestsAreNamed' /\ DecidedByOthers' /\ TokensFollowGrants'
    BY DEF McpInv, AgentsOK, IssuedOK, ApprovalsOK, KeysOK, McpSpentOK, LiveTokens,
       RequestsAreNamed, DecidedByOthers, TokensFollowGrants, ExecuteApproval
  <1> QED
    BY <1>1, <1>2, <1>3, <1>4, <1>5, <1>6, <1>7, <1>8, <1>9 DEF McpInv

\* or not at all,
LEMMA ExecuteFailsKept ==
  ASSUME McpInv, NEW c \in Calls, ExecuteFails(c)
  PROVE  McpInv'
  <1>1. CallsOK'
    BY DEF McpInv, CallsOK, ExecuteFails, CallRows
  <1>2. CallsAreNamed'
    BY DEF McpInv, CallsAreNamed, ExecuteFails, Deciding
  <1>3. KeysAreTaken'
    BY DEF McpInv, KeysAreTaken, ExecuteFails
  <1>4. OneActs'
    BY DEF McpInv, OneActs, ExecuteFails, Acting
  <1>5. /\ AgentsOK' /\ IssuedOK' /\ ApprovalsOK' /\ KeysOK' /\ EffectsOK' /\ McpSpentOK'
        /\ LiveTokens' /\ RequestsAreNamed' /\ DecidedByOthers' /\ TokensFollowGrants'
        /\ KeyRunsOnce' /\ ApprovedRunsOnce' /\ RunsAsApproved'
    BY DEF McpInv, AgentsOK, IssuedOK, ApprovalsOK, KeysOK, EffectsOK, McpSpentOK, LiveTokens,
       RequestsAreNamed, DecidedByOthers, TokensFollowGrants, KeyRunsOnce, ApprovedRunsOnce,
       RunsAsApproved, ExecuteFails
  <1> QED
    BY <1>1, <1>2, <1>3, <1>4, <1>5 DEF McpInv

\* and the request keeps its approval.
LEMMA CompleteApprovalKept ==
  ASSUME McpInv, NEW c \in Calls, CompleteApproval(c)
  PROVE  McpInv'
  <1>1. ApprovalsOK'
    BY DEF McpInv, ApprovalsOK, CompleteApproval, NoCall
  <1>2. CallsOK'
    BY DEF McpInv, CallsOK, CompleteApproval, NoCall, CallRows
  <1>3. EffectsOK'
    BY DEF McpInv, EffectsOK, CompleteApproval, NoCall
  <1>4. CallsAreNamed'
    BY DEF McpInv, CallsAreNamed, CompleteApproval, NoCall, Deciding
  <1>5. RequestsAreNamed'
    BY DEF McpInv, RequestsAreNamed, CompleteApproval, NoCall, NoApproval
  <1>6. KeysAreTaken'
    BY DEF McpInv, KeysAreTaken, CompleteApproval, NoCall
  <1>7. OneActs'
    BY DEF McpInv, OneActs, CompleteApproval, NoCall, Acting, CallsOK
  <1>8. DecidedByOthers'
    BY DEF McpInv, DecidedByOthers, CompleteApproval, NoCall
  <1>9. ApprovedRunsOnce'
    BY DEF McpInv, ApprovedRunsOnce, CompleteApproval, NoCall
  <1>10. RunsAsApproved'
    BY DEF McpInv, RunsAsApproved, CompleteApproval, NoCall
  <1>11. /\ AgentsOK' /\ IssuedOK' /\ KeysOK' /\ McpSpentOK' /\ LiveTokens' /\ TokensFollowGrants'
         /\ KeyRunsOnce'
    BY DEF McpInv, AgentsOK, IssuedOK, KeysOK, McpSpentOK, LiveTokens, TokensFollowGrants,
       KeyRunsOnce, CompleteApproval, NoCall
  <1> QED
    BY <1>1, <1>2, <1>3, <1>4, <1>5, <1>6, <1>7, <1>8, <1>9, <1>10, <1>11 DEF McpInv

\* A restart forgets who was to act: nobody will.
LEMMA McpRestartKept ==
  ASSUME McpInv, McpRestart
  PROVE  McpInv'
  <1>1. CallsOK'
    BY DEF McpInv, CallsOK, McpRestart, NoCall, CallRows
  <1>2. McpSpentOK'
    BY DEF McpInv, McpSpentOK, McpRestart, NoCall
  <1>3. CallsAreNamed'
    BY DEF McpInv, CallsAreNamed, McpRestart, NoCall, Deciding
  <1>4. KeysAreTaken'
    BY DEF McpInv, KeysAreTaken, McpRestart, NoCall
  <1>5. OneActs'
    BY DEF McpInv, OneActs, McpRestart, NoCall, Acting
  <1>6. /\ AgentsOK' /\ IssuedOK' /\ ApprovalsOK' /\ KeysOK' /\ EffectsOK' /\ LiveTokens'
        /\ RequestsAreNamed' /\ DecidedByOthers' /\ TokensFollowGrants' /\ KeyRunsOnce'
        /\ ApprovedRunsOnce' /\ RunsAsApproved'
    BY DEF McpInv, AgentsOK, IssuedOK, ApprovalsOK, KeysOK, EffectsOK, LiveTokens,
       RequestsAreNamed, DecidedByOthers, TokensFollowGrants, KeyRunsOnce, ApprovedRunsOnce,
       RunsAsApproved, McpRestart, NoCall
  <1> QED
    BY <1>1, <1>2, <1>3, <1>4, <1>5, <1>6 DEF McpInv

\* Nothing has been asked, run or decided when the program first starts.
LEMMA InitMcpInv == McpInit => McpInv
  <1> SUFFICES ASSUME McpInit PROVE McpInv
    OBVIOUS
  <1>1. AgentsOK /\ IssuedOK /\ ApprovalsOK /\ KeysOK /\ EffectsOK /\ McpSpentOK
    BY DEF McpInit, AgentsOK, IssuedOK, ApprovalsOK, KeysOK, KeyRows, EffectsOK, McpSpentOK,
       Scopes, NoToken, NoApproval, NoKey
  <1>2. CallsOK
    BY NoCallOK DEF McpInit, CallsOK
  <1>3. CallsAreNamed /\ KeysAreTaken /\ OneActs
    BY DEF McpInit, CallsAreNamed, KeysAreTaken, OneActs, Deciding, Acting, NoCall
  <1>4. LiveTokens /\ TokensFollowGrants /\ RequestsAreNamed /\ DecidedByOthers
    BY DEF McpInit, LiveTokens, TokensFollowGrants, RequestsAreNamed, DecidedByOthers, NoToken,
       NoApproval
  <1>5. KeyRunsOnce /\ ApprovedRunsOnce /\ RunsAsApproved
    BY DEF McpInit, KeyRunsOnce, ApprovedRunsOnce, RunsAsApproved
  <1> QED
    BY <1>1, <1>2, <1>3, <1>4, <1>5 DEF McpInv

\* Every step keeps the invariant.
LEMMA McpInvKept == McpInv /\ [McpNext]_mcpVars => McpInv'
  <1> SUFFICES ASSUME McpInv, [McpNext]_mcpVars PROVE McpInv'
    OBVIOUS
  <1>1. ASSUME NEW c \in Calls, CallStep(c) PROVE McpInv'
    BY <1>1, VerifyTokenKept, RequireAgentKept, BeginIdempotencyKept, RunDirectKept,
       DirectFailsKept,
       CompleteIdempotencyKept, CreateApprovalKept, AskDecisionKept, AdminDecisionKept, DecideApprovalKept,
       ValidateRequesterKept, ExecuteApprovalKept, ExecuteFailsKept, CompleteApprovalKept DEF CallStep
  <1>2. ASSUME NEW g \in Agents, UpdateAgent(g) \/ RevokeAgent(g) \/ RotateSecret(g) PROVE McpInv'
    <2>1. /\ agent[g].scopes \in SUBSET Scopes /\ {"direct"} \in SUBSET Scopes /\ TRUE \in BOOLEAN
          /\ FALSE \in BOOLEAN
      BY DEF McpInv, AgentsOK, Scopes
    <2>2. PICK active \in BOOLEAN, scopes \in SUBSET Scopes : ChangeGrant(g, active, scopes)
      BY <1>2, <2>1 DEF UpdateAgent, RevokeAgent, RotateSecret
    <2> QED
      BY <2>2, ChangeGrantKept
  <1>3. CASE UNCHANGED mcpVars
    BY <1>3 DEF mcpVars, McpInv, AgentsOK, IssuedOK, ApprovalsOK, KeysOK, CallsOK, EffectsOK,
       McpSpentOK, LiveTokens, Deciding, Acting, CallsAreNamed, RequestsAreNamed, KeysAreTaken,
       OneActs, DecidedByOthers, TokensFollowGrants, KeyRunsOnce, ApprovedRunsOnce, RunsAsApproved
  <1> QED
    BY <1>1, <1>2, <1>3, IssueClientTokenKept, TokenExpiresKept, ApprovalExpiresKept,
       McpRestartKept DEF McpNext

\* Agents run what they were granted and what somebody else approved, once for a key and once for
\* an approval, whatever calls meet, tokens and grants change, and restarts cut off.
THEOREM AgentsRunAsGranted == McpSpec => []RunsAsGranted
  <1>1. McpInv => RunsAsGranted
    BY DEF McpInv, RunsAsGranted
  <1> QED
    BY <1>1, InitMcpInv, McpInvKept, PTL DEF McpSpec

-----------------------------------------------------------------------------
(* An account has its session and nobody else's (accounts/repository.go).  *)

\* Flows, files and the journal are of their kinds.
Positions == {"none", "login", "authorized", "publish", "record", "link", "commit", "refresh", "over", "gone"}
FlowRows == [pc : Positions, label : Ids \cup {0},
             state : {"none", "phone", "code", "password", "authorized", "done", "error"},
             cancelled : BOOLEAN, id : Ids \cup {0}]
FlowsOK == flow \in [Flows -> FlowRows]
SessionsOK == session \in [Ids -> Flows \cup {NoFlow}]
OpsOK ==
  /\ accountOps \in [Ids -> [action : {"none", "add", "delete"}, from : Flows \cup {NoFlow}]]
  /\ \A x \in Ids : accountOps[x].action = "add" <=> accountOps[x].from # NoFlow
RemovalOK ==
  removal \in [pc : {"off", "record", "unlink", "commit", "restart"}, id : Ids \cup {0}, restart : BOOLEAN]
FilesOK == /\ loginFile \subseteq Flows /\ listed \subseteq Ids /\ refusedLogins \subseteq Flows
           /\ orphanLogins \subseteq Flows
StepsAreAsked == \A f \in Flows : Login(f) = "login" => flow[f].state \in {"phone", "code", "password"}
EngineOK == engineUp \in BOOLEAN /\ accountsUp \in BOOLEAN

\* One holds monitorOp: the login that publishes, or the removal; while a removal is under way no
\* client runs, and while the process is down nobody does anything.
OneHolds ==
  /\ opHolder \in Flows \cup {NoFlow, -1}
  /\ \A f \in Flows : Login(f) \in {"record", "link", "commit", "refresh"} <=> opHolder = f
  /\ removal.pc # "off" <=> opHolder = -1
  /\ removal.pc # "off" => removal.id \in Ids /\ clients = {} /\ ~engineUp
  /\ ~accountsUp => opHolder = NoFlow

\* The journal belongs to who holds monitorOp: a login begins with an empty one and adds its own
\* operation, a removal its own.
JournalIsHeld == \A f \in Flows :
  /\ Login(f) \in {"record", "refresh"} => Journaled = {}
  /\ Login(f) \in {"link", "commit"} =>
       /\ flow[f].id \in Ids /\ Journaled = {flow[f].id}
       /\ accountOps[flow[f].id].from = f /\ f \in loginFile
  /\ Login(f) = "commit" => session[flow[f].id] = f
RemovalIsJournaled ==
  /\ removal.pc \in {"unlink", "commit"} => accountOps[removal.id].action = "delete"
  /\ removal.pc = "commit" => session[removal.id] = NoFlow

\* A login's session belongs to one account at most, from the moment it is published.
NamedOnce == \A x, y \in Ids : accountOps[x].from # NoFlow /\ accountOps[x].from = accountOps[y].from => x = y
PublishedLast == \A f \in Flows, x \in Ids :
  /\ accountOps[x].from = f => Login(f) \in {"link", "commit", "over", "gone"}
  /\ session[x] = f => Login(f) \in {"link", "commit", "refresh", "over", "gone"}

\* A login that may be published has its file; one that is published has none.
FilesAreThere == \A f \in Flows :
  /\ Login(f) \in {"authorized", "publish", "record"} => f \in loginFile
  /\ Login(f) \in {"none", "refresh"} => f \notin loginFile

\* A login that was cancelled never gets as far as its publication.
RefusedStays == \A f \in refusedLogins :
  Login(f) \in {"login", "authorized", "over", "gone"} /\ (Login(f) \in {"login", "authorized"} => flow[f].cancelled)

\* Clients are of accounts that have a session.
ClientsHaveSessions == clients \subseteq Saved

AccountsInv ==
  /\ FlowsOK /\ SessionsOK /\ OpsOK /\ RemovalOK /\ FilesOK /\ EngineOK /\ StepsAreAsked /\ OneHolds
  /\ JournalIsHeld /\ RemovalIsJournaled /\ NamedOnce /\ PublishedLast /\ FilesAreThere /\ RefusedStays
  /\ ClientsHaveSessions /\ AccountIsWhole /\ JournalIsApplicable /\ CancelledIsUnpublished /\ PendingIsOwned

\* A flow goes to another position and keeps its cancellation, label and account; so do the others.
Moves(f, pc) ==
  /\ flow' \in [Flows -> FlowRows] /\ flow'[f].pc = pc /\ \A g \in Flows \ {f} : flow'[g] = flow[g]
  /\ flow'[f].cancelled = flow[f].cancelled /\ flow'[f].id = flow[f].id

\* Recovery empties the journal: what was to be added has its session and place, what was to be
\* deleted has neither, and the files of the operations are gone.
Emptied ==
  /\ session' \in [Ids -> Flows \cup {NoFlow}] /\ accountOps' = [x \in Ids |-> NoOp]
  /\ listed' \subseteq Ids /\ \A x \in Ids : x \in listed' <=> session'[x] # NoFlow
  /\ \A x \in Ids : session'[x] # NoFlow => session'[x] = session[x] \/ session'[x] = accountOps[x].from
  /\ \A x \in clients : session'[x] # NoFlow
  /\ loginFile' = loginFile \ {accountOps[x].from : x \in Ids}

\* A flow that goes on or ends.
LEMMA GoesMoves == ASSUME FlowsOK, NEW f \in Flows, NEW pc \in Positions, Goes(f, pc) PROVE Moves(f, pc)
  BY DEF FlowsOK, FlowRows, Goes, Moves
LEMMA EndsMoves == ASSUME FlowsOK, NEW f \in Flows, NEW state \in {"error", "done"}, Ends(f, state) PROVE Moves(f, "over")
  BY DEF FlowsOK, FlowRows, Positions, Ends, Moves

\* No login, and one that is forgotten.
LEMMA NoLoginOK == NoLogin \in FlowRows /\ [NoLogin EXCEPT !.pc = "gone"] \in FlowRows
  BY DEF NoLogin, FlowRows, Positions

\* What recovery does, by the kind of the operation.
LEMMA Recovered == ASSUME AccountsInv, Recover PROVE Emptied
  <1>1. /\ /\ SessionsOK /\ OpsOK /\ FilesOK /\ AccountIsWhole /\ JournalIsApplicable
        /\ clients \subseteq Saved
    BY DEF AccountsInv, ClientsHaveSessions
  <1>2. \A x \in Ids : session'[x] = CASE accountOps[x].action = "add" -> accountOps[x].from
                                       [] accountOps[x].action = "delete" -> NoFlow
                                       [] OTHER -> session[x]
    BY DEF Recover
  <1>3. \A x \in Ids : accountOps[x].from \in Flows \cup {NoFlow} /\ session[x] \in Flows \cup {NoFlow}
                     /\ accountOps[x].action \in {"none", "add", "delete"}
                     /\ (accountOps[x].action = "add" <=> accountOps[x].from # NoFlow)
    BY <1>1 DEF OpsOK, SessionsOK
  <1>4. \A x \in Ids : session'[x] \in Flows \cup {NoFlow}
                     /\ (session'[x] # NoFlow => session'[x] = session[x] \/ session'[x] = accountOps[x].from)
    BY <1>2, <1>3
  <1>5. session' \in [Ids -> Flows \cup {NoFlow}]
    BY <1>4 DEF Recover
  <1>6. \A x \in Ids : accountOps[x].action = "none" => accountOps[x] = NoOp
    BY <1>1, <1>3, SMT DEF OpsOK, NoOp
  <1>7. \A x \in Ids : x \in listed' <=> session'[x] # NoFlow
    BY <1>1, <1>2, <1>3, <1>6, AccountsAssumption DEF Recover, AccountIsWhole, Journaled, Adding,
       AccountsAssumption
  <1>8. \A x \in clients : session'[x] # NoFlow
    BY <1>1, <1>2, <1>3 DEF JournalIsApplicable, Journaled, Saved
  <1>9. loginFile' = loginFile \ {accountOps[x].from : x \in Ids}
    BY <1>1, <1>3, AccountsAssumption DEF Recover, Adding, FilesOK, AccountsAssumption
  <1>10. listed' \subseteq Ids
    BY <1>1 DEF Recover, FilesOK, Adding
  <1> QED
    BY <1>4, <1>5, <1>7, <1>8, <1>9, <1>10 DEF Emptied, Recover

\* The key is no account's.
LEMMA CreateSecretKept ==
  ASSUME AccountsInv, CreateSecret
  PROVE  AccountsInv'
  <1>1. /\ FlowsOK' /\ SessionsOK' /\ OpsOK' /\ RemovalOK' /\ FilesOK' /\ EngineOK'
        /\ StepsAreAsked' /\ OneHolds' /\ JournalIsHeld' /\ RemovalIsJournaled' /\ NamedOnce'
        /\ PublishedLast' /\ FilesAreThere' /\ RefusedStays' /\ ClientsHaveSessions'
        /\ AccountIsWhole' /\ JournalIsApplicable' /\ CancelledIsUnpublished' /\ PendingIsOwned'
    BY DEF AccountsInv, FlowsOK, SessionsOK, OpsOK, RemovalOK, FilesOK, EngineOK, StepsAreAsked,
       OneHolds, JournalIsHeld, RemovalIsJournaled, NamedOnce, PublishedLast, FilesAreThere,
       RefusedStays, ClientsHaveSessions, AccountIsWhole, JournalIsApplicable,
       CancelledIsUnpublished, PendingIsOwned, CreateSecret, Saved, Fault, files, history,
       Login, Journaled, Applicable, Live, Kept
  <1> QED
    BY <1>1 DEF AccountsInv

\* A login begins with nothing.
LEMMA BeginLoginKept ==
  ASSUME AccountsInv, NEW f \in Flows, NEW label \in Ids \cup {0}, BeginLogin(f, label)
  PROVE  AccountsInv'
  <1>1. FlowsOK'
    <2>1. [NoLogin EXCEPT !.pc = "login", !.label = label, !.state = "phone"] \in FlowRows
      BY DEF NoLogin, FlowRows, Positions
    <2> QED
      BY <2>1 DEF AccountsInv, FlowsOK, BeginLogin
  <1>2. StepsAreAsked'
    BY DEF AccountsInv, StepsAreAsked, BeginLogin, Unused, Kept, Saved, NoLogin, files, history,
       Login
  <1>3. OneHolds'
    BY DEF AccountsInv, OneHolds, BeginLogin, Unused, Kept, Saved, NoLogin, files, history,
       Login
  <1>4. JournalIsHeld'
    BY DEF AccountsInv, JournalIsHeld, BeginLogin, Unused, Kept, Saved, NoLogin, files, history,
       Login, Journaled
  <1>5. PublishedLast'
    BY DEF AccountsInv, PublishedLast, BeginLogin, Unused, Kept, Saved, NoLogin, files, history,
       Login
  <1>6. FilesAreThere'
    BY DEF AccountsInv, FilesAreThere, BeginLogin, Unused, Kept, Saved, NoLogin, files, history,
       Login
  <1>7. RefusedStays'
    BY DEF AccountsInv, RefusedStays, BeginLogin, Unused, Kept, Saved, NoLogin, files, history,
       Login
  <1>8. PendingIsOwned'
    BY DEF AccountsInv, PendingIsOwned, BeginLogin, Unused, Kept, Saved, NoLogin, files,
       history, Live, Login
  <1>9. /\ SessionsOK' /\ OpsOK' /\ RemovalOK' /\ FilesOK' /\ EngineOK' /\ RemovalIsJournaled'
        /\ NamedOnce' /\ ClientsHaveSessions' /\ AccountIsWhole' /\ JournalIsApplicable'
        /\ CancelledIsUnpublished'
    BY DEF AccountsInv, SessionsOK, OpsOK, RemovalOK, FilesOK, EngineOK, RemovalIsJournaled,
       NamedOnce, ClientsHaveSessions, AccountIsWhole, JournalIsApplicable,
       CancelledIsUnpublished, BeginLogin, Unused, Kept, Saved, files, history, Journaled,
       Applicable, Login
  <1> QED
    BY <1>1, <1>2, <1>3, <1>4, <1>5, <1>6, <1>7, <1>8, <1>9 DEF AccountsInv

\* Telegram's answers give it a file,
LEMMA SubmitStepKept ==
  ASSUME AccountsInv, NEW f \in Flows, SubmitStep(f)
  PROVE  AccountsInv'
  <1>1. FlowsOK'
    <2>1. PICK state \in NextStates(flow[f].state) :
            IF state = "authorized" THEN Goes(f, "authorized") ELSE flow' = [flow EXCEPT ![f].state = state]
      BY DEF SubmitStep
    <2>2. CASE state = "authorized"
      BY <2>1, <2>2, GoesMoves DEF AccountsInv, Moves, Positions, FlowsOK
    <2>3. CASE state # "authorized"
      <3>1. flow[f] \in FlowRows
        BY DEF AccountsInv, FlowsOK
      <3>2. state \in {"code", "password", flow[f].state}
        BY <2>1, <2>3 DEF NextStates, AccountsInv, StepsAreAsked, SubmitStep
      <3>3. [flow[f] EXCEPT !.state = state] \in FlowRows
        BY <3>1, <3>2 DEF FlowRows
      <3> QED
        BY <2>1, <2>3, <3>3 DEF AccountsInv, FlowsOK
    <2> QED
      BY <2>2, <2>3
  <1>2. FilesOK'
    BY GoesMoves DEF AccountsInv, FilesOK, SubmitStep, Login, NextStates, history, Moves,
       Positions
  <1>3. StepsAreAsked'
    <2>1. PICK state \in NextStates(flow[f].state) :
            IF state = "authorized" THEN Goes(f, "authorized") ELSE flow' = [flow EXCEPT ![f].state = state]
      BY DEF SubmitStep
    <2>2. CASE state = "authorized"
      BY <2>1, <2>2, GoesMoves DEF AccountsInv, Moves, Positions, StepsAreAsked, Login
    <2>3. CASE state # "authorized"
      <3>1. state \in {"phone", "code", "password"}
        BY <2>1, <2>3 DEF AccountsInv, StepsAreAsked, SubmitStep, NextStates
      <3> DEFINE row == [flow[f] EXCEPT !.state = state]
      <3>2. row.state = state /\ flow' = [flow EXCEPT ![f] = row]
        BY <2>1, <2>3 DEF AccountsInv, FlowsOK, FlowRows
      <3> HIDE DEF row
      <3>3. flow'[f].state = state /\ \A g \in Flows \ {f} : flow'[g] = flow[g]
        BY <3>2 DEF AccountsInv, FlowsOK
      <3> QED
        BY <3>1, <3>3 DEF AccountsInv, StepsAreAsked, Login
    <2> QED
      BY <2>2, <2>3
  <1>4. OneHolds'
    <2>4. flow'[f].pc \in {"login", "authorized"} /\ \A g \in Flows \ {f} : flow'[g] = flow[g]
      BY GoesMoves DEF AccountsInv, SubmitStep, Login, Moves, Positions, FlowsOK, FlowRows
    <2>1. \A g \in Flows : Login(g)' = Login(g) \/ (Login(g) = "login" /\ Login(g)' \in {"login", "authorized"})
      BY <2>4 DEF SubmitStep, Login
    <2>2. \A g \in Flows : Login(g)' \in {"record", "link", "commit", "refresh"} <=> Login(g) \in {"record", "link", "commit", "refresh"}
      BY <2>1 DEF SubmitStep
    <2> QED
      BY <2>2 DEF AccountsInv, OneHolds, SubmitStep, history
  <1>5. JournalIsHeld'
    BY GoesMoves DEF AccountsInv, JournalIsHeld, SubmitStep, Login, NextStates, history,
       Journaled, Moves, FlowRows, Positions, FlowsOK
  <1>6. PublishedLast'
    BY GoesMoves DEF AccountsInv, PublishedLast, SubmitStep, Login, NextStates, history, Moves,
       FlowsOK, Positions
  <1>7. FilesAreThere'
    BY GoesMoves DEF AccountsInv, FilesAreThere, SubmitStep, Login, NextStates, history, Moves,
       FlowRows, Positions, FlowsOK
  <1>8. RefusedStays'
    BY GoesMoves DEF AccountsInv, RefusedStays, SubmitStep, Login, NextStates, history, Moves,
       FlowRows, Positions, FlowsOK, FilesOK
  <1>9. JournalIsApplicable'
    BY GoesMoves DEF AccountsInv, JournalIsApplicable, SubmitStep, Login, NextStates, history,
       Journaled, Applicable, Moves, Positions
  <1>10. PendingIsOwned'
    BY GoesMoves DEF AccountsInv, PendingIsOwned, SubmitStep, Login, NextStates, history, Live,
       Moves, Kept, FlowRows, Positions, FlowsOK, FilesOK
  <1>11. /\ SessionsOK' /\ OpsOK' /\ RemovalOK' /\ EngineOK' /\ RemovalIsJournaled' /\ NamedOnce'
         /\ ClientsHaveSessions' /\ AccountIsWhole' /\ CancelledIsUnpublished'
    BY GoesMoves DEF AccountsInv, SessionsOK, OpsOK, RemovalOK, EngineOK, RemovalIsJournaled,
       NamedOnce, ClientsHaveSessions, AccountIsWhole, CancelledIsUnpublished, SubmitStep,
       Login, history, Saved, Moves, Positions
  <1> QED
    BY <1>1, <1>2, <1>3, <1>4, <1>5, <1>6, <1>7, <1>8, <1>9, <1>10, <1>11 DEF AccountsInv

\* its end takes the file,
LEMMA LoginEndsKept ==
  ASSUME AccountsInv, NEW f \in Flows, LoginEnds(f)
  PROVE  AccountsInv'
  <1>1. FlowsOK'
    BY EndsMoves DEF AccountsInv, FlowsOK, LoginEnds, Login, history, Moves
  <1>2. FilesOK'
    BY EndsMoves DEF AccountsInv, FilesOK, LoginEnds, Login, history, Moves
  <1>3. StepsAreAsked'
    BY EndsMoves DEF AccountsInv, StepsAreAsked, LoginEnds, Login, history, Moves
  <1>4. OneHolds'
    BY EndsMoves DEF AccountsInv, OneHolds, LoginEnds, Login, history, Moves
  <1>5. JournalIsHeld'
    BY EndsMoves DEF AccountsInv, JournalIsHeld, LoginEnds, Login, history, Journaled, Moves
  <1>6. PublishedLast'
    BY EndsMoves DEF AccountsInv, PublishedLast, LoginEnds, Login, history, Moves
  <1>7. FilesAreThere'
    BY EndsMoves DEF AccountsInv, FilesAreThere, LoginEnds, Login, history, Moves
  <1>8. RefusedStays'
    BY EndsMoves DEF AccountsInv, RefusedStays, LoginEnds, Login, history, Moves, FlowRows,
       Positions, FilesOK
  <1>9. JournalIsApplicable'
    BY EndsMoves DEF AccountsInv, JournalIsApplicable, LoginEnds, Login, history, Journaled,
       Applicable, Moves, PublishedLast
  <1>10. PendingIsOwned'
    BY EndsMoves DEF AccountsInv, PendingIsOwned, LoginEnds, Login, history, Live, Moves, Kept,
       FilesOK
  <1>11. /\ SessionsOK' /\ OpsOK' /\ RemovalOK' /\ EngineOK' /\ RemovalIsJournaled' /\ NamedOnce'
         /\ ClientsHaveSessions' /\ AccountIsWhole' /\ CancelledIsUnpublished'
    BY EndsMoves DEF AccountsInv, SessionsOK, OpsOK, RemovalOK, EngineOK, RemovalIsJournaled,
       NamedOnce, ClientsHaveSessions, AccountIsWhole, CancelledIsUnpublished, LoginEnds, Login,
       history, Saved, Moves
  <1> QED
    BY <1>1, <1>2, <1>3, <1>4, <1>5, <1>6, <1>7, <1>8, <1>9, <1>10, <1>11 DEF AccountsInv

\* and it goes on to its publication unless it was cancelled.
LEMMA EnterPublicationKept ==
  ASSUME AccountsInv, NEW f \in Flows, EnterPublication(f)
  PROVE  AccountsInv'
  <1>1. FlowsOK'
    BY GoesMoves, EndsMoves DEF AccountsInv, FlowsOK, EnterPublication, Login, history, Moves,
       Positions
  <1>2. FilesOK'
    BY GoesMoves, EndsMoves DEF AccountsInv, FilesOK, EnterPublication, Login, history, Moves,
       Positions
  <1>3. StepsAreAsked'
    BY GoesMoves, EndsMoves DEF AccountsInv, StepsAreAsked, EnterPublication, Login, history,
       Moves, Positions
  <1>4. OneHolds'
    BY GoesMoves, EndsMoves DEF AccountsInv, OneHolds, EnterPublication, Login, history, Moves,
       Positions
  <1>5. JournalIsHeld'
    BY GoesMoves, EndsMoves DEF AccountsInv, JournalIsHeld, EnterPublication, Login, history,
       Journaled, Moves, Positions
  <1>6. PublishedLast'
    BY GoesMoves, EndsMoves DEF AccountsInv, PublishedLast, EnterPublication, Login, history,
       Moves, Positions
  <1>7. FilesAreThere'
    BY GoesMoves, EndsMoves DEF AccountsInv, FilesAreThere, EnterPublication, Login, history,
       Moves, Positions
  <1>8. RefusedStays'
    BY GoesMoves, EndsMoves DEF AccountsInv, RefusedStays, EnterPublication, Login, history,
       Moves, FlowRows, Positions, FilesOK
  <1>9. JournalIsApplicable'
    BY GoesMoves, EndsMoves DEF AccountsInv, JournalIsApplicable, EnterPublication, Login,
       history, Journaled, Applicable, Moves, PublishedLast, Positions
  <1>10. PendingIsOwned'
    BY GoesMoves, EndsMoves DEF AccountsInv, PendingIsOwned, EnterPublication, Login, history,
       Live, Moves, Kept, FilesOK, Positions
  <1>11. /\ SessionsOK' /\ OpsOK' /\ RemovalOK' /\ EngineOK' /\ RemovalIsJournaled' /\ NamedOnce'
         /\ ClientsHaveSessions' /\ AccountIsWhole' /\ CancelledIsUnpublished'
    BY GoesMoves, EndsMoves DEF AccountsInv, SessionsOK, OpsOK, RemovalOK, EngineOK,
       RemovalIsJournaled, NamedOnce, ClientsHaveSessions, AccountIsWhole,
       CancelledIsUnpublished, EnterPublication, Login, history, Saved, Moves, Positions
  <1> QED
    BY <1>1, <1>2, <1>3, <1>4, <1>5, <1>6, <1>7, <1>8, <1>9, <1>10, <1>11 DEF AccountsInv

\* A login is cancelled before its publication,
LEMMA CancelLoginKept ==
  ASSUME AccountsInv, NEW f \in Flows, CancelLogin(f)
  PROVE  AccountsInv'
  <1>1. FlowsOK'
    <2>1. [flow[f] EXCEPT !.cancelled = TRUE] \in FlowRows
      BY DEF AccountsInv, FlowsOK, FlowRows
    <2> QED
      BY <2>1 DEF AccountsInv, FlowsOK, CancelLogin
  <1>2. FilesOK'
    BY DEF AccountsInv, FilesOK, CancelLogin, Login, CancelStages, files
  <1>3. StepsAreAsked'
    BY DEF AccountsInv, StepsAreAsked, CancelLogin, Login, CancelStages, files
  <1>4. OneHolds'
    BY DEF AccountsInv, OneHolds, CancelLogin, Login, CancelStages, files
  <1>5. JournalIsHeld'
    BY DEF AccountsInv, JournalIsHeld, CancelLogin, Login, CancelStages, files, Journaled
  <1>6. PublishedLast'
    BY DEF AccountsInv, PublishedLast, CancelLogin, Login, CancelStages, files
  <1>7. FilesAreThere'
    BY DEF AccountsInv, FilesAreThere, CancelLogin, Login, CancelStages, files
  <1>8. RefusedStays'
    BY DEF AccountsInv, RefusedStays, CancelLogin, Login, CancelStages, files, FlowsOK
  <1>9. CancelledIsUnpublished'
    BY DEF AccountsInv, CancelledIsUnpublished, CancelLogin, Login, CancelStages, files,
       PublishedLast
  <1>10. PendingIsOwned'
    BY DEF AccountsInv, PendingIsOwned, CancelLogin, Login, CancelStages, files, Live, Kept
  <1>11. /\ SessionsOK' /\ OpsOK' /\ RemovalOK' /\ EngineOK' /\ RemovalIsJournaled' /\ NamedOnce'
         /\ ClientsHaveSessions' /\ AccountIsWhole' /\ JournalIsApplicable'
    BY DEF AccountsInv, SessionsOK, OpsOK, RemovalOK, EngineOK, RemovalIsJournaled, NamedOnce,
       ClientsHaveSessions, AccountIsWhole, JournalIsApplicable, CancelLogin, Login, files,
       Saved, Journaled, Applicable
  <1> QED
    BY <1>1, <1>2, <1>3, <1>4, <1>5, <1>6, <1>7, <1>8, <1>9, <1>10, <1>11 DEF AccountsInv

\* expires at any time,
LEMMA ExpireLoginKept ==
  ASSUME AccountsInv, NEW f \in Flows, ExpireLogin(f)
  PROVE  AccountsInv'
  <1>1. FlowsOK'
    <2>1. [flow[f] EXCEPT !.cancelled = TRUE] \in FlowRows
      BY DEF AccountsInv, FlowsOK, FlowRows
    <2> QED
      BY <2>1 DEF AccountsInv, FlowsOK, ExpireLogin
  <1>2. StepsAreAsked'
    BY DEF AccountsInv, StepsAreAsked, ExpireLogin, Live, files, history, Login, Kept
  <1>3. OneHolds'
    BY DEF AccountsInv, OneHolds, ExpireLogin, Live, files, history, Login, Kept
  <1>4. JournalIsHeld'
    BY DEF AccountsInv, JournalIsHeld, ExpireLogin, Live, files, history, Login, Journaled, Kept
  <1>5. PublishedLast'
    BY DEF AccountsInv, PublishedLast, ExpireLogin, Live, files, history, Login, Kept
  <1>6. FilesAreThere'
    BY DEF AccountsInv, FilesAreThere, ExpireLogin, Live, files, history, Login, Kept
  <1>7. RefusedStays'
    BY DEF AccountsInv, RefusedStays, ExpireLogin, Live, files, history, Login, Kept
  <1>8. PendingIsOwned'
    BY DEF AccountsInv, PendingIsOwned, ExpireLogin, Live, files, history, Kept, Login
  <1>9. /\ SessionsOK' /\ OpsOK' /\ RemovalOK' /\ FilesOK' /\ EngineOK' /\ RemovalIsJournaled'
        /\ NamedOnce' /\ ClientsHaveSessions' /\ AccountIsWhole' /\ JournalIsApplicable'
        /\ CancelledIsUnpublished'
    BY DEF AccountsInv, SessionsOK, OpsOK, RemovalOK, FilesOK, EngineOK, RemovalIsJournaled,
       NamedOnce, ClientsHaveSessions, AccountIsWhole, JournalIsApplicable,
       CancelledIsUnpublished, ExpireLogin, Live, files, history, Saved, Journaled, Applicable,
       Kept, Login
  <1> QED
    BY <1>1, <1>2, <1>3, <1>4, <1>5, <1>6, <1>7, <1>8, <1>9 DEF AccountsInv

\* and is forgotten when it is over.
LEMMA ForgetLoginKept ==
  ASSUME AccountsInv, NEW f \in Flows, ForgetLogin(f)
  PROVE  AccountsInv'
  <1>1. FlowsOK'
    BY NoLoginOK DEF AccountsInv, FlowsOK, ForgetLogin
  <1>2. StepsAreAsked'
    BY DEF AccountsInv, StepsAreAsked, ForgetLogin, Login, NoLogin, files, history
  <1>3. OneHolds'
    BY DEF AccountsInv, OneHolds, ForgetLogin, Login, NoLogin, files, history
  <1>4. JournalIsHeld'
    BY DEF AccountsInv, JournalIsHeld, ForgetLogin, Login, NoLogin, files, history, Journaled
  <1>5. PublishedLast'
    BY DEF AccountsInv, PublishedLast, ForgetLogin, Login, NoLogin, files, history
  <1>6. FilesAreThere'
    BY DEF AccountsInv, FilesAreThere, ForgetLogin, Login, NoLogin, files, history
  <1>7. RefusedStays'
    BY DEF AccountsInv, RefusedStays, ForgetLogin, Login, NoLogin, files, history
  <1>8. PendingIsOwned'
    BY DEF AccountsInv, PendingIsOwned, ForgetLogin, Login, NoLogin, files, history, Live, Kept
  <1>9. /\ SessionsOK' /\ OpsOK' /\ RemovalOK' /\ FilesOK' /\ EngineOK' /\ RemovalIsJournaled'
        /\ NamedOnce' /\ ClientsHaveSessions' /\ AccountIsWhole' /\ JournalIsApplicable'
        /\ CancelledIsUnpublished'
    BY DEF AccountsInv, SessionsOK, OpsOK, RemovalOK, FilesOK, EngineOK, RemovalIsJournaled,
       NamedOnce, ClientsHaveSessions, AccountIsWhole, JournalIsApplicable,
       CancelledIsUnpublished, ForgetLogin, Login, files, history, Saved, Journaled, Applicable
  <1> QED
    BY <1>1, <1>2, <1>3, <1>4, <1>5, <1>6, <1>7, <1>8, <1>9 DEF AccountsInv

\* A publication begins with an empty journal,
LEMMA BeginPublishKept ==
  ASSUME AccountsInv, NEW f \in Flows, BeginPublish(f)
  PROVE  AccountsInv'
  <1>1. FlowsOK'
    BY Recovered, GoesMoves, EndsMoves DEF AccountsInv, FlowsOK, BeginPublish, Login, Abandon,
       Fault, history, Emptied, Moves, NoOp, Positions
  <1>2. SessionsOK'
    BY Recovered, GoesMoves, EndsMoves DEF AccountsInv, SessionsOK, BeginPublish, Login,
       Abandon, Fault, history, Emptied, Moves, NoOp, Positions
  <1>3. OpsOK'
    BY Recovered, GoesMoves, EndsMoves DEF AccountsInv, OpsOK, BeginPublish, Login, Abandon,
       Fault, history, Emptied, Moves, NoOp, Positions
  <1>4. FilesOK'
    BY Recovered, GoesMoves, EndsMoves DEF AccountsInv, FilesOK, BeginPublish, Login, Abandon,
       Fault, history, Emptied, Moves, NoOp, Positions
  <1>5. StepsAreAsked'
    BY Recovered, GoesMoves, EndsMoves DEF AccountsInv, StepsAreAsked, BeginPublish, Login,
       Abandon, Fault, history, Emptied, Moves, NoOp, Positions
  <1>6. OneHolds'
    BY Recovered, GoesMoves, EndsMoves, AccountsAssumption DEF AccountsInv, OneHolds,
       BeginPublish, Login, Abandon, Fault, history, Emptied, Moves, NoOp, FlowRows, Positions,
       FlowsOK, AccountsAssumption
  <1>7. JournalIsHeld'
    <2>1. \A g \in Flows : Login(g) \notin {"record", "link", "commit", "refresh"}
      BY AccountsAssumption DEF AccountsInv, OneHolds, BeginPublish, AccountsAssumption
    <2>2. \A g \in Flows \ {f} : flow'[g] = flow[g]
      BY GoesMoves, EndsMoves DEF AccountsInv, BeginPublish, Abandon, Moves, Positions
    <2>3. CASE Recover /\ Goes(f, "record")
      <3>1. flow'[f].pc = "record"
        BY <2>3, GoesMoves DEF AccountsInv, Moves, Positions
      <3>2. Journaled' = {}
        BY <2>3, Recovered DEF Journaled, Emptied, NoOp
      <3> QED
        BY <2>1, <2>2, <3>1, <3>2 DEF JournalIsHeld, Login
    <2>4. CASE Ends(f, "error")
      <3>1. flow'[f].pc = "over"
        BY <2>4, EndsMoves DEF AccountsInv, Moves
      <3> QED
        BY <2>1, <2>2, <3>1 DEF JournalIsHeld, Login
    <2> QED
      BY <2>3, <2>4 DEF BeginPublish, Abandon
  <1>8. RemovalIsJournaled'
    BY Recovered, GoesMoves, EndsMoves, AccountsAssumption DEF AccountsInv, RemovalIsJournaled,
       BeginPublish, Login, Abandon, Fault, history, Emptied, Moves, NoOp, FlowRows, Positions,
       OneHolds, AccountsAssumption
  <1>9. NamedOnce'
    BY Recovered, GoesMoves, EndsMoves DEF AccountsInv, NamedOnce, BeginPublish, Login, Abandon,
       Fault, history, Emptied, Moves, NoOp, Positions
  <1>10. PublishedLast'
    BY Recovered, GoesMoves, EndsMoves DEF AccountsInv, PublishedLast, BeginPublish, Login,
       Abandon, Fault, history, Emptied, Moves, NoOp, OneHolds, JournalIsHeld, OpsOK, Journaled,
       Positions
  <1>11. FilesAreThere'
    BY Recovered, GoesMoves, EndsMoves DEF AccountsInv, FilesAreThere, BeginPublish, Login,
       Abandon, Fault, history, Emptied, Moves, NoOp, PublishedLast, Positions
  <1>12. RefusedStays'
    BY Recovered, GoesMoves, EndsMoves DEF AccountsInv, RefusedStays, BeginPublish, Login,
       Abandon, Fault, history, Emptied, Moves, NoOp, FlowRows, Positions, FilesOK
  <1>13. ClientsHaveSessions'
    BY Recovered, GoesMoves, EndsMoves DEF AccountsInv, ClientsHaveSessions, BeginPublish,
       Login, Abandon, Fault, history, Saved, Emptied, Moves, NoOp, Positions
  <1>14. AccountIsWhole'
    BY Recovered, GoesMoves, EndsMoves DEF AccountsInv, AccountIsWhole, BeginPublish, Login,
       Abandon, Fault, history, NoOp, Emptied, Moves, Positions
  <1>15. JournalIsApplicable'
    BY Recovered, GoesMoves, EndsMoves DEF AccountsInv, JournalIsApplicable, BeginPublish,
       Login, Abandon, Fault, history, Journaled, Applicable, Emptied, Moves, NoOp,
       PublishedLast, Positions
  <1>16. CancelledIsUnpublished'
    <2>1. CancelledIsUnpublished /\ refusedLogins \subseteq Flows /\ refusedLogins' = refusedLogins
      BY DEF AccountsInv, FilesOK, BeginPublish, history
    <2>2. \A x \in Ids : \/ session'[x] # NoFlow => session'[x] = session[x] \/ session'[x] = accountOps[x].from
                       \/ session'[x] = session[x]
      BY Recovered DEF BeginPublish, Emptied
    <2>4. accountOps' = accountOps \/ accountOps' = [x \in Ids |-> NoOp]
      BY Recovered DEF Emptied, BeginPublish
    <2>3. \A x \in Ids : accountOps'[x].from = NoFlow \/ accountOps'[x] = accountOps[x]
      BY <2>4 DEF NoOp
    <2> QED
      BY <2>1, <2>2, <2>3, AccountsAssumption DEF CancelledIsUnpublished, AccountsAssumption
  <1>17. PendingIsOwned'
    BY Recovered, GoesMoves, EndsMoves DEF AccountsInv, PendingIsOwned, BeginPublish, Login,
       Abandon, Fault, history, Live, Emptied, Moves, Kept, NoOp, FilesOK, Positions
  <1>18. RemovalOK' /\ EngineOK'
    BY Recovered, GoesMoves, EndsMoves DEF AccountsInv, RemovalOK, EngineOK, BeginPublish,
       Login, Abandon, Fault, history, Emptied, Moves, Positions
  <1> QED
    BY <1>1, <1>2, <1>3, <1>4, <1>5, <1>6, <1>7, <1>8, <1>9, <1>10, <1>11, <1>12, <1>13, <1>14,
       <1>15, <1>16, <1>17, <1>18 DEF AccountsInv

\* enters the operation of an account without a session,
LEMMA RecordAddKept ==
  ASSUME AccountsInv, NEW f \in Flows, RecordAdd(f)
  PROVE  AccountsInv'
  <1>1. FlowsOK'
    <2>1. CASE Ends(f, "error")
      BY <2>1, EndsMoves DEF AccountsInv, Moves, FlowsOK
    <2>2. ASSUME NEW x \in Ids, flow' = [flow EXCEPT ![f].pc = "link", ![f].id = x] PROVE FlowsOK'
      <3>1. [flow[f] EXCEPT !.pc = "link", !.id = x] \in FlowRows
        BY DEF AccountsInv, FlowsOK, FlowRows, Positions
      <3> QED
        BY <2>2, <3>1 DEF AccountsInv, FlowsOK
    <2>3. FreeIds(f) \subseteq Ids
      BY DEF FreeIds
    <2> QED
      BY <2>1, <2>2, <2>3 DEF RecordAdd, Abandon
  <1>2. OpsOK'
    <2>1. OpsOK /\ NoFlow \notin Flows
      BY AccountsAssumption DEF AccountsInv, AccountsAssumption
    <2>2. FreeIds(f) \subseteq Ids
      BY DEF FreeIds
    <2>3. accountOps' = accountOps \/ \E x \in Ids : accountOps' = [accountOps EXCEPT ![x] = [action |-> "add", from |-> f]]
      BY <2>2 DEF RecordAdd
    <2> QED
      BY <2>1, <2>3 DEF OpsOK
  <1>3. FilesOK'
    BY EndsMoves DEF AccountsInv, FilesOK, RecordAdd, Login, FreeIds, NoOp, Abandon, Fault,
       history, Live, Saved, Kept, Moves
  <1>4. StepsAreAsked'
    <2>1. CASE Ends(f, "error")
      BY <2>1, EndsMoves DEF AccountsInv, Moves, StepsAreAsked, Login
    <2>2. ASSUME NEW x \in Ids, flow' = [flow EXCEPT ![f].pc = "link", ![f].id = x]
          PROVE StepsAreAsked'
      <3> DEFINE row == [flow[f] EXCEPT !.pc = "link", !.id = x]
      <3>1. row.pc = "link"
        BY DEF AccountsInv, FlowsOK, FlowRows
      <3>2. flow' = [flow EXCEPT ![f] = row]
        BY <2>2
      <3> HIDE DEF row
      <3>3. flow'[f].pc = "link" /\ \A g \in Flows \ {f} : flow'[g] = flow[g]
        BY <3>1, <3>2 DEF AccountsInv, FlowsOK
      <3> QED
        BY <3>3 DEF AccountsInv, StepsAreAsked, Login
    <2>3. FreeIds(f) \subseteq Ids
      BY DEF FreeIds
    <2> QED
      BY <2>1, <2>2, <2>3 DEF RecordAdd, Abandon
  <1>5. OneHolds'
    BY EndsMoves, AccountsAssumption DEF AccountsInv, OneHolds, RecordAdd, Login, FreeIds, NoOp,
       Abandon, Fault, history, Live, Saved, Kept, Moves, FlowRows, Positions, FlowsOK,
       AccountsAssumption
  <1>6. JournalIsHeld'
    BY EndsMoves DEF AccountsInv, JournalIsHeld, RecordAdd, Login, FreeIds, NoOp, Abandon,
       Fault, history, Journaled, Live, Saved, Kept, Moves, FlowRows, Positions, OneHolds,
       FilesAreThere, FlowsOK, OpsOK
  <1>7. RemovalIsJournaled'
    BY EndsMoves DEF AccountsInv, RemovalIsJournaled, RecordAdd, Login, FreeIds, NoOp, Abandon,
       Fault, history, Live, Saved, Kept, Moves, OneHolds, JournalIsHeld, Journaled
  <1>8. NamedOnce'
    BY EndsMoves DEF AccountsInv, NamedOnce, RecordAdd, Login, FreeIds, NoOp, Abandon, Fault,
       history, Live, Saved, Kept, Moves, PublishedLast, OpsOK
  <1>9. PublishedLast'
    BY EndsMoves, AccountsAssumption DEF AccountsInv, PublishedLast, RecordAdd, Login, FreeIds,
       NoOp, Abandon, Fault, history, Live, Saved, Kept, Moves, FlowRows, Positions,
       StepsAreAsked, OneHolds, JournalIsHeld, FilesAreThere, JournalIsApplicable, FlowsOK,
       SessionsOK, OpsOK, Journaled, Applicable, AccountsAssumption
  <1>10. FilesAreThere'
    BY EndsMoves DEF AccountsInv, FilesAreThere, RecordAdd, Login, FreeIds, NoOp, Abandon,
       Fault, history, Live, Saved, Kept, Moves, FlowRows, Positions, FlowsOK
  <1>11. RefusedStays'
    BY EndsMoves DEF AccountsInv, RefusedStays, RecordAdd, Login, FreeIds, NoOp, Abandon, Fault,
       history, Live, Saved, Kept, Moves, FlowRows, Positions, FlowsOK, FilesOK
  <1>12. AccountIsWhole'
    BY EndsMoves DEF AccountsInv, AccountIsWhole, RecordAdd, Login, FreeIds, NoOp, Abandon,
       Fault, history, Live, Saved, Kept, Moves, OpsOK
  <1>13. JournalIsApplicable'
    BY EndsMoves DEF AccountsInv, JournalIsApplicable, RecordAdd, Login, FreeIds, NoOp, Abandon,
       Fault, history, Journaled, Applicable, Live, Saved, Kept, Moves, PublishedLast,
       FilesAreThere, ClientsHaveSessions, OpsOK
  <1>14. CancelledIsUnpublished'
    BY EndsMoves DEF AccountsInv, CancelledIsUnpublished, RecordAdd, Login, FreeIds, NoOp,
       Abandon, Fault, history, Live, Saved, Kept, Moves, RefusedStays, OpsOK
  <1>15. PendingIsOwned'
    BY EndsMoves, AccountsAssumption DEF AccountsInv, PendingIsOwned, RecordAdd, Login, FreeIds,
       NoOp, Abandon, Fault, history, Live, Saved, Kept, Moves, FlowRows, Positions,
       CancelledIsUnpublished, FlowsOK, OpsOK, FilesOK, AccountsAssumption
  <1>16. SessionsOK' /\ RemovalOK' /\ EngineOK' /\ ClientsHaveSessions'
    BY EndsMoves DEF AccountsInv, SessionsOK, RemovalOK, EngineOK, ClientsHaveSessions,
       RecordAdd, Login, FreeIds, Abandon, Fault, history, Saved, Live, Kept, Moves
  <1> QED
    BY <1>1, <1>2, <1>3, <1>4, <1>5, <1>6, <1>7, <1>8, <1>9, <1>10, <1>11, <1>12, <1>13, <1>14,
       <1>15, <1>16 DEF AccountsInv

\* gives the account its session
LEMMA LinkSessionKept ==
  ASSUME AccountsInv, NEW f \in Flows, LinkSession(f)
  PROVE  AccountsInv'
  <1>1. FlowsOK'
    BY GoesMoves, EndsMoves DEF AccountsInv, FlowsOK, LinkSession, Login, Abandon, Fault,
       history, Moves, Positions
  <1>2. SessionsOK'
    BY GoesMoves, EndsMoves DEF AccountsInv, SessionsOK, LinkSession, Login, Abandon, Fault,
       history, Moves, Positions
  <1>3. FilesOK'
    BY GoesMoves, EndsMoves DEF AccountsInv, FilesOK, LinkSession, Login, Abandon, Fault,
       history, Moves, Positions
  <1>4. StepsAreAsked'
    <2>1. \A g \in Flows \ {f} : flow'[g] = flow[g]
      BY GoesMoves, EndsMoves DEF AccountsInv, LinkSession, Abandon, Moves, Positions
    <2>2. flow'[f].pc \in {"commit", "over"}
      BY GoesMoves, EndsMoves DEF AccountsInv, LinkSession, Abandon, Moves, Positions
    <2> QED
      BY <2>1, <2>2 DEF AccountsInv, StepsAreAsked, Login
  <1>5. OneHolds'
    <2>1. \A g \in Flows \ {f} : flow'[g] = flow[g]
      BY GoesMoves, EndsMoves DEF AccountsInv, LinkSession, Abandon, Moves, Positions
    <2>2. (flow'[f].pc = "commit" /\ opHolder' = opHolder) \/ (flow'[f].pc = "over" /\ opHolder' = NoFlow)
      BY GoesMoves, EndsMoves DEF AccountsInv, LinkSession, Abandon, Moves, Positions
    <2>3. OneHolds /\ opHolder = f /\ f # NoFlow /\ f # -1 /\ accountsUp
      BY AccountsAssumption DEF AccountsInv, OneHolds, LinkSession, AccountsAssumption
    <2> QED
      BY <2>1, <2>2, <2>3, AccountsAssumption DEF OneHolds, LinkSession, Login, AccountsAssumption
  <1>6. JournalIsHeld'
    BY GoesMoves, EndsMoves DEF AccountsInv, JournalIsHeld, LinkSession, Login, Abandon, Fault,
       history, Journaled, Moves, SessionsOK, Positions
  <1>7. RemovalIsJournaled'
    BY GoesMoves, EndsMoves DEF AccountsInv, RemovalIsJournaled, LinkSession, Login, Abandon,
       Fault, history, Moves, FlowRows, Positions, OneHolds, JournalIsHeld, SessionsOK, OpsOK
  <1>8. PublishedLast'
    BY GoesMoves, EndsMoves DEF AccountsInv, PublishedLast, LinkSession, Login, Abandon, Fault,
       history, Moves, SessionsOK, Positions
  <1>9. FilesAreThere'
    BY GoesMoves, EndsMoves DEF AccountsInv, FilesAreThere, LinkSession, Login, Abandon, Fault,
       history, Moves, Positions
  <1>10. RefusedStays'
    BY GoesMoves, EndsMoves DEF AccountsInv, RefusedStays, LinkSession, Login, Abandon, Fault,
       history, Moves, FlowRows, Positions, FilesOK
  <1>11. ClientsHaveSessions'
    BY GoesMoves, EndsMoves DEF AccountsInv, ClientsHaveSessions, LinkSession, Login, Abandon,
       Fault, history, Saved, Moves, SessionsOK, Positions
  <1>12. AccountIsWhole'
    BY GoesMoves, EndsMoves DEF AccountsInv, AccountIsWhole, LinkSession, Login, Abandon, Fault,
       history, NoOp, Moves, JournalIsHeld, SessionsOK, Positions
  <1>13. JournalIsApplicable'
    BY GoesMoves, EndsMoves DEF AccountsInv, JournalIsApplicable, LinkSession, Login, Abandon,
       Fault, history, Journaled, Applicable, Moves, JournalIsHeld, SessionsOK, Positions
  <1>14. CancelledIsUnpublished'
    BY GoesMoves, EndsMoves DEF AccountsInv, CancelledIsUnpublished, LinkSession, Login,
       Abandon, Fault, history, Moves, RefusedStays, SessionsOK, Positions
  <1>15. PendingIsOwned'
    BY GoesMoves, EndsMoves DEF AccountsInv, PendingIsOwned, LinkSession, Login, Abandon, Fault,
       history, Live, Moves, Kept, JournalIsHeld, FilesOK, Positions
  <1>16. OpsOK' /\ RemovalOK' /\ EngineOK' /\ NamedOnce'
    BY GoesMoves, EndsMoves DEF AccountsInv, OpsOK, RemovalOK, EngineOK, NamedOnce, LinkSession,
       Login, Abandon, Fault, history, Moves, Positions
  <1> QED
    BY <1>1, <1>2, <1>3, <1>4, <1>5, <1>6, <1>7, <1>8, <1>9, <1>10, <1>11, <1>12, <1>13, <1>14,
       <1>15, <1>16 DEF AccountsInv

\* and its place in the configuration with the end of the operation;
LEMMA CommitAddKept ==
  ASSUME AccountsInv, NEW f \in Flows, CommitAdd(f)
  PROVE  AccountsInv'
  <1>1. FlowsOK'
    BY GoesMoves, EndsMoves DEF AccountsInv, FlowsOK, CommitAdd, Login, NoOp, Abandon, Fault,
       history, Moves, Positions
  <1>2. OpsOK'
    BY GoesMoves, EndsMoves DEF AccountsInv, OpsOK, CommitAdd, Login, NoOp, Abandon, Fault,
       history, Moves, Positions
  <1>3. FilesOK'
    <2>1. flow[f].id \in Ids /\ FilesOK
      BY DEF AccountsInv, CommitAdd, JournalIsHeld
    <2> QED
      BY <2>1 DEF CommitAdd, Abandon, FilesOK, files, history
  <1>4. StepsAreAsked'
    BY GoesMoves, EndsMoves DEF AccountsInv, StepsAreAsked, CommitAdd, Login, NoOp, Abandon,
       Fault, history, Moves, Positions
  <1>5. OneHolds'
    BY GoesMoves, EndsMoves, AccountsAssumption DEF AccountsInv, OneHolds, CommitAdd, Login,
       NoOp, Abandon, Fault, history, Moves, FlowRows, Positions, AccountsAssumption
  <1>6. JournalIsHeld'
    BY GoesMoves, EndsMoves DEF AccountsInv, JournalIsHeld, CommitAdd, Login, NoOp, Abandon,
       Fault, history, Journaled, Moves, OpsOK, Positions
  <1>7. RemovalIsJournaled'
    BY GoesMoves, EndsMoves, AccountsAssumption DEF AccountsInv, RemovalIsJournaled, CommitAdd,
       Login, NoOp, Abandon, Fault, history, Moves, FlowRows, Positions, OneHolds,
       AccountsAssumption
  <1>8. NamedOnce'
    BY GoesMoves, EndsMoves DEF AccountsInv, NamedOnce, CommitAdd, Login, NoOp, Abandon, Fault,
       history, Moves, OpsOK, Positions
  <1>9. PublishedLast'
    BY GoesMoves, EndsMoves, AccountsAssumption DEF AccountsInv, PublishedLast, CommitAdd,
       Login, NoOp, Abandon, Fault, history, Moves, FlowRows, Positions, JournalIsHeld, OpsOK,
       Journaled, AccountsAssumption
  <1>10. FilesAreThere'
    BY GoesMoves, EndsMoves DEF AccountsInv, FilesAreThere, CommitAdd, Login, NoOp, Abandon,
       Fault, history, Moves, Positions
  <1>11. RefusedStays'
    BY GoesMoves, EndsMoves DEF AccountsInv, RefusedStays, CommitAdd, Login, NoOp, Abandon,
       Fault, history, Moves, FlowRows, Positions, FilesOK
  <1>12. AccountIsWhole'
    BY GoesMoves, EndsMoves, AccountsAssumption DEF AccountsInv, AccountIsWhole, CommitAdd,
       Login, NoOp, Abandon, Fault, history, Moves, FlowRows, Positions, JournalIsHeld, OpsOK,
       AccountsAssumption
  <1>13. JournalIsApplicable'
    BY GoesMoves, EndsMoves DEF AccountsInv, JournalIsApplicable, CommitAdd, Login, NoOp,
       Abandon, Fault, history, Journaled, Applicable, Moves, JournalIsHeld, OpsOK, Positions
  <1>14. CancelledIsUnpublished'
    BY GoesMoves, EndsMoves, AccountsAssumption DEF AccountsInv, CancelledIsUnpublished,
       CommitAdd, Login, NoOp, Abandon, Fault, history, Moves, FlowRows, Positions, OpsOK,
       FilesOK, AccountsAssumption
  <1>15. PendingIsOwned'
    BY GoesMoves, EndsMoves DEF AccountsInv, PendingIsOwned, CommitAdd, Login, NoOp, Abandon,
       Fault, history, Live, Moves, Kept, JournalIsHeld, OpsOK, FilesOK, Positions
  <1>16. SessionsOK' /\ RemovalOK' /\ EngineOK' /\ ClientsHaveSessions'
    BY GoesMoves, EndsMoves DEF AccountsInv, SessionsOK, RemovalOK, EngineOK,
       ClientsHaveSessions, CommitAdd, Login, Abandon, Fault, history, Saved, Moves, Positions
  <1> QED
    BY <1>1, <1>2, <1>3, <1>4, <1>5, <1>6, <1>7, <1>8, <1>9, <1>10, <1>11, <1>12, <1>13, <1>14,
       <1>15, <1>16 DEF AccountsInv

\* the clients then are those of whole accounts.
LEMMA FinishPublishKept ==
  ASSUME AccountsInv, NEW f \in Flows, FinishPublish(f)
  PROVE  AccountsInv'
  <1>1. FlowsOK'
    BY EndsMoves DEF AccountsInv, FlowsOK, FinishPublish, Login, Saved, files, history, Moves
  <1>2. EngineOK'
    BY EndsMoves DEF AccountsInv, EngineOK, FinishPublish, Login, Saved, files, history, Moves
  <1>3. StepsAreAsked'
    BY EndsMoves DEF AccountsInv, StepsAreAsked, FinishPublish, Login, Saved, files, history,
       Moves
  <1>4. OneHolds'
    BY EndsMoves, AccountsAssumption DEF AccountsInv, OneHolds, FinishPublish, Login, Saved,
       files, history, Moves, FlowRows, Positions, RemovalOK, AccountsAssumption
  <1>5. JournalIsHeld'
    BY EndsMoves DEF AccountsInv, JournalIsHeld, FinishPublish, Login, Saved, files, history,
       Journaled, Moves
  <1>6. PublishedLast'
    BY EndsMoves DEF AccountsInv, PublishedLast, FinishPublish, Login, Saved, files, history,
       Moves
  <1>7. FilesAreThere'
    BY EndsMoves DEF AccountsInv, FilesAreThere, FinishPublish, Login, Saved, files, history,
       Moves
  <1>8. RefusedStays'
    BY EndsMoves DEF AccountsInv, RefusedStays, FinishPublish, Login, Saved, files, history,
       Moves, FlowRows, Positions, FilesOK
  <1>9. ClientsHaveSessions'
    BY EndsMoves DEF AccountsInv, ClientsHaveSessions, FinishPublish, Login, Saved, files,
       history, Moves
  <1>10. JournalIsApplicable'
    BY EndsMoves DEF AccountsInv, JournalIsApplicable, FinishPublish, Login, Saved, files,
       history, Journaled, Applicable, Moves, JournalIsHeld
  <1>11. PendingIsOwned'
    BY EndsMoves DEF AccountsInv, PendingIsOwned, FinishPublish, Login, Saved, files, history,
       Live, Moves, Kept, FlowRows, Positions, FilesAreThere, FilesOK
  <1>12. /\ SessionsOK' /\ OpsOK' /\ RemovalOK' /\ FilesOK' /\ RemovalIsJournaled' /\ NamedOnce'
         /\ AccountIsWhole' /\ CancelledIsUnpublished'
    BY EndsMoves DEF AccountsInv, SessionsOK, OpsOK, RemovalOK, FilesOK, RemovalIsJournaled,
       NamedOnce, AccountIsWhole, CancelledIsUnpublished, FinishPublish, Login, Saved, files,
       history, Moves
  <1> QED
    BY <1>1, <1>2, <1>3, <1>4, <1>5, <1>6, <1>7, <1>8, <1>9, <1>10, <1>11, <1>12 DEF AccountsInv

\* A removal begins with every client stopped,
LEMMA BeginRemoveKept ==
  ASSUME AccountsInv, NEW x \in Ids, BeginRemove(x)
  PROVE  AccountsInv'
  <1>1. RemovalOK'
    <2>1. engineUp \in BOOLEAN
      BY DEF AccountsInv, EngineOK
    <2> QED
      BY <2>1 DEF BeginRemove, RemovalOK
  <1>2. EngineOK'
    BY DEF AccountsInv, EngineOK, BeginRemove, Saved, Stopped, files, history
  <1>3. OneHolds'
    BY AccountsAssumption DEF AccountsInv, OneHolds, BeginRemove, Saved, Stopped, files,
       history, Login, AccountsAssumption
  <1>4. RemovalIsJournaled'
    BY DEF AccountsInv, RemovalIsJournaled, BeginRemove, Saved, Stopped, files, history
  <1>5. ClientsHaveSessions'
    BY DEF AccountsInv, ClientsHaveSessions, BeginRemove, Saved, Stopped, files, history
  <1>6. JournalIsApplicable'
    BY DEF AccountsInv, JournalIsApplicable, BeginRemove, Saved, Stopped, files, history,
       Journaled, Applicable
  <1>7. /\ FlowsOK' /\ SessionsOK' /\ OpsOK' /\ FilesOK' /\ StepsAreAsked' /\ JournalIsHeld'
        /\ NamedOnce' /\ PublishedLast' /\ FilesAreThere' /\ RefusedStays' /\ AccountIsWhole'
        /\ CancelledIsUnpublished' /\ PendingIsOwned'
    BY DEF AccountsInv, FlowsOK, SessionsOK, OpsOK, FilesOK, StepsAreAsked, JournalIsHeld,
       NamedOnce, PublishedLast, FilesAreThere, RefusedStays, AccountIsWhole,
       CancelledIsUnpublished, PendingIsOwned, BeginRemove, Saved, files, history, Login,
       Journaled, Live, Kept
  <1> QED
    BY <1>1, <1>2, <1>3, <1>4, <1>5, <1>6, <1>7 DEF AccountsInv

\* enters its operation in an empty journal,
LEMMA RecordDeleteKept ==
  ASSUME AccountsInv, RecordDelete
  PROVE  AccountsInv'
  <1>1. SessionsOK'
    BY Recovered DEF AccountsInv, SessionsOK, RecordDelete, Journaled, Saved, files, Fault,
       history, Emptied, NoOp
  <1>2. OpsOK'
    BY Recovered DEF AccountsInv, OpsOK, RecordDelete, Journaled, Saved, files, Fault, history,
       Emptied, NoOp
  <1>3. RemovalOK'
    BY Recovered DEF AccountsInv, RemovalOK, RecordDelete, Journaled, Saved, files, Fault,
       history, Emptied, NoOp
  <1>4. FilesOK'
    BY Recovered DEF AccountsInv, FilesOK, RecordDelete, Journaled, Saved, files, Fault,
       history, Emptied, NoOp
  <1>5. OneHolds'
    BY Recovered DEF AccountsInv, OneHolds, RecordDelete, Journaled, Saved, files, Fault,
       history, Login, Emptied, NoOp, RemovalOK
  <1>6. JournalIsHeld'
    BY Recovered, AccountsAssumption DEF AccountsInv, JournalIsHeld, RecordDelete, Journaled,
       Saved, files, Fault, history, Login, Emptied, NoOp, OneHolds, AccountsAssumption
  <1>7. RemovalIsJournaled'
    BY Recovered DEF AccountsInv, RemovalIsJournaled, RecordDelete, Journaled, Saved, files,
       Fault, history, Emptied, NoOp, OpsOK, RemovalOK
  <1>8. NamedOnce'
    BY Recovered DEF AccountsInv, NamedOnce, RecordDelete, Journaled, Saved, files, Fault,
       history, Emptied, NoOp, OpsOK
  <1>9. PublishedLast'
    BY Recovered, AccountsAssumption DEF AccountsInv, PublishedLast, RecordDelete, Journaled,
       Saved, files, Fault, history, Login, Emptied, NoOp, OpsOK, AccountsAssumption
  <1>10. FilesAreThere'
    BY Recovered DEF AccountsInv, FilesAreThere, RecordDelete, Journaled, Saved, files, Fault,
       history, Login, Emptied, NoOp, PublishedLast
  <1>11. ClientsHaveSessions'
    BY Recovered DEF AccountsInv, ClientsHaveSessions, RecordDelete, Journaled, Saved, files,
       Fault, history, Emptied, NoOp
  <1>12. AccountIsWhole'
    BY Recovered DEF AccountsInv, AccountIsWhole, RecordDelete, Journaled, Saved, files, Fault,
       history, NoOp, Emptied, OpsOK
  <1>13. JournalIsApplicable'
    BY Recovered DEF AccountsInv, JournalIsApplicable, RecordDelete, Journaled, Saved, files,
       Fault, history, Applicable, Emptied, NoOp, OneHolds, OpsOK
  <1>14. CancelledIsUnpublished'
    BY Recovered, AccountsAssumption DEF AccountsInv, CancelledIsUnpublished, RecordDelete,
       Journaled, Saved, files, Fault, history, Emptied, NoOp, OpsOK, FilesOK,
       AccountsAssumption
  <1>15. PendingIsOwned'
    BY Recovered DEF AccountsInv, PendingIsOwned, RecordDelete, Journaled, Saved, files, Fault,
       history, Live, Emptied, Kept, Login, NoOp, OpsOK
  <1>16. FlowsOK' /\ EngineOK' /\ StepsAreAsked' /\ RefusedStays'
    BY Recovered DEF AccountsInv, FlowsOK, EngineOK, StepsAreAsked, RefusedStays, RecordDelete,
       Journaled, Saved, files, Fault, history, Login, Emptied
  <1> QED
    BY <1>1, <1>2, <1>3, <1>4, <1>5, <1>6, <1>7, <1>8, <1>9, <1>10, <1>11, <1>12, <1>13, <1>14,
       <1>15, <1>16 DEF AccountsInv

\* takes the session
LEMMA UnlinkSessionKept ==
  ASSUME AccountsInv, UnlinkSession
  PROVE  AccountsInv'
  <1>1. SessionsOK'
    BY DEF AccountsInv, SessionsOK, UnlinkSession, Fault, history
  <1>2. RemovalOK'
    BY DEF AccountsInv, RemovalOK, UnlinkSession, Fault, history
  <1>3. OneHolds'
    BY DEF AccountsInv, OneHolds, UnlinkSession, Fault, history, Login, RemovalOK
  <1>4. JournalIsHeld'
    BY DEF AccountsInv, JournalIsHeld, UnlinkSession, Fault, history, Login, Journaled,
       RemovalIsJournaled, SessionsOK, OpsOK
  <1>5. RemovalIsJournaled'
    BY DEF AccountsInv, RemovalIsJournaled, UnlinkSession, Fault, history, OneHolds, SessionsOK,
       RemovalOK
  <1>6. PublishedLast'
    BY DEF AccountsInv, PublishedLast, UnlinkSession, Fault, history, Login, RemovalIsJournaled,
       SessionsOK, OpsOK
  <1>7. ClientsHaveSessions'
    BY DEF AccountsInv, ClientsHaveSessions, UnlinkSession, Fault, history, Saved, OneHolds
  <1>8. AccountIsWhole'
    BY DEF AccountsInv, AccountIsWhole, UnlinkSession, Fault, history, NoOp, RemovalIsJournaled,
       SessionsOK
  <1>9. JournalIsApplicable'
    BY DEF AccountsInv, JournalIsApplicable, UnlinkSession, Fault, history, Journaled,
       Applicable, RemovalIsJournaled, SessionsOK
  <1>10. CancelledIsUnpublished'
    BY DEF AccountsInv, CancelledIsUnpublished, UnlinkSession, Fault, history,
       RemovalIsJournaled, SessionsOK, OpsOK
  <1>11. /\ FlowsOK' /\ OpsOK' /\ FilesOK' /\ EngineOK' /\ StepsAreAsked' /\ NamedOnce'
         /\ FilesAreThere' /\ RefusedStays' /\ PendingIsOwned'
    BY DEF AccountsInv, FlowsOK, OpsOK, FilesOK, EngineOK, StepsAreAsked, NamedOnce,
       FilesAreThere, RefusedStays, PendingIsOwned, UnlinkSession, Fault, history, Login, Live,
       Kept
  <1> QED
    BY <1>1, <1>2, <1>3, <1>4, <1>5, <1>6, <1>7, <1>8, <1>9, <1>10, <1>11 DEF AccountsInv

\* and the entry in the configuration with the end of the operation,
LEMMA CommitDeleteKept ==
  ASSUME AccountsInv, CommitDelete
  PROVE  AccountsInv'
  <1>1. OpsOK'
    BY DEF AccountsInv, OpsOK, CommitDelete, NoOp, Fault, history
  <1>2. RemovalOK'
    BY DEF AccountsInv, RemovalOK, CommitDelete, NoOp, Fault, history
  <1>3. FilesOK'
    BY DEF AccountsInv, FilesOK, CommitDelete, NoOp, Fault, history
  <1>4. OneHolds'
    BY DEF AccountsInv, OneHolds, CommitDelete, NoOp, Fault, history, Login
  <1>5. JournalIsHeld'
    BY AccountsAssumption DEF AccountsInv, JournalIsHeld, CommitDelete, NoOp, Fault, history,
       Login, Journaled, OneHolds, AccountsAssumption
  <1>6. RemovalIsJournaled'
    BY DEF AccountsInv, RemovalIsJournaled, CommitDelete, NoOp, Fault, history
  <1>7. NamedOnce'
    BY DEF AccountsInv, NamedOnce, CommitDelete, NoOp, Fault, history, OpsOK
  <1>8. PublishedLast'
    BY DEF AccountsInv, PublishedLast, CommitDelete, NoOp, Fault, history, Login,
       RemovalIsJournaled, OpsOK
  <1>9. AccountIsWhole'
    BY DEF AccountsInv, AccountIsWhole, CommitDelete, NoOp, Fault, history, RemovalIsJournaled,
       OpsOK
  <1>10. JournalIsApplicable'
    BY DEF AccountsInv, JournalIsApplicable, CommitDelete, NoOp, Fault, history, Journaled,
       Applicable, OpsOK
  <1>11. CancelledIsUnpublished'
    BY DEF AccountsInv, CancelledIsUnpublished, CommitDelete, NoOp, Fault, history,
       RemovalIsJournaled, OpsOK
  <1>12. PendingIsOwned'
    BY DEF AccountsInv, PendingIsOwned, CommitDelete, NoOp, Fault, history, Live, Kept, Login,
       RemovalIsJournaled, OpsOK
  <1>13. /\ FlowsOK' /\ SessionsOK' /\ EngineOK' /\ StepsAreAsked' /\ FilesAreThere'
         /\ RefusedStays' /\ ClientsHaveSessions'
    BY DEF AccountsInv, FlowsOK, SessionsOK, EngineOK, StepsAreAsked, FilesAreThere,
       RefusedStays, ClientsHaveSessions, CommitDelete, Fault, history, Login, Saved
  <1> QED
    BY <1>1, <1>2, <1>3, <1>4, <1>5, <1>6, <1>7, <1>8, <1>9, <1>10, <1>11, <1>12,
       <1>13 DEF AccountsInv

\* and starts the clients after what is left of the journal is applied,
LEMMA FinishRemoveKept ==
  ASSUME AccountsInv, FinishRemove
  PROVE  AccountsInv'
  <1>1. SessionsOK'
    BY Recovered DEF AccountsInv, SessionsOK, FinishRemove, NoRemoval, StartClients, files,
       history, BeforeStart, Emptied, NoOp
  <1>2. OpsOK'
    BY Recovered DEF AccountsInv, OpsOK, FinishRemove, NoRemoval, StartClients, files, history,
       BeforeStart, Emptied, NoOp
  <1>3. RemovalOK'
    BY Recovered DEF AccountsInv, RemovalOK, FinishRemove, NoRemoval, StartClients, files,
       history, BeforeStart, Emptied, NoOp
  <1>4. FilesOK'
    BY Recovered DEF AccountsInv, FilesOK, FinishRemove, NoRemoval, StartClients, files,
       history, BeforeStart, Emptied, NoOp
  <1>5. EngineOK'
    BY Recovered DEF AccountsInv, EngineOK, FinishRemove, NoRemoval, StartClients, files,
       history, BeforeStart, Emptied, NoOp
  <1>6. OneHolds'
    BY Recovered, AccountsAssumption DEF AccountsInv, OneHolds, FinishRemove, NoRemoval,
       StartClients, files, history, Login, BeforeStart, Emptied, NoOp, AccountsAssumption
  <1>7. JournalIsHeld'
    BY Recovered, AccountsAssumption DEF AccountsInv, JournalIsHeld, FinishRemove, NoRemoval,
       StartClients, files, history, Login, Journaled, BeforeStart, Emptied, NoOp, OneHolds,
       AccountsAssumption
  <1>8. RemovalIsJournaled'
    BY Recovered DEF AccountsInv, RemovalIsJournaled, FinishRemove, NoRemoval, StartClients,
       files, history, BeforeStart, Emptied, NoOp
  <1>9. NamedOnce'
    BY Recovered DEF AccountsInv, NamedOnce, FinishRemove, NoRemoval, StartClients, files,
       history, BeforeStart, Emptied, NoOp
  <1>10. PublishedLast'
    BY Recovered, AccountsAssumption DEF AccountsInv, PublishedLast, FinishRemove, NoRemoval,
       StartClients, files, history, Login, BeforeStart, Emptied, NoOp, FilesAreThere, FlowsOK,
       AccountsAssumption
  <1>11. FilesAreThere'
    BY Recovered DEF AccountsInv, FilesAreThere, FinishRemove, NoRemoval, StartClients, files,
       history, Login, BeforeStart, Emptied, NoOp, PublishedLast
  <1>12. ClientsHaveSessions'
    BY Recovered DEF AccountsInv, ClientsHaveSessions, FinishRemove, NoRemoval, StartClients,
       files, history, Saved, BeforeStart, Emptied, NoOp
  <1>13. AccountIsWhole'
    BY Recovered DEF AccountsInv, AccountIsWhole, FinishRemove, NoRemoval, StartClients, files,
       history, NoOp, BeforeStart, Emptied
  <1>14. JournalIsApplicable'
    BY Recovered DEF AccountsInv, JournalIsApplicable, FinishRemove, NoRemoval, StartClients,
       files, history, Journaled, Applicable, BeforeStart, Emptied, NoOp
  <1>15. CancelledIsUnpublished'
    BY Recovered, AccountsAssumption DEF AccountsInv, CancelledIsUnpublished, FinishRemove,
       NoRemoval, StartClients, files, history, BeforeStart, Emptied, NoOp, OneHolds,
       AccountIsWhole, PendingIsOwned, SessionsOK, FilesOK, AccountsAssumption
  <1>16. PendingIsOwned'
    BY Recovered DEF AccountsInv, PendingIsOwned, FinishRemove, NoRemoval, StartClients, files,
       history, Live, BeforeStart, Kept, Login, Emptied, NoOp
  <1>17. FlowsOK' /\ StepsAreAsked' /\ RefusedStays'
    BY Recovered DEF AccountsInv, FlowsOK, StepsAreAsked, RefusedStays, FinishRemove,
       StartClients, files, history, Login, BeforeStart, Emptied
  <1> QED
    BY <1>1, <1>2, <1>3, <1>4, <1>5, <1>6, <1>7, <1>8, <1>9, <1>10, <1>11, <1>12, <1>13, <1>14,
       <1>15, <1>16, <1>17 DEF AccountsInv

\* like any other start.
LEMMA StartEngineKept ==
  ASSUME AccountsInv, StartEngine
  PROVE  AccountsInv'
  <1>1. SessionsOK'
    BY Recovered DEF AccountsInv, SessionsOK, StartEngine, StartClients, history, BeforeStart,
       Emptied, NoOp
  <1>2. OpsOK'
    BY Recovered DEF AccountsInv, OpsOK, StartEngine, StartClients, history, BeforeStart,
       Emptied, NoOp
  <1>3. FilesOK'
    BY Recovered DEF AccountsInv, FilesOK, StartEngine, StartClients, history, BeforeStart,
       Emptied, NoOp
  <1>4. EngineOK'
    BY Recovered DEF AccountsInv, EngineOK, StartEngine, StartClients, history, BeforeStart,
       Emptied, NoOp
  <1>5. OneHolds'
    BY Recovered, AccountsAssumption DEF AccountsInv, OneHolds, StartEngine, StartClients,
       history, Login, BeforeStart, Emptied, NoOp, AccountsAssumption
  <1>6. JournalIsHeld'
    BY Recovered, AccountsAssumption DEF AccountsInv, JournalIsHeld, StartEngine, StartClients,
       history, Login, Journaled, BeforeStart, Emptied, NoOp, OneHolds, RemovalIsJournaled,
       OpsOK, AccountsAssumption
  <1>7. RemovalIsJournaled'
    BY Recovered, AccountsAssumption DEF AccountsInv, RemovalIsJournaled, StartEngine,
       StartClients, history, BeforeStart, Emptied, NoOp, OneHolds, AccountsAssumption
  <1>8. NamedOnce'
    BY Recovered DEF AccountsInv, NamedOnce, StartEngine, StartClients, history, BeforeStart,
       Emptied, NoOp
  <1>9. PublishedLast'
    BY Recovered DEF AccountsInv, PublishedLast, StartEngine, StartClients, history, Login,
       BeforeStart, Emptied, NoOp, OneHolds, JournalIsHeld, OpsOK, Journaled
  <1>10. FilesAreThere'
    BY Recovered DEF AccountsInv, FilesAreThere, StartEngine, StartClients, history, Login,
       BeforeStart, Emptied, NoOp, PublishedLast
  <1>11. ClientsHaveSessions'
    BY Recovered DEF AccountsInv, ClientsHaveSessions, StartEngine, StartClients, history,
       Saved, BeforeStart, Emptied, NoOp
  <1>12. AccountIsWhole'
    BY Recovered DEF AccountsInv, AccountIsWhole, StartEngine, StartClients, history, NoOp,
       BeforeStart, Emptied
  <1>13. JournalIsApplicable'
    BY Recovered DEF AccountsInv, JournalIsApplicable, StartEngine, StartClients, history,
       Journaled, Applicable, BeforeStart, Emptied, NoOp
  <1>14. CancelledIsUnpublished'
    BY Recovered DEF AccountsInv, CancelledIsUnpublished, StartEngine, StartClients, history,
       BeforeStart, Emptied, NoOp, OneHolds, RefusedStays, FilesOK
  <1>15. PendingIsOwned'
    BY Recovered DEF AccountsInv, PendingIsOwned, StartEngine, StartClients, history, Live,
       BeforeStart, Kept, Login, Emptied, NoOp
  <1>16. FlowsOK' /\ RemovalOK' /\ StepsAreAsked' /\ RefusedStays'
    BY Recovered DEF AccountsInv, FlowsOK, RemovalOK, StepsAreAsked, RefusedStays, StartEngine,
       StartClients, history, Login, BeforeStart, Emptied
  <1> QED
    BY <1>1, <1>2, <1>3, <1>4, <1>5, <1>6, <1>7, <1>8, <1>9, <1>10, <1>11, <1>12, <1>13, <1>14,
       <1>15, <1>16 DEF AccountsInv

\* A stop ends every client.
LEMMA StopEngineKept ==
  ASSUME AccountsInv, StopEngine
  PROVE  AccountsInv'
  <1>1. EngineOK'
    BY DEF AccountsInv, EngineOK, StopEngine, Stopped, files, history
  <1>2. OneHolds'
    BY DEF AccountsInv, OneHolds, StopEngine, Stopped, files, history, Login
  <1>3. ClientsHaveSessions'
    BY DEF AccountsInv, ClientsHaveSessions, StopEngine, Stopped, files, history, Saved
  <1>4. JournalIsApplicable'
    BY DEF AccountsInv, JournalIsApplicable, StopEngine, Stopped, files, history, Journaled,
       Applicable
  <1>5. /\ FlowsOK' /\ SessionsOK' /\ OpsOK' /\ RemovalOK' /\ FilesOK' /\ StepsAreAsked'
        /\ JournalIsHeld' /\ RemovalIsJournaled' /\ NamedOnce' /\ PublishedLast' /\ FilesAreThere'
        /\ RefusedStays' /\ AccountIsWhole' /\ CancelledIsUnpublished' /\ PendingIsOwned'
    BY DEF AccountsInv, FlowsOK, SessionsOK, OpsOK, RemovalOK, FilesOK, StepsAreAsked,
       JournalIsHeld, RemovalIsJournaled, NamedOnce, PublishedLast, FilesAreThere, RefusedStays,
       AccountIsWhole, CancelledIsUnpublished, PendingIsOwned, StopEngine, files, history,
       Login, Journaled, Live, Kept
  <1> QED
    BY <1>1, <1>2, <1>3, <1>4, <1>5 DEF AccountsInv

\* A crash leaves files and journal as they are;
LEMMA AccountsCrashKept ==
  ASSUME AccountsInv, AccountsCrash
  PROVE  AccountsInv'
  <1>1. FlowsOK'
    BY NoLoginOK DEF FlowsOK, AccountsCrash
  <1>2. RemovalOK'
    BY DEF AccountsInv, RemovalOK, AccountsCrash, NoRemoval, Unused, NoLogin, files, Login
  <1>3. FilesOK'
    BY DEF AccountsInv, FilesOK, AccountsCrash, NoRemoval, Unused, NoLogin, files, Login
  <1>4. EngineOK'
    BY DEF AccountsInv, EngineOK, AccountsCrash, NoRemoval, Unused, NoLogin, files, Login
  <1>5. StepsAreAsked'
    BY DEF AccountsInv, StepsAreAsked, AccountsCrash, NoRemoval, Unused, NoLogin, files, Login
  <1>6. OneHolds'
    BY AccountsAssumption DEF AccountsInv, OneHolds, AccountsCrash, NoRemoval, Unused, NoLogin,
       files, Login, AccountsAssumption
  <1>7. JournalIsHeld'
    BY DEF AccountsInv, JournalIsHeld, AccountsCrash, NoRemoval, Unused, NoLogin, files, Login,
       Journaled
  <1>8. RemovalIsJournaled'
    BY DEF AccountsInv, RemovalIsJournaled, AccountsCrash, NoRemoval, Unused, NoLogin, files,
       Login
  <1>9. PublishedLast'
    BY DEF AccountsInv, PublishedLast, AccountsCrash, NoRemoval, Unused, NoLogin, files, Login
  <1>10. FilesAreThere'
    BY DEF AccountsInv, FilesAreThere, AccountsCrash, NoRemoval, Unused, NoLogin, files, Login
  <1>11. RefusedStays'
    BY DEF AccountsInv, RefusedStays, AccountsCrash, NoRemoval, Unused, NoLogin, files, Login,
       FilesOK
  <1>12. ClientsHaveSessions'
    BY DEF AccountsInv, ClientsHaveSessions, AccountsCrash, NoRemoval, Unused, NoLogin, files,
       Saved, Login
  <1>13. JournalIsApplicable'
    BY DEF AccountsInv, JournalIsApplicable, AccountsCrash, NoRemoval, Unused, NoLogin, files,
       Journaled, Applicable, Login
  <1>14. PendingIsOwned'
    BY DEF AccountsInv, PendingIsOwned, AccountsCrash, NoRemoval, Unused, NoLogin, files, Live,
       Login, Kept
  <1>15. SessionsOK' /\ OpsOK' /\ NamedOnce' /\ AccountIsWhole' /\ CancelledIsUnpublished'
    BY DEF AccountsInv, SessionsOK, OpsOK, NamedOnce, AccountIsWhole, CancelledIsUnpublished,
       AccountsCrash, Unused, files, Login
  <1> QED
    BY <1>1, <1>2, <1>3, <1>4, <1>5, <1>6, <1>7, <1>8, <1>9, <1>10, <1>11, <1>12, <1>13, <1>14,
       <1>15 DEF AccountsInv

\* the next start applies the journal.
LEMMA AccountsBootKept ==
  ASSUME AccountsInv, AccountsBoot
  PROVE  AccountsInv'
  <1>1. SessionsOK'
    BY Recovered DEF AccountsInv, SessionsOK, AccountsBoot, history, Emptied, NoOp
  <1>2. OpsOK'
    BY Recovered DEF AccountsInv, OpsOK, AccountsBoot, history, Emptied, NoOp
  <1>3. FilesOK'
    BY Recovered DEF AccountsInv, FilesOK, AccountsBoot, history, Emptied, NoOp
  <1>4. EngineOK'
    BY Recovered DEF AccountsInv, EngineOK, AccountsBoot, history, Emptied, NoOp
  <1>5. OneHolds'
    BY Recovered DEF AccountsInv, OneHolds, AccountsBoot, history, Login, Emptied, NoOp
  <1>6. JournalIsHeld'
    BY Recovered, AccountsAssumption DEF AccountsInv, JournalIsHeld, AccountsBoot, history,
       Login, Journaled, Emptied, NoOp, OneHolds, PublishedLast, RemovalOK, AccountsAssumption
  <1>7. RemovalIsJournaled'
    BY Recovered, AccountsAssumption DEF AccountsInv, RemovalIsJournaled, AccountsBoot, history,
       Emptied, NoOp, OneHolds, AccountsAssumption
  <1>8. NamedOnce'
    BY Recovered DEF AccountsInv, NamedOnce, AccountsBoot, history, Emptied, NoOp
  <1>9. PublishedLast'
    BY Recovered DEF AccountsInv, PublishedLast, AccountsBoot, history, Login, Emptied, NoOp,
       OneHolds, JournalIsHeld, OpsOK, Journaled
  <1>10. FilesAreThere'
    BY Recovered DEF AccountsInv, FilesAreThere, AccountsBoot, history, Login, Emptied, NoOp,
       PublishedLast
  <1>11. ClientsHaveSessions'
    BY Recovered DEF AccountsInv, ClientsHaveSessions, AccountsBoot, history, Saved, Emptied,
       NoOp
  <1>12. AccountIsWhole'
    BY Recovered DEF AccountsInv, AccountIsWhole, AccountsBoot, history, NoOp, Emptied
  <1>13. JournalIsApplicable'
    BY Recovered DEF AccountsInv, JournalIsApplicable, AccountsBoot, history, Journaled,
       Applicable, Emptied, NoOp
  <1>14. CancelledIsUnpublished'
    <2>1. CancelledIsUnpublished /\ refusedLogins \subseteq Flows /\ refusedLogins' = refusedLogins
      BY DEF AccountsInv, FilesOK, AccountsBoot, history
    <2>2. \A x \in Ids : \/ session'[x] # NoFlow => session'[x] = session[x] \/ session'[x] = accountOps[x].from
                       \/ session'[x] = session[x]
      BY Recovered DEF AccountsBoot, Emptied
    <2>4. accountOps' = accountOps \/ accountOps' = [x \in Ids |-> NoOp]
      BY Recovered DEF Emptied, AccountsBoot
    <2>3. \A x \in Ids : accountOps'[x].from = NoFlow \/ accountOps'[x] = accountOps[x]
      BY <2>4 DEF NoOp
    <2> QED
      BY <2>1, <2>2, <2>3, AccountsAssumption DEF CancelledIsUnpublished, AccountsAssumption
  <1>15. PendingIsOwned'
    BY Recovered DEF AccountsInv, PendingIsOwned, AccountsBoot, history, Live, Emptied, Kept,
       Login, NoOp
  <1>16. FlowsOK' /\ RemovalOK' /\ StepsAreAsked' /\ RefusedStays'
    BY Recovered DEF AccountsInv, FlowsOK, RemovalOK, StepsAreAsked, RefusedStays, AccountsBoot,
       history, Login, Emptied
  <1> QED
    BY <1>1, <1>2, <1>3, <1>4, <1>5, <1>6, <1>7, <1>8, <1>9, <1>10, <1>11, <1>12, <1>13, <1>14,
       <1>15, <1>16 DEF AccountsInv

\* No login and an empty journal satisfy the invariant.
LEMMA InitAccountsInv == AccountsInit => AccountsInv
  <1> SUFFICES ASSUME AccountsInit PROVE AccountsInv
    OBVIOUS
  <1> USE DEF AccountsInit
  <1>1. FlowsOK
    BY NoLoginOK DEF FlowsOK
  <1>2. SessionsOK /\ OpsOK /\ RemovalOK /\ FilesOK /\ EngineOK /\ StepsAreAsked
    BY AccountsAssumption DEF SessionsOK, OpsOK, RemovalOK, FilesOK, EngineOK, StepsAreAsked,
       NoOp, NoRemoval, NoLogin, Login, AccountsAssumption
  <1>3. \A f \in Flows : Login(f) = "none"
    BY DEF Login, NoLogin
  <1>4. OneHolds /\ JournalIsHeld /\ RemovalIsJournaled /\ FilesAreThere
    BY <1>3, AccountsAssumption DEF OneHolds, JournalIsHeld, RemovalIsJournaled, FilesAreThere,
       NoRemoval, AccountsAssumption
  <1>5. NamedOnce /\ PublishedLast
    BY AccountsAssumption DEF NamedOnce, PublishedLast, NoOp, AccountsAssumption
  <1>6. RefusedStays /\ ClientsHaveSessions
    BY DEF RefusedStays, ClientsHaveSessions
  <1>7. AccountIsWhole /\ JournalIsApplicable /\ CancelledIsUnpublished /\ PendingIsOwned
    BY DEF AccountIsWhole, JournalIsApplicable, CancelledIsUnpublished, PendingIsOwned, NoOp,
       Journaled
  <1> QED
    BY <1>1, <1>2, <1>4, <1>5, <1>6, <1>7 DEF AccountsInv

\* The invariant is kept by every step of the accounts.
LEMMA AccountsInvKept == AccountsInv /\ [AccountsNext]_accountVars => AccountsInv'
  <1> SUFFICES ASSUME AccountsInv, [AccountsNext]_accountVars PROVE AccountsInv'
    OBVIOUS
  <1>1. CASE UNCHANGED accountVars
    BY <1>1 DEF accountVars, AccountsInv, FlowsOK, SessionsOK, OpsOK, RemovalOK, FilesOK,
       EngineOK, StepsAreAsked, OneHolds,
       JournalIsHeld, RemovalIsJournaled, NamedOnce, PublishedLast, FilesAreThere, RefusedStays, ClientsHaveSessions,
       AccountIsWhole, JournalIsApplicable, CancelledIsUnpublished, PendingIsOwned, Applicable, Login, Journaled, Saved, Live, Kept
  <1>2. CASE \E f \in Flows : \/ \E label \in Ids \cup {0} : BeginLogin(f, label)
                              \/ SubmitStep(f) \/ LoginEnds(f) \/ EnterPublication(f) \/ CancelLogin(f)
                              \/ ExpireLogin(f) \/ ForgetLogin(f)
    BY <1>2, BeginLoginKept, SubmitStepKept, LoginEndsKept, EnterPublicationKept, CancelLoginKept,
       ExpireLoginKept,
       ForgetLoginKept
  <1>3. CASE \E f \in Flows : BeginPublish(f) \/ RecordAdd(f) \/ LinkSession(f) \/ CommitAdd(f) \/ FinishPublish(f)
    BY <1>3, BeginPublishKept, RecordAddKept, LinkSessionKept, CommitAddKept, FinishPublishKept
  <1>4. CASE \/ \E x \in Ids : BeginRemove(x)
             \/ CreateSecret \/ RecordDelete \/ UnlinkSession \/ CommitDelete \/ FinishRemove
             \/ StartEngine \/ StopEngine \/ AccountsCrash \/ AccountsBoot
    BY <1>4, BeginRemoveKept, CreateSecretKept, RecordDeleteKept, UnlinkSessionKept,
       CommitDeleteKept, FinishRemoveKept,
       StartEngineKept, StopEngineKept, AccountsCrashKept, AccountsBootKept
  <1> QED
    BY <1>1, <1>2, <1>3, <1>4 DEF AccountsNext

\* Accounts are published and removed whole, once and on the word of their owner.
THEOREM AccountsStayWhole == AccountsSpec => []AccountsAreWhole
  <1>1. AccountsInv => AccountsAreWhole
    BY DEF AccountsInv, AccountsAreWhole
  <1> QED
    BY <1>1, InitAccountsInv, AccountsInvKept, PTL DEF AccountsSpec

-----------------------------------------------------------------------------
(* A chat that was left stays left (app/chat_leave_batch.go).              *)

\* Verdicts, listings and removals are of their kinds.
MemberOK == member \in [Accounts -> [Chats -> States]]
VerdictRows == [state : {"none", "ok", "dead", "moved"}, at : Nat]
AccessOK == access \in [Chats -> VerdictRows]
NewestOK == newest \in [Chats -> Nat]
ErasedRows == [left : Nat, dropped : Nat]
ErasedOK == erased \in [Chats -> ErasedRows]
TimesOK == clock \in Nat /\ dialogVersion \in Nat
ListingRows == [pc : {"off", "read"}, version : Nat, at : Nat, read : SUBSET Accounts,
                saw : [Accounts -> [Chats -> States \cup {"unknown"}]]]
ListingOK == listing \in [Roles -> ListingRows]
LeaveRows == [pc : {"off", "resolve", "next", "leave", "history", "answer", "forget", "clean"},
              account : Accounts \cup {"none"}, todo : SUBSET Chats, chat : Chats \cup {0},
              removed : SUBSET Chats, files : BOOLEAN, current : [Chats -> States \cup {"unknown"}],
              shared : BOOLEAN, at : Nat]
LeaveOK == leave \in [Leavers -> LeaveRows]

\* A removal is of an account, and what is asked of Telegram is of a chat.
LeaveIsNamed == \A x \in Leavers :
  /\ leave[x].pc # "off" => leave[x].account \in Accounts
  /\ leave[x].pc \in {"leave", "history", "answer"} => leave[x].chat \in Chats

\* No removal and no listing is of a later time than the latest listing's start.
NothingIsLater ==
  /\ \A c \in Chats : erased[c].left <= clock
  /\ \A x \in Leavers : leave[x].at <= clock

\* A listing whose version is still the current one began after every removal that has been confirmed.
CurrentIsLater == \A l \in Roles : listing[l].pc = "read" =>
  /\ listing[l].version <= dialogVersion
  /\ listing[l].version = dialogVersion =>
       /\ \A c \in Chats : erased[c].left < listing[l].at
       /\ \A x \in Leavers : leave[x].pc = "clean" => leave[x].at < listing[l].at

\* The stored verdict is of the listing noted for it, and without a verdict none is.
StoredIsNewest == \A c \in Chats : access[c].at = newest[c] /\ (access[c].state = "none" => access[c] = NoAccess)

\* What a removal has confirmed, or found absent, Telegram was without.
ConfirmedIsGone == \A x \in Leavers :
  /\ \A c \in leave[x].removed : <<leave[x].account, c>> \in gone
  /\ leave[x].pc = "answer" => <<leave[x].account, leave[x].chat>> \in gone
  /\ leave[x].pc \in {"next", "leave", "history", "answer"} =>
       \A c \in Chats : leave[x].current[c] = "absent" => <<leave[x].account, c>> \in gone

DialogsInv == /\ MemberOK /\ AccessOK /\ NewestOK /\ ErasedOK /\ TimesOK /\ ListingOK /\ LeaveOK /\ LeaveIsNamed
              /\ NothingIsLater /\ CurrentIsLater /\ StoredIsNewest /\ ConfirmedIsGone
              /\ LeftIsForgotten /\ LatestVerdictStays /\ FilesAreConfirmed

\* No listing, no removal, and what Telegram may show.
LEMMA NothingOK == NoListing \in ListingRows /\ NoLeave \in LeaveRows
  BY DEF NoListing, ListingRows, NoLeave, LeaveRows, States
LEMMA SeenOK == ASSUME MemberOK, NEW a \in Accounts PROVE Seen(a) \subseteq [Chats -> States \cup {"unknown"}]
  BY DEF Seen

\* One removal, or one listing, goes on.
LEMMA LeaveGoesOn ==
  ASSUME LeaveOK, NEW x \in Leavers, NEW row \in LeaveRows, leave' = [leave EXCEPT ![x] = row]
  PROVE  LeaveOK' /\ leave'[x] = row /\ \A y \in Leavers \ {x} : leave'[y] = leave[y]
  BY DEF LeaveOK
LEMMA ListingGoesOn ==
  ASSUME ListingOK, NEW l \in Roles, NEW row \in ListingRows, listing' = [listing EXCEPT ![l] = row]
  PROVE  ListingOK' /\ listing'[l] = row /\ \A k \in Roles \ {l} : listing'[k] = listing[k]
  BY DEF ListingOK

\* A chat whose listing counts has a verdict.
LEMMA ObservedOK ==
  ASSUME NEW saw, NEW c \in Observed(saw)
  PROVE  c \in Chats /\ MergedAccess(saw, c) \in {"ok", "dead", "moved"}
  BY DEF Observed, MergedAccess

\* What is dropped has no verdict and the time it was dropped at; the rest is as it was.
Dropped(cs, at) ==
  /\ access' \in [Chats -> VerdictRows] /\ newest' \in [Chats -> Nat] /\ erased' \in [Chats -> ErasedRows]
  /\ \A c \in Chats \cap cs : access'[c] = NoAccess /\ newest'[c] = 0 /\ erased'[c].left = at
  /\ \A c \in Chats \ cs : access'[c] = access[c] /\ newest'[c] = newest[c] /\ erased'[c] = erased[c]
LEMMA DropDrops ==
  ASSUME AccessOK, NewestOK, ErasedOK, NEW cs, NEW at \in Nat, Drop(cs, at)
  PROVE  Dropped(cs, at)
  <1>1. NoAccess \in VerdictRows
    BY DEF NoAccess, VerdictRows
  <1>2. \A c \in Chats : [erased[c] EXCEPT !.left = at] \in ErasedRows /\ [erased[c] EXCEPT !.left = at].left = at
    BY DEF ErasedOK, ErasedRows
  <1>3. access' \in [Chats -> VerdictRows]
    BY <1>1 DEF Drop, AccessOK
  <1>4. erased' \in [Chats -> ErasedRows]
    BY <1>2 DEF Drop, ErasedOK
  <1>5. newest' \in [Chats -> Nat]
    BY DEF Drop, NewestOK
  <1>6. \A c \in Chats \cap cs : access'[c] = NoAccess /\ newest'[c] = 0 /\ erased'[c].left = at
    BY <1>2 DEF Drop
  <1>7. \A c \in Chats \ cs : access'[c] = access[c] /\ newest'[c] = newest[c] /\ erased'[c] = erased[c]
    BY DEF Drop
  <1> QED
    BY <1>3, <1>4, <1>5, <1>6, <1>7 DEF Dropped

\* The single removal drops what it has removed, if anything, and the batch nothing yet.
LEMMA DropsRemoved ==
  ASSUME DialogsInv, NEW x \in Leavers, Invalidate(x)
  PROVE  \E cs \in SUBSET Chats : Dropped(cs, clock) /\ (leave[x].removed = {} => cs = {})
  <1> DEFINE cs == IF x = "one" /\ Sole /\ ~leave[x].shared THEN leave[x].removed ELSE {}
  <1>1. cs \in SUBSET Chats /\ (leave[x].removed = {} => cs = {})
    BY DEF DialogsInv, LeaveOK, LeaveRows
  <1>2. Drop(cs, clock) /\ clock \in Nat /\ AccessOK /\ NewestOK /\ ErasedOK
    BY DEF Invalidate, DialogsInv, TimesOK
  <1> HIDE DEF cs
  <1>3. Dropped(cs, clock)
    BY <1>2, DropDrops
  <1> QED
    BY <1>1, <1>3

\* What happens on Telegram changes nothing here.
LEMMA ChatChangesKept ==
  ASSUME DialogsInv, NEW a \in Accounts, NEW c \in Chats, NEW state \in {"ok", "dead", "moved"},
         ChatChanges(a, c, state)
  PROVE  DialogsInv'
  <1>1. MemberOK'
    <2>1. [member[a] EXCEPT ![c] = state] \in [Chats -> States]
      BY DEF DialogsInv, MemberOK, States
    <2> QED
      BY <2>1 DEF DialogsInv, MemberOK, ChatChanges
  <1>2. /\ AccessOK' /\ NewestOK' /\ ErasedOK' /\ TimesOK' /\ ListingOK' /\ LeaveOK'
        /\ LeaveIsNamed' /\ NothingIsLater' /\ CurrentIsLater' /\ StoredIsNewest'
        /\ ConfirmedIsGone' /\ LeftIsForgotten' /\ LatestVerdictStays' /\ FilesAreConfirmed'
    BY DEF DialogsInv, AccessOK, NewestOK, ErasedOK, TimesOK, ListingOK, LeaveOK, LeaveIsNamed,
       NothingIsLater, CurrentIsLater, StoredIsNewest, ConfirmedIsGone, LeftIsForgotten,
       LatestVerdictStays, FilesAreConfirmed, ChatChanges, Spend
  <1> QED
    BY <1>1, <1>2 DEF DialogsInv

\* A listing begins later than every removal that is confirmed,
LEMMA BeginListingKept ==
  ASSUME DialogsInv, NEW l \in Roles, BeginListing(l)
  PROVE  DialogsInv'
  <1>1. TimesOK'
    BY DEF DialogsInv, TimesOK, BeginListing, Spend, NoListing
  <1>2. ListingOK' /\ CurrentIsLater'
    <2> DEFINE row == [NoListing EXCEPT !.pc = "read", !.at = clock + 1, !.version = dialogVersion]
    <2>1. ListingOK /\ TimesOK /\ ErasedOK /\ LeaveOK
      BY DEF DialogsInv
    <2>8. NoListing \in ListingRows /\ clock + 1 \in Nat /\ dialogVersion \in Nat
      BY <2>1, NothingOK DEF TimesOK
    <2>2. row \in ListingRows /\ row.at = clock + 1 /\ row.version = dialogVersion
      BY <2>8 DEF ListingRows
    <2>3. listing' = [listing EXCEPT ![l] = row]
      BY DEF BeginListing
    <2> HIDE DEF row
    <2>4. ListingOK' /\ listing'[l] = row /\ \A k \in Roles \ {l} : listing'[k] = listing[k]
      BY <2>1, <2>2, <2>3, ListingGoesOn
    <2>5. /\ \A c \in Chats : erased[c].left \in Nat /\ erased[c].left <= clock
          /\ \A x \in Leavers : leave[x].at \in Nat /\ leave[x].at <= clock
      BY <2>1 DEF DialogsInv, NothingIsLater, ErasedOK, ErasedRows, LeaveOK, LeaveRows
    <2>6. erased' = erased /\ leave' = leave /\ dialogVersion' = dialogVersion /\ clock \in Nat
      BY <2>1 DEF BeginListing, TimesOK
    <2>7. CurrentIsLater'
      BY <2>1, <2>2, <2>4, <2>5, <2>6 DEF DialogsInv, CurrentIsLater, TimesOK
    <2> QED
      BY <2>4, <2>7
  <1>3. NothingIsLater'
    <2>1. /\ \A c \in Chats : erased[c].left \in Nat /\ erased[c].left <= clock
          /\ \A x \in Leavers : leave[x].at \in Nat /\ leave[x].at <= clock
      BY DEF DialogsInv, NothingIsLater, ErasedOK, ErasedRows, LeaveOK, LeaveRows
    <2>2. erased' = erased /\ leave' = leave /\ clock' = clock + 1 /\ clock \in Nat
      BY DEF BeginListing, DialogsInv, TimesOK
    <2> QED
      BY <2>1, <2>2 DEF NothingIsLater
  <1>4. /\ MemberOK' /\ AccessOK' /\ NewestOK' /\ ErasedOK' /\ LeaveOK' /\ LeaveIsNamed'
        /\ StoredIsNewest' /\ ConfirmedIsGone' /\ LeftIsForgotten' /\ LatestVerdictStays'
        /\ FilesAreConfirmed'
    BY DEF DialogsInv, MemberOK, AccessOK, NewestOK, ErasedOK, LeaveOK, LeaveIsNamed,
       StoredIsNewest, ConfirmedIsGone, LeftIsForgotten, LatestVerdictStays, FilesAreConfirmed,
       BeginListing, Spend
  <1> QED
    BY <1>1, <1>2, <1>3, <1>4 DEF DialogsInv

\* reads account after account,
LEMMA ReadAccountKept ==
  ASSUME DialogsInv, NEW l \in Roles, NEW a \in Accounts, ReadAccount(l, a)
  PROVE  DialogsInv'
  <1>1. ListingOK'
    <2>1. PICK seen \in [Chats -> States \cup {"unknown"}] : listing' = [listing EXCEPT ![l].read = @ \cup {a}, ![l].saw[a] = seen]
      BY SeenOK DEF ReadAccount, DialogsInv
    <2>2. listing[l] \in ListingRows
      BY DEF DialogsInv, ListingOK
    <2>3. [listing[l].saw EXCEPT ![a] = seen] \in [Accounts -> [Chats -> States \cup {"unknown"}]]
      BY <2>2 DEF ListingRows
    <2> DEFINE saw == [listing[l].saw EXCEPT ![a] = seen]
               row == [listing[l] EXCEPT !.read = @ \cup {a}, !.saw = saw]
    <2>4. listing' = [listing EXCEPT ![l] = row]
      BY <2>1
    <2>5. saw \in [Accounts -> [Chats -> States \cup {"unknown"}]]
      BY <2>3
    <2> HIDE DEF saw
    <2>6. row \in ListingRows
      BY <2>2, <2>5 DEF ListingRows
    <2> HIDE DEF row
    <2> QED
      BY <2>4, <2>6, ListingGoesOn DEF DialogsInv
  <1>2. CurrentIsLater'
    BY DEF DialogsInv, CurrentIsLater, ReadAccount, Seen, ListingOK
  <1>3. /\ MemberOK' /\ AccessOK' /\ NewestOK' /\ ErasedOK' /\ TimesOK' /\ LeaveOK'
        /\ LeaveIsNamed' /\ NothingIsLater' /\ StoredIsNewest' /\ ConfirmedIsGone'
        /\ LeftIsForgotten' /\ LatestVerdictStays' /\ FilesAreConfirmed'
    BY DEF DialogsInv, MemberOK, AccessOK, NewestOK, ErasedOK, TimesOK, LeaveOK, LeaveIsNamed,
       NothingIsLater, StoredIsNewest, ConfirmedIsGone, LeftIsForgotten, LatestVerdictStays,
       FilesAreConfirmed, ReadAccount, Seen
  <1> QED
    BY <1>1, <1>2, <1>3 DEF DialogsInv

\* is dropped,
LEMMA ListingFailsKept ==
  ASSUME DialogsInv, NEW l \in Roles, ListingFails(l)
  PROVE  DialogsInv'
  <1>1. ListingOK'
    <2> DEFINE row == NoListing
    <2>1. row \in ListingRows
      BY NothingOK
    <2>2. listing' = [listing EXCEPT ![l] = row]
      BY DEF ListingFails
    <2> HIDE DEF row
    <2> QED
      BY <2>1, <2>2, ListingGoesOn DEF DialogsInv
  <1>2. CurrentIsLater'
    BY DEF DialogsInv, CurrentIsLater, ListingFails, NoListing
  <1>3. /\ MemberOK' /\ AccessOK' /\ NewestOK' /\ ErasedOK' /\ TimesOK' /\ LeaveOK'
        /\ LeaveIsNamed' /\ NothingIsLater' /\ StoredIsNewest' /\ ConfirmedIsGone'
        /\ LeftIsForgotten' /\ LatestVerdictStays' /\ FilesAreConfirmed'
    BY DEF DialogsInv, MemberOK, AccessOK, NewestOK, ErasedOK, TimesOK, LeaveOK, LeaveIsNamed,
       NothingIsLater, StoredIsNewest, ConfirmedIsGone, LeftIsForgotten, LatestVerdictStays,
       FilesAreConfirmed, ListingFails
  <1> QED
    BY <1>1, <1>2, <1>3 DEF DialogsInv

\* or stores its verdicts, if no removal was confirmed meanwhile.
LEMMA SaveListingKept ==
  ASSUME DialogsInv, NEW l \in Roles, SaveListing(l)
  PROVE  DialogsInv'
  <1>1. AccessOK' /\ NewestOK' /\ StoredIsNewest' /\ LatestVerdictStays' /\ LeftIsForgotten'
    <2> DEFINE one == listing[l]
               kept == Observed(one.saw)
    <2>1. AccessOK /\ NewestOK /\ ErasedOK /\ one \in ListingRows /\ one.pc = "read"
      BY DEF DialogsInv, ListingOK, SaveListing
    <2>2. CASE one.version # dialogVersion
      BY <2>2 DEF DialogsInv, SaveListing, AccessOK, NewestOK, StoredIsNewest, LatestVerdictStays,
         LeftIsForgotten
    <2>3. CASE one.version = dialogVersion
      <3>1. /\ access' = [c \in Chats |-> IF c \in kept /\ NotOlder(access[c], one.at)
                                        THEN [state |-> MergedAccess(one.saw, c), at |-> one.at] ELSE access[c]]
            /\ newest' = [c \in Chats |-> IF c \in kept /\ newest[c] < one.at THEN one.at ELSE newest[c]]
            /\ erased' = erased
        BY <2>3 DEF SaveListing
      <3>2. \A c \in Chats : /\ access[c].at \in Nat /\ newest[c] \in Nat /\ erased[c].left \in Nat
                            /\ access[c].at = newest[c] /\ erased[c].left < one.at /\ one.at \in Nat
        BY <2>1, <2>3 DEF AccessOK, VerdictRows, NewestOK, ErasedOK, ErasedRows, ListingRows,
           DialogsInv, CurrentIsLater,
           StoredIsNewest
      <3>3. \A c \in kept : MergedAccess(one.saw, c) \in {"ok", "dead", "moved"}
        BY ObservedOK
      <3> DEFINE verdict(c) == [state |-> MergedAccess(one.saw, c), at |-> one.at]
      <3>4. \A c \in kept : verdict(c) \in VerdictRows /\ verdict(c).at = one.at /\ verdict(c).state # "none"
        BY <2>1, <3>3 DEF VerdictRows, ListingRows
      <3>5. \A c \in Chats : access'[c] = IF c \in kept /\ access[c].at <= one.at THEN verdict(c) ELSE access[c]
        BY <3>1 DEF NotOlder
      <3>6. \A c \in Chats : newest'[c] = IF c \in kept /\ newest[c] < one.at THEN one.at ELSE newest[c]
        BY <3>1
      <3>7. AccessOK' /\ NewestOK'
        BY <2>1, <3>1, <3>2, <3>4, <3>5 DEF AccessOK, NewestOK
      <3> HIDE DEF verdict, kept, one
      <3>8. \A c \in Chats : \/ access'[c] = access[c] /\ newest'[c] = newest[c]
                             \/ c \in kept /\ access'[c] = verdict(c) /\ newest'[c] = one.at
        BY <3>2, <3>5, <3>6
      <3>9. \A c \in Chats : \/ access'[c] = access[c] /\ newest'[c] = newest[c]
                             \/ access'[c].at = one.at /\ newest'[c] = one.at /\ access'[c].state # "none"
        BY <3>4, <3>8, Zenon
      <3>10. StoredIsNewest' /\ LatestVerdictStays'
        BY <3>9 DEF DialogsInv, StoredIsNewest, LatestVerdictStays
      <3>11. LeftIsForgotten'
        BY <3>1, <3>2, <3>9 DEF DialogsInv, LeftIsForgotten
      <3> QED
        BY <3>7, <3>10, <3>11
    <2> QED
      BY <2>2, <2>3
  <1>2. ListingOK'
    <2> DEFINE row == NoListing
    <2>1. row \in ListingRows
      BY NothingOK
    <2>2. listing' = [listing EXCEPT ![l] = row]
      BY DEF SaveListing
    <2> HIDE DEF row
    <2> QED
      BY <2>1, <2>2, ListingGoesOn DEF DialogsInv
  <1>3. CurrentIsLater'
    BY DEF DialogsInv, CurrentIsLater, SaveListing, Observed, NoListing, NotOlder, MergedAccess
  <1>4. /\ MemberOK' /\ ErasedOK' /\ TimesOK' /\ LeaveOK' /\ LeaveIsNamed' /\ NothingIsLater'
        /\ ConfirmedIsGone' /\ FilesAreConfirmed'
    BY DEF DialogsInv, MemberOK, ErasedOK, TimesOK, LeaveOK, LeaveIsNamed, NothingIsLater,
       ConfirmedIsGone, FilesAreConfirmed, SaveListing
  <1> QED
    BY <1>1, <1>2, <1>3, <1>4 DEF DialogsInv

\* A removal has confirmed nothing when it begins;
LEMMA BeginLeaveKept ==
  ASSUME DialogsInv, NEW x \in Leavers, NEW a \in Accounts, NEW chats \in SUBSET Chats,
         NEW delete \in BOOLEAN, BeginLeave(x, a, chats, delete)
  PROVE  DialogsInv'
  <1>1. LeaveOK' /\ LeaveIsNamed' /\ NothingIsLater' /\ ConfirmedIsGone'
    <2> DEFINE row == [NoLeave EXCEPT !.pc = "resolve", !.account = a, !.todo = chats, !.files = delete]
    <2>1. /\ leave[x] \in LeaveRows /\ clock \in Nat /\ LeaveOK /\ leave[x].at <= clock
          /\ ErasedOK /\ \A d \in Chats : erased[d].left <= clock
      BY DEF DialogsInv, LeaveOK, TimesOK, NothingIsLater
    <2>2. row \in LeaveRows /\ row.at \in {leave[x].at, 0, clock}
      BY <2>1, NothingOK DEF LeaveRows, NoLeave
    <2>3. /\ row.pc # "off" => row.account \in Accounts
          /\ row.pc \in {"leave", "history", "answer"} => row.chat \in Chats
      BY <2>1, NothingOK DEF NoLeave, LeaveRows
    <2>4. leave' = [leave EXCEPT ![x] = row]
      BY DEF BeginLeave
    <2>5. gone \subseteq gone'
      BY DEF BeginLeave
    <2>6. /\ \A d \in row.removed : <<row.account, d>> \in gone'
          /\ row.pc = "answer" => <<row.account, row.chat>> \in gone'
          /\ row.pc \in {"next", "leave", "history", "answer"} =>
               \A d \in Chats : row.current[d] = "absent" => <<row.account, d>> \in gone'
      BY <2>1, NothingOK DEF NoLeave, LeaveRows
    <2>7. clock' = clock /\ \A d \in Chats : erased'[d].left <= clock
      BY <2>1 DEF BeginLeave
    <2> HIDE DEF row
    <2>10. LeaveOK' /\ leave'[x] = row /\ \A y \in Leavers \ {x} : leave'[y] = leave[y]
      BY <2>1, <2>2, <2>4, LeaveGoesOn
    <2>11. LeaveIsNamed'
      BY <2>3, <2>10 DEF DialogsInv, LeaveIsNamed
    <2>12. NothingIsLater'
      BY <2>1, <2>2, <2>7, <2>10 DEF DialogsInv, NothingIsLater
    <2>13. ConfirmedIsGone'
      BY <2>5, <2>6, <2>10 DEF DialogsInv, ConfirmedIsGone
    <2> QED
      BY <2>10, <2>11, <2>12, <2>13
  <1>2. CurrentIsLater'
    BY DEF DialogsInv, CurrentIsLater, BeginLeave, Spend, NoLeave
  <1>3. /\ MemberOK' /\ AccessOK' /\ NewestOK' /\ ErasedOK' /\ TimesOK' /\ ListingOK'
        /\ StoredIsNewest' /\ LeftIsForgotten' /\ LatestVerdictStays' /\ FilesAreConfirmed'
    BY DEF DialogsInv, MemberOK, AccessOK, NewestOK, ErasedOK, TimesOK, ListingOK,
       StoredIsNewest, LeftIsForgotten, LatestVerdictStays, FilesAreConfirmed, BeginLeave, Spend
  <1> QED
    BY <1>1, <1>2, <1>3 DEF DialogsInv

\* what it finds absent, Telegram is without.
LEMMA ResolveDialogsKept ==
  ASSUME DialogsInv, NEW x \in Leavers, ResolveDialogs(x)
  PROVE  DialogsInv'
  <1>1. LeaveOK' /\ LeaveIsNamed' /\ NothingIsLater' /\ ConfirmedIsGone'
    <2>8. leave[x].account \in Accounts /\ leave[x].pc = "resolve"
      BY DEF ResolveDialogs, DialogsInv, LeaveIsNamed
    <2>9. PICK seen \in Seen(leave[x].account) :
            /\ leave' = [leave EXCEPT ![x].pc = "next", ![x].current = seen] /\ seen \in [Chats -> States \cup {"unknown"}]
      BY <2>8, SeenOK DEF ResolveDialogs, DialogsInv
    <2> DEFINE row == [leave[x] EXCEPT !.pc = "next", !.current = seen]
    <2>1. /\ leave[x] \in LeaveRows /\ clock \in Nat /\ LeaveOK /\ leave[x].at <= clock
          /\ ErasedOK /\ \A d \in Chats : erased[d].left <= clock
      BY DEF DialogsInv, LeaveOK, TimesOK, NothingIsLater
    <2>2. row \in LeaveRows /\ row.at \in {leave[x].at, 0, clock}
      BY <2>1, <2>9 DEF LeaveRows
    <2>3. /\ row.pc # "off" => row.account \in Accounts
          /\ row.pc \in {"leave", "history", "answer"} => row.chat \in Chats
      BY <2>1, <2>8, <2>9 DEF LeaveRows
    <2>4. leave' = [leave EXCEPT ![x] = row]
      BY <2>9 DEF ResolveDialogs
    <2>5. gone \subseteq gone'
      BY DEF ResolveDialogs
    <2>6. /\ \A d \in row.removed : <<row.account, d>> \in gone'
          /\ row.pc = "answer" => <<row.account, row.chat>> \in gone'
          /\ row.pc \in {"next", "leave", "history", "answer"} =>
               \A d \in Chats : row.current[d] = "absent" => <<row.account, d>> \in gone'
      BY <2>1, <2>8, <2>9 DEF LeaveRows, ResolveDialogs, DialogsInv, ConfirmedIsGone, Seen
    <2>7. clock' = clock /\ \A d \in Chats : erased'[d].left <= clock
      BY <2>1 DEF ResolveDialogs
    <2> HIDE DEF row
    <2>10. LeaveOK' /\ leave'[x] = row /\ \A y \in Leavers \ {x} : leave'[y] = leave[y]
      BY <2>1, <2>2, <2>4, LeaveGoesOn
    <2>11. LeaveIsNamed'
      BY <2>3, <2>10 DEF DialogsInv, LeaveIsNamed
    <2>12. NothingIsLater'
      BY <2>1, <2>2, <2>7, <2>10 DEF DialogsInv, NothingIsLater
    <2>13. ConfirmedIsGone'
      BY <2>5, <2>6, <2>10 DEF DialogsInv, ConfirmedIsGone
    <2> QED
      BY <2>10, <2>11, <2>12, <2>13
  <1>2. CurrentIsLater'
    BY DEF DialogsInv, CurrentIsLater, ResolveDialogs, Seen, LeaveOK
  <1>3. FilesAreConfirmed'
    BY DEF DialogsInv, FilesAreConfirmed, ResolveDialogs, Seen
  <1>4. /\ MemberOK' /\ AccessOK' /\ NewestOK' /\ ErasedOK' /\ TimesOK' /\ ListingOK'
        /\ StoredIsNewest' /\ LeftIsForgotten' /\ LatestVerdictStays'
    BY DEF DialogsInv, MemberOK, AccessOK, NewestOK, ErasedOK, TimesOK, ListingOK,
       StoredIsNewest, LeftIsForgotten, LatestVerdictStays, ResolveDialogs, Seen
  <1> QED
    BY <1>1, <1>2, <1>3, <1>4 DEF DialogsInv

\* What failed keeps what was confirmed.
LEMMA LeaveFailsKept ==
  ASSUME DialogsInv, NEW x \in Leavers, LeaveFails(x)
  PROVE  DialogsInv'
  <1>1. LeaveOK' /\ LeaveIsNamed' /\ NothingIsLater' /\ ConfirmedIsGone'
    <2> DEFINE row == IF x = "one" /\ leave[x].removed = {} THEN NoLeave ELSE [leave[x] EXCEPT !.pc = "forget", !.shared = TRUE]
    <2>1. /\ leave[x] \in LeaveRows /\ clock \in Nat /\ LeaveOK /\ leave[x].at <= clock
          /\ ErasedOK /\ \A d \in Chats : erased[d].left <= clock
      BY DEF DialogsInv, LeaveOK, TimesOK, NothingIsLater
    <2>2. row \in LeaveRows /\ row.at \in {leave[x].at, 0, clock}
      BY <2>1, NothingOK DEF LeaveRows, NoLeave
    <2>3. /\ row.pc # "off" => row.account \in Accounts
          /\ row.pc \in {"leave", "history", "answer"} => row.chat \in Chats
      BY <2>1, NothingOK DEF LeaveRows, NoLeave, DialogsInv, LeaveIsNamed, LeaveFails
    <2>4. leave' = [leave EXCEPT ![x] = row]
      BY DEF LeaveFails
    <2>5. gone \subseteq gone'
      BY DEF LeaveFails
    <2>6. /\ \A d \in row.removed : <<row.account, d>> \in gone'
          /\ row.pc = "answer" => <<row.account, row.chat>> \in gone'
          /\ row.pc \in {"next", "leave", "history", "answer"} =>
               \A d \in Chats : row.current[d] = "absent" => <<row.account, d>> \in gone'
      BY <2>1, NothingOK DEF LeaveRows, NoLeave, DialogsInv, ConfirmedIsGone, LeaveFails
    <2>7. clock' = clock /\ \A d \in Chats : erased'[d].left <= clock
      BY <2>1 DEF LeaveFails
    <2> HIDE DEF row
    <2>10. LeaveOK' /\ leave'[x] = row /\ \A y \in Leavers \ {x} : leave'[y] = leave[y]
      BY <2>1, <2>2, <2>4, LeaveGoesOn
    <2>11. LeaveIsNamed'
      BY <2>3, <2>10 DEF DialogsInv, LeaveIsNamed
    <2>12. NothingIsLater'
      BY <2>1, <2>2, <2>7, <2>10 DEF DialogsInv, NothingIsLater
    <2>13. ConfirmedIsGone'
      BY <2>5, <2>6, <2>10 DEF DialogsInv, ConfirmedIsGone
    <2> QED
      BY <2>10, <2>11, <2>12, <2>13
  <1>2. CurrentIsLater'
    BY DEF DialogsInv, CurrentIsLater, LeaveFails, NoLeave
  <1>3. /\ MemberOK' /\ AccessOK' /\ NewestOK' /\ ErasedOK' /\ TimesOK' /\ ListingOK'
        /\ StoredIsNewest' /\ LeftIsForgotten' /\ LatestVerdictStays' /\ FilesAreConfirmed'
    BY DEF DialogsInv, MemberOK, AccessOK, NewestOK, ErasedOK, TimesOK, ListingOK,
       StoredIsNewest, LeftIsForgotten, LatestVerdictStays, FilesAreConfirmed, LeaveFails
  <1> QED
    BY <1>1, <1>2, <1>3 DEF DialogsInv

\* A chat that was found absent counts as removed.
LEMMA NextChatKept ==
  ASSUME DialogsInv, NEW x \in Leavers, NEW c \in Chats, NextChat(x, c)
  PROVE  DialogsInv'
  <1>1. LeaveOK' /\ LeaveIsNamed' /\ NothingIsLater' /\ ConfirmedIsGone'
    <2> DEFINE absent == IF leave[x].current[c] = "absent" THEN {c} ELSE {}
               pc == IF Refused(x, c) \/ c \in absent THEN "next"
                       ELSE IF c \in BasicGroups /\ leave[x].current[c] # "ok" THEN "history" ELSE "leave"
    <2>9. /\ pc \in {"next", "history", "leave"} /\ absent \subseteq {c}
          /\ \A d \in absent : leave[x].current[d] = "absent"
          /\ leave' = [leave EXCEPT ![x] = [leave[x] EXCEPT !.todo = leave[x].todo \ {c}, !.chat = c, !.pc = pc,
                                                         !.removed = leave[x].removed \cup absent]]
      BY DEF NextChat
    <2> HIDE DEF absent, pc
    <2> DEFINE row == [leave[x] EXCEPT !.todo = leave[x].todo \ {c}, !.chat = c, !.pc = pc, !.removed = leave[x].removed \cup absent]
    <2>1. /\ leave[x] \in LeaveRows /\ clock \in Nat /\ LeaveOK /\ leave[x].at <= clock
          /\ ErasedOK /\ \A d \in Chats : erased[d].left <= clock
      BY DEF DialogsInv, LeaveOK, TimesOK, NothingIsLater
    <2>2. row \in LeaveRows /\ row.at \in {leave[x].at, 0, clock}
      BY <2>1, <2>9 DEF LeaveRows
    <2>3. /\ row.pc # "off" => row.account \in Accounts
          /\ row.pc \in {"leave", "history", "answer"} => row.chat \in Chats
      BY <2>1, <2>9 DEF LeaveRows, NextChat, DialogsInv, LeaveIsNamed
    <2>4. leave' = [leave EXCEPT ![x] = row]
      BY <2>9 DEF NextChat
    <2>5. gone \subseteq gone'
      BY DEF NextChat
    <2>6. /\ \A d \in row.removed : <<row.account, d>> \in gone'
          /\ row.pc = "answer" => <<row.account, row.chat>> \in gone'
          /\ row.pc \in {"next", "leave", "history", "answer"} =>
               \A d \in Chats : row.current[d] = "absent" => <<row.account, d>> \in gone'
      BY <2>1, <2>9 DEF LeaveRows, NextChat, DialogsInv, ConfirmedIsGone
    <2>7. clock' = clock /\ \A d \in Chats : erased'[d].left <= clock
      BY <2>1 DEF NextChat
    <2> HIDE DEF row
    <2>10. LeaveOK' /\ leave'[x] = row /\ \A y \in Leavers \ {x} : leave'[y] = leave[y]
      BY <2>1, <2>2, <2>4, LeaveGoesOn
    <2>11. LeaveIsNamed'
      BY <2>3, <2>10 DEF DialogsInv, LeaveIsNamed
    <2>12. NothingIsLater'
      BY <2>1, <2>2, <2>7, <2>10 DEF DialogsInv, NothingIsLater
    <2>13. ConfirmedIsGone'
      BY <2>5, <2>6, <2>10 DEF DialogsInv, ConfirmedIsGone
    <2> QED
      BY <2>10, <2>11, <2>12, <2>13
  <1>2. CurrentIsLater'
    BY DEF DialogsInv, CurrentIsLater, NextChat, Refused
  <1>3. /\ MemberOK' /\ AccessOK' /\ NewestOK' /\ ErasedOK' /\ TimesOK' /\ ListingOK'
        /\ StoredIsNewest' /\ LeftIsForgotten' /\ LatestVerdictStays' /\ FilesAreConfirmed'
    BY DEF DialogsInv, MemberOK, AccessOK, NewestOK, ErasedOK, TimesOK, ListingOK,
       StoredIsNewest, LeftIsForgotten, LatestVerdictStays, FilesAreConfirmed, NextChat, Refused
  <1> QED
    BY <1>1, <1>2, <1>3 DEF DialogsInv

\* Telegram is without the chat before it answers,
LEMMA TelegramRemovesKept ==
  ASSUME DialogsInv, NEW x \in Leavers, TelegramRemoves(x)
  PROVE  DialogsInv'
  <1>1. MemberOK'
    <2>1. leave[x].account \in Accounts /\ leave[x].chat \in Chats
      BY DEF DialogsInv, LeaveIsNamed, TelegramRemoves
    <2>2. PICK state \in {"absent", "dead"} :
            member' = [member EXCEPT ![leave[x].account] = [member[leave[x].account] EXCEPT ![leave[x].chat] = state]]
      BY DEF TelegramRemoves
    <2>3. [member[leave[x].account] EXCEPT ![leave[x].chat] = state] \in [Chats -> States]
      BY <2>1, <2>2 DEF DialogsInv, MemberOK, States
    <2> QED
      BY <2>1, <2>2, <2>3 DEF DialogsInv, MemberOK
  <1>2. LeaveOK' /\ LeaveIsNamed' /\ NothingIsLater' /\ ConfirmedIsGone'
    <2> DEFINE row == [leave[x] EXCEPT !.pc = IF leave[x].pc = "history" \/ leave[x].chat \notin BasicGroups THEN "answer" ELSE "history"]
    <2>1. /\ leave[x] \in LeaveRows /\ clock \in Nat /\ LeaveOK /\ leave[x].at <= clock
          /\ ErasedOK /\ \A d \in Chats : erased[d].left <= clock
      BY DEF DialogsInv, LeaveOK, TimesOK, NothingIsLater
    <2>2. row \in LeaveRows /\ row.at \in {leave[x].at, 0, clock}
      BY <2>1, SMT DEF LeaveRows
    <2>3. /\ row.pc # "off" => row.account \in Accounts
          /\ row.pc \in {"leave", "history", "answer"} => row.chat \in Chats
      BY <2>1, SMT DEF LeaveRows, NoLeave, DialogsInv, LeaveIsNamed, TelegramRemoves
    <2>4. leave' = [leave EXCEPT ![x] = row]
      BY DEF TelegramRemoves
    <2>5. gone \subseteq gone'
      BY DEF TelegramRemoves
    <2>6. /\ \A d \in row.removed : <<row.account, d>> \in gone'
          /\ row.pc = "answer" => <<row.account, row.chat>> \in gone'
          /\ row.pc \in {"next", "leave", "history", "answer"} =>
               \A d \in Chats : row.current[d] = "absent" => <<row.account, d>> \in gone'
      BY <2>1, SMT DEF LeaveRows, NoLeave, DialogsInv, ConfirmedIsGone, TelegramRemoves
    <2>7. clock' = clock /\ \A d \in Chats : erased'[d].left <= clock
      BY <2>1 DEF TelegramRemoves
    <2> HIDE DEF row
    <2>10. LeaveOK' /\ leave'[x] = row /\ \A y \in Leavers \ {x} : leave'[y] = leave[y]
      BY <2>1, <2>2, <2>4, LeaveGoesOn
    <2>11. LeaveIsNamed'
      BY <2>3, <2>10 DEF DialogsInv, LeaveIsNamed
    <2>12. NothingIsLater'
      BY <2>1, <2>2, <2>7, <2>10 DEF DialogsInv, NothingIsLater
    <2>13. ConfirmedIsGone'
      BY <2>5, <2>6, <2>10 DEF DialogsInv, ConfirmedIsGone
    <2> QED
      BY <2>10, <2>11, <2>12, <2>13
  <1>3. CurrentIsLater'
    BY DEF DialogsInv, CurrentIsLater, TelegramRemoves
  <1>4. FilesAreConfirmed'
    BY DEF DialogsInv, FilesAreConfirmed, TelegramRemoves
  <1>5. /\ AccessOK' /\ NewestOK' /\ ErasedOK' /\ TimesOK' /\ ListingOK' /\ StoredIsNewest'
        /\ LeftIsForgotten' /\ LatestVerdictStays'
    BY DEF DialogsInv, AccessOK, NewestOK, ErasedOK, TimesOK, ListingOK, StoredIsNewest,
       LeftIsForgotten, LatestVerdictStays, TelegramRemoves
  <1> QED
    BY <1>1, <1>2, <1>3, <1>4, <1>5 DEF DialogsInv

\* and the answer confirms it;
LEMMA ConfirmedKept ==
  ASSUME DialogsInv, NEW x \in Leavers, Confirmed(x)
  PROVE  DialogsInv'
  <1>1. LeaveOK' /\ LeaveIsNamed' /\ NothingIsLater' /\ ConfirmedIsGone'
    <2>9. /\ leave[x].chat \in Chats /\ leave[x].pc = "answer"
          /\ leave' = [leave EXCEPT ![x].pc = "next", ![x].removed = leave[x].removed \cup {leave[x].chat}]
      BY DEF Confirmed, DialogsInv, LeaveIsNamed
    <2> DEFINE row == [leave[x] EXCEPT !.pc = "next", !.removed = leave[x].removed \cup {leave[x].chat}]
    <2>1. /\ leave[x] \in LeaveRows /\ clock \in Nat /\ LeaveOK /\ leave[x].at <= clock
          /\ ErasedOK /\ \A d \in Chats : erased[d].left <= clock
      BY DEF DialogsInv, LeaveOK, TimesOK, NothingIsLater
    <2>2. row \in LeaveRows /\ row.at \in {leave[x].at, 0, clock}
      BY <2>1, <2>9 DEF LeaveRows
    <2>3. /\ row.pc # "off" => row.account \in Accounts
          /\ row.pc \in {"leave", "history", "answer"} => row.chat \in Chats
      BY <2>1, <2>9 DEF LeaveRows, NoLeave, DialogsInv, LeaveIsNamed, Confirmed
    <2>4. leave' = [leave EXCEPT ![x] = row]
      BY <2>9 DEF Confirmed
    <2>5. gone \subseteq gone'
      BY DEF Confirmed
    <2>6. /\ \A d \in row.removed : <<row.account, d>> \in gone'
          /\ row.pc = "answer" => <<row.account, row.chat>> \in gone'
          /\ row.pc \in {"next", "leave", "history", "answer"} =>
               \A d \in Chats : row.current[d] = "absent" => <<row.account, d>> \in gone'
      BY <2>1, <2>9 DEF LeaveRows, NoLeave, DialogsInv, ConfirmedIsGone, Confirmed
    <2>7. clock' = clock /\ \A d \in Chats : erased'[d].left <= clock
      BY <2>1 DEF Confirmed
    <2> HIDE DEF row
    <2>10. LeaveOK' /\ leave'[x] = row /\ \A y \in Leavers \ {x} : leave'[y] = leave[y]
      BY <2>1, <2>2, <2>4, LeaveGoesOn
    <2>11. LeaveIsNamed'
      BY <2>3, <2>10 DEF DialogsInv, LeaveIsNamed
    <2>12. NothingIsLater'
      BY <2>1, <2>2, <2>7, <2>10 DEF DialogsInv, NothingIsLater
    <2>13. ConfirmedIsGone'
      BY <2>5, <2>6, <2>10 DEF DialogsInv, ConfirmedIsGone
    <2> QED
      BY <2>10, <2>11, <2>12, <2>13
  <1>2. CurrentIsLater'
    BY DEF DialogsInv, CurrentIsLater, Confirmed, LeaveOK
  <1>3. /\ MemberOK' /\ AccessOK' /\ NewestOK' /\ ErasedOK' /\ TimesOK' /\ ListingOK'
        /\ StoredIsNewest' /\ LeftIsForgotten' /\ LatestVerdictStays' /\ FilesAreConfirmed'
    BY DEF DialogsInv, MemberOK, AccessOK, NewestOK, ErasedOK, TimesOK, ListingOK,
       StoredIsNewest, LeftIsForgotten, LatestVerdictStays, FilesAreConfirmed, Confirmed
  <1> QED
    BY <1>1, <1>2, <1>3 DEF DialogsInv

\* without an answer nothing is confirmed.
LEMMA RemovalFailsKept ==
  ASSUME DialogsInv, NEW x \in Leavers, NEW flood \in BOOLEAN, RemovalFails(x, flood)
  PROVE  DialogsInv'
  <1>1. LeaveOK' /\ LeaveIsNamed' /\ NothingIsLater' /\ ConfirmedIsGone'
    <2> DEFINE rest == IF flood THEN {} ELSE leave[x].todo
    <2>9. /\ rest \subseteq leave[x].todo
          /\ leave' = [leave EXCEPT ![x].pc = "next", ![x].removed = leave[x].removed, ![x].todo = rest]
      BY DEF RemovalFails, RemovedAfterError
    <2> HIDE DEF rest
    <2> DEFINE row == [leave[x] EXCEPT !.pc = "next", !.removed = leave[x].removed, !.todo = rest]
    <2>1. /\ leave[x] \in LeaveRows /\ clock \in Nat /\ LeaveOK /\ leave[x].at <= clock
          /\ ErasedOK /\ \A d \in Chats : erased[d].left <= clock
      BY DEF DialogsInv, LeaveOK, TimesOK, NothingIsLater
    <2>2. row \in LeaveRows /\ row.at \in {leave[x].at, 0, clock}
      BY <2>1, <2>9 DEF LeaveRows
    <2>3. /\ row.pc # "off" => row.account \in Accounts
          /\ row.pc \in {"leave", "history", "answer"} => row.chat \in Chats
      BY <2>1, <2>9 DEF LeaveRows, NoLeave, DialogsInv, LeaveIsNamed, RemovalFails
    <2>4. leave' = [leave EXCEPT ![x] = row]
      BY <2>9 DEF RemovalFails
    <2>5. gone \subseteq gone'
      BY DEF RemovalFails
    <2>6. /\ \A d \in row.removed : <<row.account, d>> \in gone'
          /\ row.pc = "answer" => <<row.account, row.chat>> \in gone'
          /\ row.pc \in {"next", "leave", "history", "answer"} =>
               \A d \in Chats : row.current[d] = "absent" => <<row.account, d>> \in gone'
      BY <2>1, <2>9 DEF LeaveRows, NoLeave, DialogsInv, ConfirmedIsGone, RemovalFails
    <2>7. clock' = clock /\ \A d \in Chats : erased'[d].left <= clock
      BY <2>1 DEF RemovalFails
    <2> HIDE DEF row
    <2>10. LeaveOK' /\ leave'[x] = row /\ \A y \in Leavers \ {x} : leave'[y] = leave[y]
      BY <2>1, <2>2, <2>4, LeaveGoesOn
    <2>11. LeaveIsNamed'
      BY <2>3, <2>10 DEF DialogsInv, LeaveIsNamed
    <2>12. NothingIsLater'
      BY <2>1, <2>2, <2>7, <2>10 DEF DialogsInv, NothingIsLater
    <2>13. ConfirmedIsGone'
      BY <2>5, <2>6, <2>10 DEF DialogsInv, ConfirmedIsGone
    <2> QED
      BY <2>10, <2>11, <2>12, <2>13
  <1>2. CurrentIsLater'
    BY DEF DialogsInv, CurrentIsLater, RemovalFails, Spend, RemovedAfterError, LeaveOK
  <1>3. /\ MemberOK' /\ AccessOK' /\ NewestOK' /\ ErasedOK' /\ TimesOK' /\ ListingOK'
        /\ StoredIsNewest' /\ LeftIsForgotten' /\ LatestVerdictStays' /\ FilesAreConfirmed'
    BY DEF DialogsInv, MemberOK, AccessOK, NewestOK, ErasedOK, TimesOK, ListingOK,
       StoredIsNewest, LeftIsForgotten, LatestVerdictStays, FilesAreConfirmed, RemovalFails,
       Spend, RemovedAfterError
  <1> QED
    BY <1>1, <1>2, <1>3 DEF DialogsInv

\* The listings in flight are outdated at the time the removal notes,
LEMMA InvalidateKept ==
  ASSUME DialogsInv, NEW x \in Leavers, Invalidate(x)
  PROVE  DialogsInv'
  <1>1. /\ AccessOK' /\ NewestOK' /\ ErasedOK' /\ StoredIsNewest' /\ LeftIsForgotten'
        /\ LatestVerdictStays'
    <2>1. AccessOK /\ NewestOK /\ ErasedOK /\ clock \in Nat /\ leave[x].at \in Nat
      BY DEF DialogsInv, TimesOK, LeaveOK, LeaveRows
    <2>2. \E cs \in SUBSET Chats : Dropped(cs, clock) /\ (leave[x].removed = {} => cs = {})
      BY DropsRemoved
    <2>3. AccessOK' /\ NewestOK' /\ ErasedOK'
      BY <2>1, <2>2 DEF Dropped, AccessOK, NewestOK, ErasedOK
    <2>4. \A d \in Chats : \/ access'[d] = access[d] /\ newest'[d] = newest[d] /\ erased'[d] = erased[d]
                           \/ access'[d] = NoAccess /\ newest'[d] = 0
      BY <2>2 DEF Dropped
    <2> QED
      BY <2>3, <2>4 DEF DialogsInv, StoredIsNewest, LeftIsForgotten, LatestVerdictStays, NoAccess
  <1>2. TimesOK'
    BY DropDrops DEF DialogsInv, TimesOK, Invalidate, Sole, NextVersion, NoLeave, Dropped,
       VerdictRows, ErasedRows, NoAccess
  <1>3. LeaveOK' /\ LeaveIsNamed' /\ NothingIsLater' /\ ConfirmedIsGone'
    <2> DEFINE row == IF x = "one" \/ leave[x].removed = {} THEN NoLeave
                    ELSE [leave[x] EXCEPT !.pc = "clean", !.at = clock, !.shared = leave[x].shared \/ ~Sole]
    <2>1. /\ leave[x] \in LeaveRows /\ clock \in Nat /\ LeaveOK /\ leave[x].at <= clock
          /\ ErasedOK /\ \A d \in Chats : erased[d].left <= clock
      BY DEF DialogsInv, LeaveOK, TimesOK, NothingIsLater
    <2>2. row \in LeaveRows /\ row.at \in {leave[x].at, 0, clock}
      BY <2>1, NothingOK DEF LeaveRows, NoLeave
    <2>3. /\ row.pc # "off" => row.account \in Accounts
          /\ row.pc \in {"leave", "history", "answer"} => row.chat \in Chats
      BY <2>1, NothingOK DEF LeaveRows, NoLeave, DialogsInv, LeaveIsNamed, Invalidate
    <2>4. leave' = [leave EXCEPT ![x] = row]
      BY DEF Invalidate
    <2>5. gone \subseteq gone'
      BY DEF Invalidate
    <2>6. /\ \A d \in row.removed : <<row.account, d>> \in gone'
          /\ row.pc = "answer" => <<row.account, row.chat>> \in gone'
          /\ row.pc \in {"next", "leave", "history", "answer"} =>
               \A d \in Chats : row.current[d] = "absent" => <<row.account, d>> \in gone'
      BY <2>1, NothingOK DEF LeaveRows, NoLeave, DialogsInv, ConfirmedIsGone, Invalidate
    <2>7. clock' = clock /\ \A d \in Chats : erased'[d].left <= clock
      <3>1. PICK cs \in SUBSET Chats : Dropped(cs, clock)
        BY DropsRemoved
      <3> QED
        BY <2>1, <3>1 DEF Invalidate, Dropped
    <2> HIDE DEF row
    <2>10. LeaveOK' /\ leave'[x] = row /\ \A y \in Leavers \ {x} : leave'[y] = leave[y]
      BY <2>1, <2>2, <2>4, LeaveGoesOn
    <2>11. LeaveIsNamed'
      BY <2>3, <2>10 DEF DialogsInv, LeaveIsNamed
    <2>12. NothingIsLater'
      BY <2>1, <2>2, <2>7, <2>10 DEF DialogsInv, NothingIsLater
    <2>13. ConfirmedIsGone'
      BY <2>5, <2>6, <2>10 DEF DialogsInv, ConfirmedIsGone
    <2> QED
      BY <2>10, <2>11, <2>12, <2>13
  <1>4. CurrentIsLater'
    <2>1. PICK cs \in SUBSET Chats : Dropped(cs, clock) /\ (leave[x].removed = {} => cs = {})
      BY DropsRemoved
    <2>2. /\ listing' = listing /\ dialogVersion \in Nat /\ clock \in Nat
          /\ \A l \in Roles : listing[l].version \in Nat /\ listing[l].at \in Nat
      BY DEF Invalidate, DialogsInv, TimesOK, ListingOK, ListingRows
    <2>3. CASE dialogVersion' = dialogVersion + 1
      BY <2>2, <2>3 DEF DialogsInv, CurrentIsLater
    <2>4. CASE dialogVersion' = dialogVersion /\ x = "one" /\ leave[x].removed = {}
      <3>1. \A c \in Chats : erased'[c] = erased[c]
        BY <2>1, <2>4 DEF Dropped
      <3>2. leave'[x] = NoLeave /\ \A y \in Leavers \ {x} : leave'[y] = leave[y]
        BY <2>4 DEF Invalidate, DialogsInv, LeaveOK
      <3> QED
        BY <2>2, <2>4, <3>1, <3>2 DEF DialogsInv, CurrentIsLater, NoLeave
    <2> QED
      BY <2>3, <2>4 DEF Invalidate, NextVersion
  <1>5. MemberOK' /\ ListingOK' /\ FilesAreConfirmed'
    BY DropDrops DEF DialogsInv, MemberOK, ListingOK, FilesAreConfirmed, Invalidate,
       NextVersion, Dropped
  <1> QED
    BY <1>1, <1>2, <1>3, <1>4, <1>5 DEF DialogsInv

\* and what is kept of the chat is dropped as of that time.
LEMMA CleanChatKept ==
  ASSUME DialogsInv, NEW x \in Leavers, NEW c \in Chats, CleanChat(x, c)
  PROVE  DialogsInv'
  <1>1. /\ AccessOK' /\ NewestOK' /\ ErasedOK' /\ StoredIsNewest' /\ LeftIsForgotten'
        /\ LatestVerdictStays'
    <2>1. AccessOK /\ NewestOK /\ ErasedOK /\ clock \in Nat /\ leave[x].at \in Nat
      BY DEF DialogsInv, TimesOK, LeaveOK, LeaveRows
    <2>2. Dropped({c}, leave[x].at) \/ (access' = access /\ newest' = newest /\ erased' = erased)
      BY <2>1, DropDrops DEF CleanChat
    <2>3. AccessOK' /\ NewestOK' /\ ErasedOK'
      BY <2>1, <2>2 DEF Dropped, AccessOK, NewestOK, ErasedOK
    <2>4. \A d \in Chats : \/ access'[d] = access[d] /\ newest'[d] = newest[d] /\ erased'[d] = erased[d]
                           \/ access'[d] = NoAccess /\ newest'[d] = 0
      BY <2>2 DEF Dropped
    <2> QED
      BY <2>3, <2>4 DEF DialogsInv, StoredIsNewest, LeftIsForgotten, LatestVerdictStays, NoAccess
  <1>2. LeaveOK' /\ LeaveIsNamed' /\ NothingIsLater' /\ ConfirmedIsGone'
    <2> DEFINE row == DealtWith(x, c)
    <2>1. /\ leave[x] \in LeaveRows /\ clock \in Nat /\ LeaveOK /\ leave[x].at <= clock
          /\ ErasedOK /\ \A d \in Chats : erased[d].left <= clock
      BY DEF DialogsInv, LeaveOK, TimesOK, NothingIsLater
    <2>2. row \in LeaveRows /\ row.at \in {leave[x].at, 0, clock}
      BY <2>1, NothingOK DEF LeaveRows, NoLeave, DealtWith
    <2>3. /\ row.pc # "off" => row.account \in Accounts
          /\ row.pc \in {"leave", "history", "answer"} => row.chat \in Chats
      BY <2>1, NothingOK DEF LeaveRows, NoLeave, DealtWith, CleanChat, DialogsInv, LeaveIsNamed
    <2>4. leave' = [leave EXCEPT ![x] = row]
      BY DEF CleanChat
    <2>5. gone \subseteq gone'
      BY DEF CleanChat
    <2>6. /\ \A d \in row.removed : <<row.account, d>> \in gone'
          /\ row.pc = "answer" => <<row.account, row.chat>> \in gone'
          /\ row.pc \in {"next", "leave", "history", "answer"} =>
               \A d \in Chats : row.current[d] = "absent" => <<row.account, d>> \in gone'
      BY <2>1, NothingOK DEF LeaveRows, NoLeave, DealtWith, CleanChat, DialogsInv, ConfirmedIsGone
    <2>7. clock' = clock /\ \A d \in Chats : erased'[d].left <= clock
      <3>1. Dropped({c}, leave[x].at) \/ erased' = erased
        BY <2>1, DropDrops DEF CleanChat, DialogsInv, LeaveRows
      <3>2. \A d \in Chats : erased'[d].left = erased[d].left \/ erased'[d].left = leave[x].at
        BY <3>1 DEF Dropped
      <3> QED
        BY <2>1, <3>2 DEF CleanChat
    <2> HIDE DEF row
    <2>10. LeaveOK' /\ leave'[x] = row /\ \A y \in Leavers \ {x} : leave'[y] = leave[y]
      BY <2>1, <2>2, <2>4, LeaveGoesOn
    <2>11. LeaveIsNamed'
      BY <2>3, <2>10 DEF DialogsInv, LeaveIsNamed
    <2>12. NothingIsLater'
      BY <2>1, <2>2, <2>7, <2>10 DEF DialogsInv, NothingIsLater
    <2>13. ConfirmedIsGone'
      BY <2>5, <2>6, <2>10 DEF DialogsInv, ConfirmedIsGone
    <2> QED
      BY <2>10, <2>11, <2>12, <2>13
  <1>3. CurrentIsLater'
    <2>1. /\ ErasedOK /\ leave[x].pc = "clean" /\ leave[x].at \in Nat /\ leave[x] \in LeaveRows
          /\ listing' = listing /\ dialogVersion' = dialogVersion
      BY DEF CleanChat, DialogsInv, LeaveOK, LeaveRows
    <2>2. Dropped({c}, leave[x].at) \/ erased' = erased
      BY <2>1, DropDrops DEF CleanChat, DialogsInv
    <2>3. \A d \in Chats : erased'[d].left = erased[d].left \/ erased'[d].left = leave[x].at
      BY <2>2 DEF Dropped
    <2>4. DealtWith(x, c).at = leave[x].at \/ DealtWith(x, c).pc = "off"
      BY <2>1 DEF DealtWith, NoLeave, LeaveRows
    <2>5. leave'[x] = DealtWith(x, c) /\ \A y \in Leavers \ {x} : leave'[y] = leave[y]
      BY DEF CleanChat, DialogsInv, LeaveOK
    <2> QED
      BY <2>1, <2>3, <2>4, <2>5 DEF DialogsInv, CurrentIsLater
  <1>4. FilesAreConfirmed'
    <2>1. <<leave[x].account, c>> \in gone
      BY DEF DialogsInv, ConfirmedIsGone, CleanChat
    <2>2. wiped' \subseteq wiped \cup {<<leave[x].account, c>>} /\ gone' = gone
      BY DEF CleanChat
    <2> QED
      BY <2>1, <2>2 DEF DialogsInv, FilesAreConfirmed
  <1>5. MemberOK' /\ TimesOK' /\ ListingOK'
    BY DropDrops DEF DialogsInv, MemberOK, TimesOK, ListingOK, CleanChat, DealtWith, Dropped
  <1> QED
    BY <1>1, <1>2, <1>3, <1>4, <1>5 DEF DialogsInv

\* A failed purge keeps it.
LEMMA CleanFailsKept ==
  ASSUME DialogsInv, NEW x \in Leavers, NEW c \in Chats, CleanFails(x, c)
  PROVE  DialogsInv'
  <1>1. LeaveOK' /\ LeaveIsNamed' /\ NothingIsLater' /\ ConfirmedIsGone'
    <2> DEFINE row == DealtWith(x, c)
    <2>1. /\ leave[x] \in LeaveRows /\ clock \in Nat /\ LeaveOK /\ leave[x].at <= clock
          /\ ErasedOK /\ \A d \in Chats : erased[d].left <= clock
      BY DEF DialogsInv, LeaveOK, TimesOK, NothingIsLater
    <2>2. row \in LeaveRows /\ row.at \in {leave[x].at, 0, clock}
      BY <2>1, NothingOK DEF LeaveRows, NoLeave, DealtWith
    <2>3. /\ row.pc # "off" => row.account \in Accounts
          /\ row.pc \in {"leave", "history", "answer"} => row.chat \in Chats
      BY <2>1, NothingOK DEF LeaveRows, NoLeave, DealtWith, CleanFails, DialogsInv, LeaveIsNamed
    <2>4. leave' = [leave EXCEPT ![x] = row]
      BY DEF CleanFails
    <2>5. gone \subseteq gone'
      BY DEF CleanFails
    <2>6. /\ \A d \in row.removed : <<row.account, d>> \in gone'
          /\ row.pc = "answer" => <<row.account, row.chat>> \in gone'
          /\ row.pc \in {"next", "leave", "history", "answer"} =>
               \A d \in Chats : row.current[d] = "absent" => <<row.account, d>> \in gone'
      BY <2>1, NothingOK DEF LeaveRows, NoLeave, DealtWith, CleanFails, DialogsInv, ConfirmedIsGone
    <2>7. clock' = clock /\ \A d \in Chats : erased'[d].left <= clock
      BY <2>1 DEF CleanFails
    <2> HIDE DEF row
    <2>10. LeaveOK' /\ leave'[x] = row /\ \A y \in Leavers \ {x} : leave'[y] = leave[y]
      BY <2>1, <2>2, <2>4, LeaveGoesOn
    <2>11. LeaveIsNamed'
      BY <2>3, <2>10 DEF DialogsInv, LeaveIsNamed
    <2>12. NothingIsLater'
      BY <2>1, <2>2, <2>7, <2>10 DEF DialogsInv, NothingIsLater
    <2>13. ConfirmedIsGone'
      BY <2>5, <2>6, <2>10 DEF DialogsInv, ConfirmedIsGone
    <2> QED
      BY <2>10, <2>11, <2>12, <2>13
  <1>2. CurrentIsLater'
    BY DEF DialogsInv, CurrentIsLater, CleanFails, Spend, DealtWith, NoLeave
  <1>3. /\ MemberOK' /\ AccessOK' /\ NewestOK' /\ ErasedOK' /\ TimesOK' /\ ListingOK'
        /\ StoredIsNewest' /\ LeftIsForgotten' /\ LatestVerdictStays' /\ FilesAreConfirmed'
    BY DEF DialogsInv, MemberOK, AccessOK, NewestOK, ErasedOK, TimesOK, ListingOK,
       StoredIsNewest, LeftIsForgotten, LatestVerdictStays, FilesAreConfirmed, CleanFails,
       Spend, DealtWith
  <1> QED
    BY <1>1, <1>2, <1>3 DEF DialogsInv

\* A restart forgets listings and removals together.
LEMMA DialogsRestartKept ==
  ASSUME DialogsInv, DialogsRestart
  PROVE  DialogsInv'
  <1>1. TimesOK'
    BY DEF DialogsInv, TimesOK, DialogsRestart, Spend, NoListing, NoLeave
  <1>2. LeaveOK' /\ LeaveIsNamed' /\ ListingOK' /\ NothingIsLater'
    <2>1. leave' \in [Leavers -> LeaveRows] /\ listing' \in [Roles -> ListingRows]
      BY NothingOK DEF DialogsRestart
    <2>2. \A x \in Leavers : leave'[x].pc = "off" /\ leave'[x].at = 0
      BY DEF DialogsRestart, NoLeave
    <2> QED
      BY <2>1, <2>2 DEF DialogsInv, LeaveOK, LeaveIsNamed, ListingOK, NothingIsLater, TimesOK,
         DialogsRestart
  <1>3. CurrentIsLater'
    BY DEF DialogsInv, CurrentIsLater, DialogsRestart, Spend, NoListing, NoLeave
  <1>4. ConfirmedIsGone'
    BY DEF DialogsInv, ConfirmedIsGone, DialogsRestart, Spend, NoListing, NoLeave
  <1>5. /\ MemberOK' /\ AccessOK' /\ NewestOK' /\ ErasedOK' /\ StoredIsNewest' /\ LeftIsForgotten'
        /\ LatestVerdictStays' /\ FilesAreConfirmed'
    BY DEF DialogsInv, MemberOK, AccessOK, NewestOK, ErasedOK, StoredIsNewest, LeftIsForgotten,
       LatestVerdictStays, FilesAreConfirmed, DialogsRestart, Spend
  <1> QED
    BY <1>1, <1>2, <1>3, <1>4, <1>5 DEF DialogsInv

\* The operator stops a chat,
LEMMA AccessStopKept ==
  ASSUME DialogsInv, NEW c \in Chats, AccessStop(c)
  PROVE  DialogsInv'
  <1>1. /\ MemberOK' /\ AccessOK' /\ NewestOK' /\ ErasedOK' /\ TimesOK' /\ ListingOK' /\ LeaveOK'
        /\ LeaveIsNamed' /\ NothingIsLater' /\ CurrentIsLater' /\ StoredIsNewest'
        /\ ConfirmedIsGone' /\ LeftIsForgotten' /\ LatestVerdictStays' /\ FilesAreConfirmed'
    BY DEF DialogsInv, MemberOK, AccessOK, NewestOK, ErasedOK, TimesOK, ListingOK, LeaveOK,
       LeaveIsNamed, NothingIsLater, CurrentIsLater, StoredIsNewest, ConfirmedIsGone,
       LeftIsForgotten, LatestVerdictStays, FilesAreConfirmed, AccessStop
  <1> QED
    BY <1>1 DEF DialogsInv

\* drops it with its verdict,
LEMMA AccessRemoveKept ==
  ASSUME DialogsInv, NEW c \in Chats, AccessRemove(c)
  PROVE  DialogsInv'
  <1>1. AccessOK'
    BY DEF DialogsInv, AccessOK, AccessRemove, NoAccess, VerdictRows
  <1>2. NewestOK'
    BY DEF DialogsInv, NewestOK, AccessRemove, NoAccess
  <1>3. ErasedOK'
    <2>1. [erased[c] EXCEPT !.dropped = clock] \in ErasedRows
      BY DEF DialogsInv, ErasedOK, ErasedRows, TimesOK
    <2> QED
      BY <2>1 DEF DialogsInv, ErasedOK, AccessRemove
  <1>4. NothingIsLater'
    BY DEF DialogsInv, NothingIsLater, AccessRemove, NoAccess
  <1>5. CurrentIsLater'
    BY DEF DialogsInv, CurrentIsLater, AccessRemove, NoAccess
  <1>6. StoredIsNewest'
    BY DEF DialogsInv, StoredIsNewest, AccessRemove, NoAccess, AccessOK, NewestOK
  <1>7. LeftIsForgotten'
    BY DEF DialogsInv, LeftIsForgotten, AccessRemove, NoAccess
  <1>8. LatestVerdictStays'
    BY DEF DialogsInv, LatestVerdictStays, AccessRemove, NoAccess, AccessOK
  <1>9. /\ MemberOK' /\ TimesOK' /\ ListingOK' /\ LeaveOK' /\ LeaveIsNamed' /\ ConfirmedIsGone'
        /\ FilesAreConfirmed'
    BY DEF DialogsInv, MemberOK, TimesOK, ListingOK, LeaveOK, LeaveIsNamed, ConfirmedIsGone,
       FilesAreConfirmed, AccessRemove
  <1> QED
    BY <1>1, <1>2, <1>3, <1>4, <1>5, <1>6, <1>7, <1>8, <1>9 DEF DialogsInv

\* or follows it to another.
LEMMA FollowMigrationKept ==
  ASSUME DialogsInv, NEW c \in Chats, NEW target \in Chats, FollowMigration(c, target)
  PROVE  DialogsInv'
  <1>1. /\ MemberOK' /\ AccessOK' /\ NewestOK' /\ ErasedOK' /\ TimesOK' /\ ListingOK' /\ LeaveOK'
        /\ LeaveIsNamed' /\ NothingIsLater' /\ CurrentIsLater' /\ StoredIsNewest'
        /\ ConfirmedIsGone' /\ LeftIsForgotten' /\ LatestVerdictStays' /\ FilesAreConfirmed'
    BY DEF DialogsInv, MemberOK, AccessOK, NewestOK, ErasedOK, TimesOK, ListingOK, LeaveOK,
       LeaveIsNamed, NothingIsLater, CurrentIsLater, StoredIsNewest, ConfirmedIsGone,
       LeftIsForgotten, LatestVerdictStays, FilesAreConfirmed, FollowMigration
  <1> QED
    BY <1>1 DEF DialogsInv

\* Without listings and removals nothing is confirmed, dropped or stored.
LEMMA InitDialogsInv == DialogsInit => DialogsInv
  <1> SUFFICES ASSUME DialogsInit PROVE DialogsInv
    OBVIOUS
  <1> USE DEF DialogsInit
  <1>1. MemberOK /\ NewestOK /\ TimesOK
    BY DEF MemberOK, NewestOK, TimesOK, States
  <1>2. AccessOK /\ ErasedOK
    BY DEF AccessOK, ErasedOK, VerdictRows, ErasedRows, NoAccess
  <1>3. ListingOK /\ LeaveOK
    BY NothingOK DEF ListingOK, LeaveOK
  <1>4. NoLeave.pc = "off" /\ NoLeave.at = 0 /\ NoLeave.removed = {} /\ NoListing.pc = "off"
    BY DEF NoLeave, NoListing
  <1>5. LeaveIsNamed /\ NothingIsLater /\ CurrentIsLater /\ ConfirmedIsGone
    BY <1>4 DEF LeaveIsNamed, NothingIsLater, CurrentIsLater, ConfirmedIsGone
  <1>6. StoredIsNewest /\ LeftIsForgotten /\ LatestVerdictStays /\ FilesAreConfirmed
    BY DEF StoredIsNewest, LeftIsForgotten, LatestVerdictStays, FilesAreConfirmed, NoAccess
  <1> QED
    BY <1>1, <1>2, <1>3, <1>5, <1>6 DEF DialogsInv

\* The invariant is kept by every step of listings, removals and the operator.
LEMMA DialogsInvKept == DialogsInv /\ [DialogsNext]_dialogVars => DialogsInv'
  <1> SUFFICES ASSUME DialogsInv, [DialogsNext]_dialogVars PROVE DialogsInv'
    OBVIOUS
  <1>1. CASE UNCHANGED dialogVars
    BY <1>1 DEF dialogVars, DialogsInv, MemberOK, AccessOK, NewestOK, ErasedOK, TimesOK,
       ListingOK, LeaveOK, LeaveIsNamed,
       NothingIsLater, CurrentIsLater, StoredIsNewest, ConfirmedIsGone, LeftIsForgotten, LatestVerdictStays, FilesAreConfirmed
  <1>2. ASSUME NEW a \in Accounts, NEW c \in Chats, NEW state \in {"ok", "dead", "moved"},
               ChatChanges(a, c, state)
        PROVE  DialogsInv'
    BY <1>2, ChatChangesKept
  <1>3. CASE \E l \in Roles :
               BeginListing(l) \/ (\E a \in Accounts : ReadAccount(l, a)) \/ ListingFails(l) \/ SaveListing(l)
    BY <1>3, BeginListingKept, ReadAccountKept, ListingFailsKept, SaveListingKept
  <1>4. ASSUME NEW x \in Leavers, NEW a \in Accounts, NEW chats \in SUBSET Chats,
               NEW delete \in BOOLEAN,
               BeginLeave(x, a, chats, delete)
        PROVE  DialogsInv'
    BY <1>4, BeginLeaveKept
  <1>5. CASE \E x \in Leavers :
               \/ ResolveDialogs(x) \/ LeaveFails(x) \/ TelegramRemoves(x) \/ Confirmed(x) \/ Invalidate(x)
               \/ \E flood \in BOOLEAN : RemovalFails(x, flood)
    BY <1>5, ResolveDialogsKept, LeaveFailsKept, TelegramRemovesKept, ConfirmedKept,
       InvalidateKept, RemovalFailsKept
  <1>6. CASE \E x \in Leavers, c \in Chats : NextChat(x, c) \/ CleanChat(x, c) \/ CleanFails(x, c)
    BY <1>6, NextChatKept, CleanChatKept, CleanFailsKept
  <1>7. CASE DialogsRestart \/ \E c \in Chats : AccessStop(c) \/ AccessRemove(c) \/ (\E t \in Chats : FollowMigration(c, t))
    BY <1>7, DialogsRestartKept, AccessStopKept, AccessRemoveKept, FollowMigrationKept
  <1> QED
    BY <1>1, <1>2, <1>3, <1>4, <1>5, <1>6, <1>7 DEF DialogsNext

\* Chats stay left, verdicts stay new, and files go only with chats that are gone, however
\* listings and removals meet and whatever Telegram's answers are.
THEOREM ChatsStayLeft == DialogsSpec => []ChatsAreLeftForGood
  <1>1. DialogsInv => ChatsAreLeftForGood
    BY DEF DialogsInv, ChatsAreLeftForGood
  <1> QED
    BY <1>1, InitDialogsInv, DialogsInvKept, PTL DEF DialogsSpec

-----------------------------------------------------------------------------
(* The answer to a stop is heeded, and Close leaves nothing under way      *)
(* (app/monitor_api.go, app/ambient.go).                                   *)

LockedAt == {"prepare", "connecting", "started", "failed", "check", "status", "stop", "save", "refresh", "delete"}

\* The steps of each kind of actor.
Pcs == {"off", "done", "lock", "first", "timer", "again"} \cup LockedAt

MonitorTypeOK ==
  /\ monitor \in {"stopped", "starting", "running", "error"}
  /\ op \in Actors \cup {Unheld, "close"}
  /\ actor \in [Actors -> Pcs]
  /\ kind \in [Requests -> {"none", "start", "restart", "stop", "account"}]
  /\ autoStart \in BOOLEAN /\ restartPending \in BOOLEAN
  /\ purgeResume \in BOOLEAN /\ wasRunning \in BOOLEAN
  /\ purging \in {"none", "pending", "running"}
  /\ closer \in 0..DbClosed /\ stopped \in {"no", "unless", "yes"}
  /\ errors \in Nat /\ boots \in Nat

\* Who is between taking the lock and giving it back holds it; a stop never starts anything.
LockIsHeld ==
  /\ \A x \in Actors : actor[x] \in LockedAt => op = x
  /\ actor["watchdog"] # "lock" /\ (closer = 9 => op = "close")
  /\ \A q \in Requests : /\ kind[q] = "none" => actor[q] = "off"
                         /\ kind[q] = "stop" => actor[q] \in {"first", "lock", "stop", "save", "done"}
                         /\ actor[q] = "save" => monitor \notin {"running", "starting"}
  /\ wasRunning => \E q \in Requests : actor[q] = "refresh"

\* After the answer to a stop nobody is on the way to a start.
NobodyStarts ==
  stopped = "yes" =>
    /\ ~autoStart /\ ~purgeResume /\ ~wasRunning /\ actor["boot"] = "done"
    /\ monitor \notin {"running", "starting"}
    /\ \A x \in Actors : actor[x] \notin {"prepare", "connecting"}
    /\ \A q \in Requests : kind[q] \in {"start", "restart"} => Over(q)

\* Who Close has waited for stays over.
WaitedFor ==
  /\ closer >= 4 => Over("watchdog")
  /\ closer >= 5 => Over("boot")
  /\ closer >= 6 => Over("purge")
  /\ closer >= 7 => /\ \A r \in Restarts : Over(r)
                    /\ \A q \in Requests : kind[q] \in {"start", "restart"} => Over(q)
  /\ closer >= 8 => \A q \in Requests : kind[q] = "account" => Over(q)
  /\ closer >= 9 => monitor \notin {"running", "starting"}

MonitorInv == MonitorTypeOK /\ LockIsHeld /\ NobodyStarts /\ WaitedFor
-----------------------------------------------------------------------------
(* Each step keeps the invariant.                                          *)

\* A run that fails schedules its restart and starts nothing itself.
LEMMA MonitorFailsKept ==
  ASSUME MonitorInv, MonitorFails
  PROVE  MonitorInv'
  <1>1. MonitorTypeOK'
    <2>1. restartPending' \in BOOLEAN
      BY DEF MonitorInv, MonitorTypeOK, MonitorFails, Schedule, Error
    <2>2. actor' \in [Actors -> Pcs]
      BY MonitorAssumption DEF MonitorAssumption, MonitorInv, MonitorTypeOK, LockedAt, Pcs, Actors, MonitorFails, Schedule, Error, Steps
    <2> QED
      BY <2>1, <2>2 DEF MonitorInv, MonitorTypeOK, MonitorFails, Schedule, Error
  <1>2. LockIsHeld'
    BY MonitorAssumption DEF MonitorAssumption, MonitorInv, LockIsHeld, MonitorTypeOK,
       LockedAt, Actors, MonitorFails, Steps, Error, Schedule, Admitted, maintenanceClosed,
       Cancelled
  <1>3. NobodyStarts'
    BY DEF MonitorInv, NobodyStarts, MonitorFails, Steps, Over, Error, Schedule, Admitted,
       maintenanceClosed, Cancelled
  <1>4. WaitedFor'
    BY DEF MonitorInv, WaitedFor, MonitorTypeOK, MonitorFails, Steps, Over, Error, Schedule,
       Admitted, maintenanceClosed, Cancelled
  <1> QED
    BY <1>1, <1>2, <1>3, <1>4 DEF MonitorInv

\* A run that ends starts nothing.
LEMMA MonitorEndsKept ==
  ASSUME MonitorInv, MonitorEnds
  PROVE  MonitorInv'
  <1>1. MonitorTypeOK'
    BY DEF MonitorInv, MonitorTypeOK, MonitorEnds, Error, Cancelled, DbClosed
  <1>2. LockIsHeld'
    BY DEF MonitorInv, LockIsHeld, MonitorEnds, Error, Cancelled
  <1>3. NobodyStarts'
    BY DEF MonitorInv, NobodyStarts, MonitorEnds, Over, Error, Cancelled
  <1>4. WaitedFor'
    BY DEF MonitorInv, WaitedFor, MonitorEnds, Over, Error, Cancelled
  <1> QED
    BY <1>1, <1>2, <1>3, <1>4 DEF MonitorInv

\* Preparing needs the lock, which no stop gives back before it is answered.
LEMMA PrepareKept ==
  ASSUME MonitorInv, NEW x \in Actors, Prepare(x)
  PROVE  MonitorInv'
  <1>1. MonitorTypeOK'
    BY DEF MonitorInv, MonitorTypeOK, LockedAt, Pcs, Prepare, Steps, Cancelled, DbClosed
  <1>2. LockIsHeld'
    BY DEF MonitorInv, LockIsHeld, MonitorTypeOK, LockedAt, Actors, Prepare, Steps, Cancelled
  <1>3. NobodyStarts'
    BY DEF MonitorInv, NobodyStarts, Prepare, Steps, Over, Cancelled
  <1>4. WaitedFor'
    BY DEF MonitorInv, WaitedFor, MonitorTypeOK, Actors, Prepare, Steps, Over, Cancelled
  <1> QED
    BY <1>1, <1>2, <1>3, <1>4 DEF MonitorInv

\* A start that cannot be prepared keeps the lock for its end.
LEMMA PrepareFailsKept ==
  ASSUME MonitorInv, NEW x \in Actors, PrepareFails(x)
  PROVE  MonitorInv'
  <1>1. MonitorTypeOK'
    BY DEF MonitorInv, MonitorTypeOK, LockedAt, Pcs, PrepareFails, Steps, Error, DbClosed
  <1>2. LockIsHeld'
    BY DEF MonitorInv, LockIsHeld, PrepareFails, Steps, Error
  <1>3. NobodyStarts'
    BY DEF MonitorInv, NobodyStarts, PrepareFails, Steps, Over, Error
  <1>4. WaitedFor'
    BY DEF MonitorInv, WaitedFor, PrepareFails, Steps, Over, Error
  <1> QED
    BY <1>1, <1>2, <1>3, <1>4 DEF MonitorInv

\* Only who holds the lock makes the monitor run.
LEMMA ConnectedKept ==
  ASSUME MonitorInv, NEW x \in Actors, Connected(x)
  PROVE  MonitorInv'
  <1>1. MonitorTypeOK'
    BY DEF MonitorInv, MonitorTypeOK, LockedAt, Pcs, Connected, Steps, Cancelled, DbClosed
  <1>2. LockIsHeld'
    BY DEF MonitorInv, LockIsHeld, MonitorTypeOK, LockedAt, Actors, Connected, Steps,
       Cancelled
  <1>3. NobodyStarts'
    BY DEF MonitorInv, NobodyStarts, Connected, Steps, Over, Cancelled
  <1>4. WaitedFor'
    BY DEF MonitorInv, WaitedFor, MonitorTypeOK, Actors, Connected, Steps, Over, Cancelled
  <1> QED
    BY <1>1, <1>2, <1>3, <1>4 DEF MonitorInv

\* A connection that fails schedules a restart, never after Close has begun.
LEMMA ConnectFailsKept ==
  ASSUME MonitorInv, NEW x \in Actors, ConnectFails(x)
  PROVE  MonitorInv'
  <1>1. MonitorTypeOK'
    <2>1. restartPending' \in BOOLEAN
      BY DEF MonitorInv, MonitorTypeOK, ConnectFails, Schedule, Error
    <2>2. actor' \in [Actors -> Pcs]
      BY MonitorAssumption DEF MonitorAssumption, MonitorInv, MonitorTypeOK, LockedAt, Pcs, Actors, ConnectFails, Schedule, Error, Steps
    <2> QED
      BY <2>1, <2>2 DEF MonitorInv, MonitorTypeOK, ConnectFails, Schedule, Error
  <1>2. LockIsHeld'
    BY MonitorAssumption DEF MonitorAssumption, MonitorInv, LockIsHeld, MonitorTypeOK,
       LockedAt, Actors, ConnectFails, Steps, Error, Schedule, Admitted, maintenanceClosed,
       Cancelled
  <1>3. NobodyStarts'
    BY DEF MonitorInv, NobodyStarts, ConnectFails, Steps, Over, Error, Schedule, Admitted,
       maintenanceClosed, Cancelled
  <1>4. WaitedFor'
    BY DEF MonitorInv, WaitedFor, MonitorTypeOK, Actors, ConnectFails, Steps, Over, Error,
       Schedule, Admitted, maintenanceClosed, Cancelled
  <1> QED
    BY <1>1, <1>2, <1>3, <1>4 DEF MonitorInv

\* Taking the lock: nobody else is between taking it and giving it back.
LEMMA TakeOpKept ==
  ASSUME MonitorInv, NEW x \in Actors, TakeOp(x)
  PROVE  MonitorInv'
  <1>1. MonitorTypeOK'
    BY DEF MonitorInv, MonitorTypeOK, LockedAt, Pcs, TakeOp, Steps, DbClosed
  <1>2. LockIsHeld'
    BY MonitorAssumption DEF MonitorAssumption, MonitorInv, LockIsHeld, Actors, TakeOp, Steps
  <1>3. NobodyStarts'
    <2>1. ASSUME stopped = "yes", actor'[x] = "prepare" PROVE FALSE
      <3>1. x \notin Restarts /\ x # "purge" /\ x # "boot" /\ x # "watchdog"
        BY <2>1, MonitorAssumption DEF MonitorAssumption, MonitorInv, MonitorTypeOK, NobodyStarts, Actors, TakeOp, Steps
      <3> QED
        BY <2>1, <3>1 DEF MonitorInv, MonitorTypeOK, NobodyStarts, Actors, TakeOp, Steps, Over
    <2> QED
      BY <2>1 DEF MonitorInv, MonitorTypeOK, NobodyStarts, TakeOp, Steps, Over
  <1>4. WaitedFor'
    BY DEF MonitorInv, WaitedFor, TakeOp, Steps, Over
  <1> QED
    BY <1>1, <1>2, <1>3, <1>4 DEF MonitorInv

\* A request begins; jobs of the server and accounts no longer once Close has begun.
LEMMA AskKept ==
  ASSUME MonitorInv, NEW q \in Requests,
         NEW what \in {"start", "restart", "stop", "account"}, Ask(q, what)
  PROVE  MonitorInv'
  <1>1. MonitorTypeOK'
    BY DEF MonitorInv, MonitorTypeOK, Pcs, Ask, Steps, Admitted, maintenanceClosed, Cancelled,
       DbClosed
  <1>2. LockIsHeld'
    BY MonitorAssumption DEF MonitorAssumption, MonitorInv, LockIsHeld, MonitorTypeOK,
       LockedAt, Actors, Ask, Steps, Admitted, maintenanceClosed, Cancelled, DbClosed
  <1>3. NobodyStarts'
    BY DEF MonitorInv, NobodyStarts, LockIsHeld, Ask, Steps, Over, Admitted,
       maintenanceClosed, Cancelled, DbClosed
  <1>4. WaitedFor'
    BY MonitorAssumption DEF MonitorAssumption, MonitorInv, WaitedFor, MonitorTypeOK, Ask,
       Steps, Over, Admitted, maintenanceClosed, Cancelled, DbClosed
  <1> QED
    BY <1>1, <1>2, <1>3, <1>4 DEF MonitorInv

\* The stop before the lock only halts.
LEMMA FirstStopKept ==
  ASSUME MonitorInv, NEW q \in Requests, FirstStop(q)
  PROVE  MonitorInv'
  <1>1. MonitorTypeOK'
    BY DEF MonitorInv, MonitorTypeOK, Pcs, FirstStop, Steps, Halt, DbClosed
  <1>2. LockIsHeld'
    BY MonitorAssumption DEF MonitorAssumption, MonitorInv, LockIsHeld, LockedAt, FirstStop,
       Steps, Halt
  <1>3. NobodyStarts'
    BY DEF MonitorInv, NobodyStarts, FirstStop, Steps, Over, Halt
  <1>4. WaitedFor'
    BY DEF MonitorInv, WaitedFor, FirstStop, Steps, Over, Halt
  <1> QED
    BY <1>1, <1>2, <1>3, <1>4 DEF MonitorInv

\* The stop under the lock leaves the monitor halted until it is answered.
LEMMA StopUnderLockKept ==
  ASSUME MonitorInv, NEW q \in Requests, StopUnderLock(q)
  PROVE  MonitorInv'
  <1>1. MonitorTypeOK'
    BY DEF MonitorInv, MonitorTypeOK, LockedAt, Pcs, StopUnderLock, Steps, Halt, StopsAgain,
       DbClosed
  <1>2. LockIsHeld'
    BY DEF MonitorInv, LockIsHeld, StopUnderLock, Steps, Halt, StopsAgain
  <1>3. NobodyStarts'
    BY DEF MonitorInv, NobodyStarts, StopUnderLock, Steps, Over, Halt, StopsAgain
  <1>4. WaitedFor'
    BY DEF MonitorInv, WaitedFor, StopUnderLock, Steps, Over, Halt, StopsAgain
  <1> QED
    BY <1>1, <1>2, <1>3, <1>4 DEF MonitorInv

\* The answer to a stop counts when nothing that starts the monitor is on its way.
LEMMA SaveAutoStartKept ==
  ASSUME MonitorInv, NEW q \in Requests, SaveAutoStart(q)
  PROVE  MonitorInv'
  <1>1. MonitorTypeOK'
    BY DEF MonitorInv, MonitorTypeOK, Pcs, SaveAutoStart, Steps, Over, Unlock, DbClosed
  <1>2. LockIsHeld'
    BY MonitorAssumption DEF MonitorAssumption, MonitorInv, LockIsHeld, MonitorTypeOK,
       LockedAt, SaveAutoStart, Steps, Over, Unlock, DbClosed
  <1>3. NobodyStarts'
    BY DEF MonitorInv, NobodyStarts, MonitorTypeOK, LockIsHeld, LockedAt, Actors,
       SaveAutoStart, Steps, Over, Unlock, DbClosed
  <1>4. WaitedFor'
    BY DEF MonitorInv, WaitedFor, SaveAutoStart, Steps, Over, Unlock, DbClosed
  <1> QED
    BY <1>1, <1>2, <1>3, <1>4 DEF MonitorInv

\* A request that ends gives the lock back.
LEMMA EndRequestKept ==
  ASSUME MonitorInv, NEW q \in Requests, EndRequest(q)
  PROVE  MonitorInv'
  <1>1. MonitorTypeOK'
    BY DEF MonitorInv, MonitorTypeOK, Pcs, EndRequest, Steps, Unlock, Cancelled, DbClosed
  <1>2. LockIsHeld'
    BY MonitorAssumption DEF MonitorAssumption, MonitorInv, LockIsHeld, MonitorTypeOK,
       LockedAt, EndRequest, Steps, Unlock, Cancelled
  <1>3. NobodyStarts'
    BY DEF MonitorInv, NobodyStarts, EndRequest, Steps, Over, Unlock, Cancelled
  <1>4. WaitedFor'
    BY DEF MonitorInv, WaitedFor, EndRequest, Steps, Over, Unlock, Cancelled
  <1> QED
    BY <1>1, <1>2, <1>3, <1>4 DEF MonitorInv

\* So does a stop that is given up.
LEMMA StopGivenUpKept ==
  ASSUME MonitorInv, NEW q \in Requests, StopGivenUp(q)
  PROVE  MonitorInv'
  <1>1. MonitorTypeOK'
    BY DEF MonitorInv, MonitorTypeOK, Pcs, StopGivenUp, Steps, Unlock, DbClosed
  <1>2. LockIsHeld'
    BY MonitorAssumption DEF MonitorAssumption, MonitorInv, LockIsHeld, MonitorTypeOK,
       LockedAt, StopGivenUp, Steps, Unlock
  <1>3. NobodyStarts'
    BY DEF MonitorInv, NobodyStarts, StopGivenUp, Steps, Over, Unlock
  <1>4. WaitedFor'
    BY DEF MonitorInv, WaitedFor, StopGivenUp, Steps, Over, Unlock
  <1> QED
    BY <1>1, <1>2, <1>3, <1>4 DEF MonitorInv

\* A new account notes a run, of which after a stop there is none.
LEMMA SaveAccountKept ==
  ASSUME MonitorInv, NEW q \in Requests, SaveAccount(q)
  PROVE  MonitorInv'
  <1>1. MonitorTypeOK'
    BY DEF MonitorInv, MonitorTypeOK, LockedAt, Pcs, SaveAccount, Steps, DbClosed
  <1>2. LockIsHeld'
    BY DEF MonitorInv, LockIsHeld, MonitorTypeOK, Actors, SaveAccount, Steps
  <1>3. NobodyStarts'
    BY DEF MonitorInv, NobodyStarts, MonitorTypeOK, SaveAccount, Steps, Over
  <1>4. WaitedFor'
    BY DEF MonitorInv, WaitedFor, SaveAccount, Steps, Over
  <1> QED
    BY <1>1, <1>2, <1>3, <1>4 DEF MonitorInv

\* It starts the monitor again only when it ran.
LEMMA RefreshMonitorKept ==
  ASSUME MonitorInv, NEW q \in Requests, RefreshMonitor(q)
  PROVE  MonitorInv'
  <1>1. MonitorTypeOK'
    BY DEF MonitorInv, MonitorTypeOK, LockedAt, Pcs, RefreshMonitor, Steps, Halt, DbClosed
  <1>2. LockIsHeld'
    BY DEF MonitorInv, LockIsHeld, LockedAt, RefreshMonitor, Steps, Halt
  <1>3. NobodyStarts'
    BY DEF MonitorInv, NobodyStarts, RefreshMonitor, Steps, Over, Halt
  <1>4. WaitedFor'
    BY DEF MonitorInv, WaitedFor, RefreshMonitor, Steps, Over, Halt
  <1> QED
    BY <1>1, <1>2, <1>3, <1>4 DEF MonitorInv

\* The start with the process ends,
LEMMA EndBootKept ==
  ASSUME MonitorInv, EndBoot
  PROVE  MonitorInv'
  <1>1. MonitorTypeOK'
    BY DEF MonitorInv, MonitorTypeOK, Pcs, EndBoot, Steps, Unlock, DbClosed
  <1>2. LockIsHeld'
    BY DEF MonitorInv, LockIsHeld, MonitorTypeOK, LockedAt, EndBoot, Steps, Unlock
  <1>3. NobodyStarts'
    BY DEF MonitorInv, NobodyStarts, EndBoot, Steps, Over, Unlock
  <1>4. WaitedFor'
    BY DEF MonitorInv, WaitedFor, EndBoot, Steps, Over, Unlock
  <1> QED
    BY <1>1, <1>2, <1>3, <1>4 DEF MonitorInv

\* a timer fires or ends with the server,
LEMMA RestartTimerKept ==
  ASSUME MonitorInv, NEW r \in Restarts, RestartTimer(r)
  PROVE  MonitorInv'
  <1>1. MonitorTypeOK'
    <2>1. restartPending' \in BOOLEAN
      BY DEF MonitorInv, MonitorTypeOK, RestartTimer
    <2>2. actor' \in [Actors -> Pcs]
      BY MonitorAssumption DEF MonitorAssumption, MonitorInv, MonitorTypeOK, LockedAt, Pcs, Actors, RestartTimer, Steps
    <2> QED
      BY <2>1, <2>2 DEF MonitorInv, MonitorTypeOK, RestartTimer
  <1>2. LockIsHeld'
    BY MonitorAssumption DEF MonitorAssumption, MonitorInv, LockIsHeld, MonitorTypeOK,
       LockedAt, Actors, RestartTimer, Steps, Cancelled
  <1>3. NobodyStarts'
    BY DEF MonitorInv, NobodyStarts, MonitorTypeOK, Actors, RestartTimer, Steps, Over,
       Cancelled
  <1>4. WaitedFor'
    BY DEF MonitorInv, WaitedFor, MonitorTypeOK, Actors, RestartTimer, Steps, Over, Cancelled
  <1> QED
    BY <1>1, <1>2, <1>3, <1>4 DEF MonitorInv

\* a restart looks at what the operator left on,
LEMMA CheckRestartKept ==
  ASSUME MonitorInv, NEW x \in Actors, CheckRestart(x)
  PROVE  MonitorInv'
  <1>1. MonitorTypeOK'
    BY DEF MonitorInv, MonitorTypeOK, LockedAt, Pcs, CheckRestart, Steps, Unlock, DbClosed,
       ShouldRestart
  <1>2. LockIsHeld'
    BY MonitorAssumption DEF MonitorAssumption, MonitorInv, LockIsHeld, MonitorTypeOK,
       LockedAt, Actors, CheckRestart, Steps, Unlock, ShouldRestart
  <1>3. NobodyStarts'
    BY DEF MonitorInv, NobodyStarts, MonitorTypeOK, Actors, CheckRestart, Steps, Over, Unlock,
       ShouldRestart
  <1>4. WaitedFor'
    BY DEF MonitorInv, WaitedFor, MonitorTypeOK, Actors, CheckRestart, Steps, Over, Unlock,
       ShouldRestart
  <1> QED
    BY <1>1, <1>2, <1>3, <1>4 DEF MonitorInv

\* ends,
LEMMA EndRestartKept ==
  ASSUME MonitorInv, NEW r \in Restarts, EndRestart(r)
  PROVE  MonitorInv'
  <1>1. MonitorTypeOK'
    BY DEF MonitorInv, MonitorTypeOK, Pcs, EndRestart, Steps, Unlock, Cancelled, DbClosed
  <1>2. LockIsHeld'
    BY MonitorAssumption DEF MonitorAssumption, MonitorInv, LockIsHeld, MonitorTypeOK,
       LockedAt, EndRestart, Steps, Unlock, Cancelled
  <1>3. NobodyStarts'
    BY DEF MonitorInv, NobodyStarts, EndRestart, Steps, Over, Unlock, Cancelled
  <1>4. WaitedFor'
    BY DEF MonitorInv, WaitedFor, EndRestart, Steps, Over, Unlock, Cancelled
  <1> QED
    BY <1>1, <1>2, <1>3, <1>4 DEF MonitorInv

\* is tried again,
LEMMA RestartAgainKept ==
  ASSUME MonitorInv, NEW r \in Restarts, RestartAgain(r)
  PROVE  MonitorInv'
  <1>1. MonitorTypeOK'
    <2>1. restartPending' \in BOOLEAN
      BY DEF MonitorInv, MonitorTypeOK, RestartAgain
    <2>2. actor' \in [Actors -> Pcs]
      BY MonitorAssumption DEF MonitorAssumption, MonitorInv, MonitorTypeOK, LockedAt, Pcs, Actors, RestartAgain, Steps
    <2> QED
      BY <2>1, <2>2 DEF MonitorInv, MonitorTypeOK, RestartAgain
  <1>2. LockIsHeld'
    BY DEF MonitorInv, LockIsHeld, MonitorTypeOK, LockedAt, Actors, RestartAgain, Steps,
       Admitted, maintenanceClosed, Cancelled
  <1>3. NobodyStarts'
    BY DEF MonitorInv, NobodyStarts, MonitorTypeOK, Actors, RestartAgain, Steps, Over,
       Admitted, maintenanceClosed, Cancelled
  <1>4. WaitedFor'
    BY DEF MonitorInv, WaitedFor, MonitorTypeOK, Actors, RestartAgain, Steps, Over, Admitted,
       maintenanceClosed, Cancelled
  <1> QED
    BY <1>1, <1>2, <1>3, <1>4 DEF MonitorInv

\* the watchdog looks, never after Close has begun,
LEMMA WatchdogTickKept ==
  ASSUME MonitorInv, WatchdogTick
  PROVE  MonitorInv'
  <1>1. MonitorTypeOK'
    BY DEF MonitorInv, MonitorTypeOK, LockedAt, Pcs, Actors, WatchdogTick, Steps, Cancelled,
       DbClosed
  <1>2. LockIsHeld'
    BY MonitorAssumption DEF MonitorAssumption, MonitorInv, LockIsHeld, Actors, WatchdogTick,
       Steps, Cancelled
  <1>3. NobodyStarts'
    BY MonitorAssumption DEF MonitorAssumption, MonitorInv, NobodyStarts, WatchdogTick, Steps,
       Over, Cancelled
  <1>4. WaitedFor'
    BY DEF MonitorInv, WaitedFor, MonitorTypeOK, WatchdogTick, Steps, Over, Cancelled
  <1> QED
    BY <1>1, <1>2, <1>3, <1>4 DEF MonitorInv

\* and gives the lock back.
LEMMA EndWatchdogKept ==
  ASSUME MonitorInv, EndWatchdog
  PROVE  MonitorInv'
  <1>1. MonitorTypeOK'
    BY DEF MonitorInv, MonitorTypeOK, Pcs, EndWatchdog, Steps, Unlock, DbClosed
  <1>2. LockIsHeld'
    BY DEF MonitorInv, LockIsHeld, MonitorTypeOK, LockedAt, EndWatchdog, Steps, Unlock
  <1>3. NobodyStarts'
    BY DEF MonitorInv, NobodyStarts, EndWatchdog, Steps, Over, Unlock
  <1>4. WaitedFor'
    BY DEF MonitorInv, WaitedFor, EndWatchdog, Steps, Over, Unlock
  <1> QED
    BY <1>1, <1>2, <1>3, <1>4 DEF MonitorInv

\* A purge begins, never once Close has closed purges;
LEMMA ClaimPurgeKept ==
  ASSUME MonitorInv, ClaimPurge
  PROVE  MonitorInv'
  <1>1. MonitorTypeOK'
    BY DEF MonitorInv, MonitorTypeOK, Pcs, Actors, ClaimPurge, Steps, Over, Error,
       purgeClosed, Cancelled, DbClosed
  <1>2. LockIsHeld'
    BY MonitorAssumption DEF MonitorAssumption, MonitorInv, LockIsHeld, LockedAt, ClaimPurge,
       Steps, Over, Error, purgeClosed, Cancelled
  <1>3. NobodyStarts'
    BY MonitorAssumption DEF MonitorAssumption, MonitorInv, NobodyStarts, ClaimPurge, Steps,
       Over, Error, purgeClosed, Cancelled
  <1>4. WaitedFor'
    BY DEF MonitorInv, WaitedFor, MonitorTypeOK, ClaimPurge, Steps, Over, Error, purgeClosed,
       Cancelled
  <1> QED
    BY <1>1, <1>2, <1>3, <1>4 DEF MonitorInv

\* it halts the monitor and notes whether it ran,
LEMMA PurgeStopsKept ==
  ASSUME MonitorInv, PurgeStops
  PROVE  MonitorInv'
  <1>1. MonitorTypeOK'
    BY DEF MonitorInv, MonitorTypeOK, LockedAt, Pcs, PurgeStops, Steps, Halt, DbClosed
  <1>2. LockIsHeld'
    BY DEF MonitorInv, LockIsHeld, LockedAt, PurgeStops, Steps, Halt
  <1>3. NobodyStarts'
    BY DEF MonitorInv, NobodyStarts, MonitorTypeOK, PurgeStops, Steps, Over, Halt
  <1>4. WaitedFor'
    BY DEF MonitorInv, WaitedFor, PurgeStops, Steps, Over, Halt
  <1> QED
    BY <1>1, <1>2, <1>3, <1>4 DEF MonitorInv

\* fails and keeps the note,
LEMMA PurgeFailsKept ==
  ASSUME MonitorInv, PurgeFails
  PROVE  MonitorInv'
  <1>1. MonitorTypeOK'
    BY DEF MonitorInv, MonitorTypeOK, Pcs, Actors, PurgeFails, Steps, Unlock, Error,
       Cancelled, DbClosed
  <1>2. LockIsHeld'
    BY DEF MonitorInv, LockIsHeld, MonitorTypeOK, LockedAt, PurgeFails, Steps, Unlock, Error,
       Cancelled
  <1>3. NobodyStarts'
    BY DEF MonitorInv, NobodyStarts, PurgeFails, Steps, Over, Unlock, Error, Cancelled
  <1>4. WaitedFor'
    BY DEF MonitorInv, WaitedFor, PurgeFails, Steps, Over, Unlock, Error, Cancelled
  <1> QED
    BY <1>1, <1>2, <1>3, <1>4 DEF MonitorInv

\* or is done and starts what it halted;
LEMMA PurgeDoneKept ==
  ASSUME MonitorInv, PurgeDone
  PROVE  MonitorInv'
  <1>1. MonitorTypeOK'
    BY DEF MonitorInv, MonitorTypeOK, LockedAt, Pcs, PurgeDone, Steps, Cancelled, DbClosed
  <1>2. LockIsHeld'
    BY DEF MonitorInv, LockIsHeld, LockedAt, PurgeDone, Steps, Cancelled
  <1>3. NobodyStarts'
    BY DEF MonitorInv, NobodyStarts, PurgeDone, Steps, Over, Cancelled
  <1>4. WaitedFor'
    BY DEF MonitorInv, WaitedFor, PurgeDone, Steps, Over, Cancelled
  <1> QED
    BY <1>1, <1>2, <1>3, <1>4 DEF MonitorInv

\* it gives the lock back.
LEMMA EndPurgeKept ==
  ASSUME MonitorInv, EndPurge
  PROVE  MonitorInv'
  <1>1. MonitorTypeOK'
    BY DEF MonitorInv, MonitorTypeOK, Pcs, EndPurge, Steps, Unlock, DbClosed
  <1>2. LockIsHeld'
    BY DEF MonitorInv, LockIsHeld, MonitorTypeOK, LockedAt, EndPurge, Steps, Unlock
  <1>3. NobodyStarts'
    BY DEF MonitorInv, NobodyStarts, EndPurge, Steps, Over, Unlock
  <1>4. WaitedFor'
    BY DEF MonitorInv, WaitedFor, EndPurge, Steps, Over, Unlock
  <1> QED
    BY <1>1, <1>2, <1>3, <1>4 DEF MonitorInv

\* Close goes on once those it waits for are over.
LEMMA CloseStepKept ==
  ASSUME MonitorInv, CloseStep
  PROVE  MonitorInv'
  <1>1. MonitorTypeOK'
    BY DEF MonitorInv, MonitorTypeOK, CloseStep, Over, Halt, DbClosed, Awaited
  <1>2. LockIsHeld'
    BY MonitorAssumption DEF MonitorAssumption, MonitorInv, LockIsHeld, MonitorTypeOK, Actors,
       CloseStep, Over, Halt, DbClosed, Awaited
  <1>3. NobodyStarts'
    BY DEF MonitorInv, NobodyStarts, CloseStep, Over, Halt, DbClosed, Awaited
  <1>4. WaitedFor'
    BY DEF MonitorInv, WaitedFor, MonitorTypeOK, CloseStep, Over, Halt, DbClosed, Awaited
  <1> QED
    BY <1>1, <1>2, <1>3, <1>4 DEF MonitorInv

\* The next process begins with nothing under way.
LEMMA BootMonitorKept ==
  ASSUME MonitorInv, BootMonitor
  PROVE  MonitorInv'
  <1>1. MonitorTypeOK'
    <2>1. restartPending' \in BOOLEAN
      BY DEF MonitorInv, MonitorTypeOK, BootMonitor
    <2>2. actor' \in [Actors -> Pcs]
      BY MonitorAssumption DEF MonitorAssumption, MonitorInv, MonitorTypeOK, LockedAt, Pcs, Actors, BootMonitor
    <2>3. purgeResume' \in BOOLEAN /\ wasRunning' \in BOOLEAN /\ autoStart' \in BOOLEAN
      BY DEF MonitorInv, MonitorTypeOK, BootMonitor
    <2>4. stopped' \in {"no", "unless", "yes"} /\ closer' \in 0..DbClosed /\ boots' \in Nat
      BY DEF MonitorInv, MonitorTypeOK, BootMonitor, DbClosed
    <2> QED
      BY <2>1, <2>2, <2>3, <2>4 DEF MonitorInv, MonitorTypeOK, BootMonitor, DbClosed
  <1>2. LockIsHeld'
    BY MonitorAssumption DEF MonitorAssumption, MonitorInv, LockIsHeld, LockedAt, Actors,
       BootMonitor
  <1>3. NobodyStarts'
    BY MonitorAssumption DEF MonitorAssumption, MonitorInv, NobodyStarts, Actors, BootMonitor,
       Over
  <1>4. WaitedFor'
    BY DEF MonitorInv, WaitedFor, BootMonitor, Over
  <1> QED
    BY <1>1, <1>2, <1>3, <1>4 DEF MonitorInv

\* The invariant holds at the start,
LEMMA InitMonitorInv == MonitorInit => MonitorInv
  <1> SUFFICES ASSUME MonitorInit PROVE MonitorInv
    OBVIOUS
  <1>1. MonitorTypeOK
    <2>1. /\ autoStart \in BOOLEAN /\ restartPending \in BOOLEAN
          /\ purgeResume \in BOOLEAN /\ wasRunning \in BOOLEAN
      BY DEF MonitorInit
    <2>2. /\ actor \in [Actors -> Pcs] /\ kind \in [Requests -> {"none", "start", "restart", "stop", "account"}]
          /\ closer \in 0..DbClosed
      BY DEF MonitorInit, Pcs, DbClosed
    <2> QED
      BY <2>1, <2>2 DEF MonitorInit, MonitorTypeOK
  <1>2. LockIsHeld /\ NobodyStarts /\ WaitedFor
    BY MonitorAssumption DEF MonitorAssumption, MonitorInit, LockIsHeld, NobodyStarts, WaitedFor, Actors, LockedAt
  <1> QED
    BY <1>1, <1>2 DEF MonitorInv

\* is kept by every step of the server and its requests,
LEMMA MonitorInvKept == MonitorInv /\ [MonitorNext]_monitorVars => MonitorInv'
  <1> SUFFICES ASSUME MonitorInv, [MonitorNext]_monitorVars PROVE MonitorInv'
    OBVIOUS
  <1>1. ASSUME NEW x \in Actors, ActorStep(x) PROVE MonitorInv'
    BY <1>1, PrepareKept, ConnectedKept, CheckRestartKept, FirstStopKept, StopUnderLockKept,
       SaveAutoStartKept, EndRequestKept, SaveAccountKept, RefreshMonitorKept, RestartTimerKept,
       EndRestartKept, RestartAgainKept, EndBootKept, EndWatchdogKept, PurgeStopsKept,
       PurgeDoneKept, EndPurgeKept
       DEF ActorStep
  <1>2. CASE UNCHANGED monitorVars
    BY <1>2 DEF monitorVars, MonitorInv, MonitorTypeOK, LockIsHeld, NobodyStarts, WaitedFor, Over
  <1> QED
    BY <1>1, <1>2, TakeOpKept, WatchdogTickKept, AskKept, StopGivenUpKept, PrepareFailsKept,
       ConnectFailsKept, MonitorFailsKept, MonitorEndsKept, ClaimPurgeKept, PurgeFailsKept,
       CloseStepKept, BootMonitorKept
       DEF MonitorNext

\* and says what is promised to the operator and of the end of the server.
LEMMA MonitorInvControls == MonitorInv => MonitorIsControlled
  <1> SUFFICES ASSUME MonitorInv PROVE MonitorIsControlled
    OBVIOUS
  <1>1. StopIsHeeded
    BY DEF MonitorInv, NobodyStarts, StopIsHeeded
  <1>2. ClosedIsQuiet
    <2> SUFFICES ASSUME closer = DbClosed
                 PROVE  /\ monitor \notin {"running", "starting"}
                        /\ \A x \in Actors : Over(x) \/ (x \in Requests /\ kind[x] = "stop")
      BY DEF ClosedIsQuiet
    <2>1. \A q \in Requests : kind[q] = "none" => Over(q)
      BY DEF MonitorInv, LockIsHeld, Over
    <2> QED
      BY <2>1 DEF MonitorInv, MonitorTypeOK, WaitedFor, Actors, DbClosed
  <1> QED
    BY <1>1, <1>2 DEF MonitorIsControlled

\* After the answer to a stop the monitor stays stopped until the operator starts it, whatever
\* restart, watchdog, account or purge was under way; and once the database is closed no job of
\* the server is left and the monitor stands still.
THEOREM MonitorControlled == MonitorSpec => []MonitorIsControlled
  BY InitMonitorInv, MonitorInvKept, MonitorInvControls, PTL DEF MonitorSpec
-----------------------------------------------------------------------------
(* Every temporary object has an owner (backup/transfer_journal.go).       *)

\* Steps, rows and cleaners are of their kinds.
TransferOK ==
  transfer \in [Transfers -> {"new", "created", "tracked", "written", "refused", "removed", "left",
                             "ended"}]
LeftoversOK == temporary \subseteq Transfers /\ stranded \subseteq Transfers
JournalOK == journal \in [Transfers -> {NoRecord, "active", "pending", "cleaning"}]
CleanerRows == [step : {"rest", "reclaim", "reclaimed", "kept"}, of : Transfers \cup {NoRecord}]
CleanerOK ==
  /\ cleaner \in [Cleaners -> CleanerRows]
  /\ \A c \in Cleaners : cleaner[c] # Resting => cleaner[c].step # "rest" /\ cleaner[c].of \in Transfers

\* The object comes after the row, or, of a multipart upload, before it; what was removed is gone.
RunningIsActive == \A t \in Transfers :
  /\ transfer[t] \in {"tracked", "written", "refused", "removed", "left"} => journal[t] = "active"
  /\ transfer[t] \in {"new", "created"} => journal[t] = NoRecord
  /\ transfer[t] = "new" \/ transfer[t] = "removed" => t \notin temporary
  /\ transfer[t] = "created" => CreatedFirst(t)

\* A row is pending or claimed only after its transfer has ended.
PendingIsOver == \A t \in Transfers : journal[t] \in {"pending", "cleaning"} => transfer[t] = "ended"

\* Who cleans has claimed the row; what it reclaimed is gone.
ClaimIsHeld == \A c \in Cleaners : cleaner[c] # Resting =>
  /\ journal[cleaner[c].of] = "cleaning"
  /\ cleaner[c].step = "reclaimed" => cleaner[c].of \notin temporary

\* Two cleaners have two rows.
ClaimsDiffer == \A c, d \in Cleaners :
  cleaner[c] # Resting /\ cleaner[d] # Resting /\ c # d => cleaner[c].of # cleaner[d].of

\* A stranded row is nobody's.
StrandedIsFree == \A t \in stranded :
  /\ transfer[t] = "ended" /\ journal[t] \in {"active", "cleaning"}
  /\ \A c \in Cleaners : cleaner[c] # Resting => cleaner[c].of # t

TransfersInv ==
  /\ TransferOK /\ LeftoversOK /\ JournalOK /\ CleanerOK
  /\ RunningIsActive /\ PendingIsOver /\ ClaimIsHeld /\ ClaimsDiffer /\ StrandedIsFree /\ LeftoversAreOwned


\* A multipart upload begins with its object,
LEMMA CreateMultipartKept ==
  ASSUME TransfersInv, NEW t \in Transfers, CreateMultipart(t)
  PROVE  TransfersInv'
  <1>1. TransferOK'
    BY DEF TransfersInv, TransferOK, CreateMultipart, CreatedFirst
  <1>2. LeftoversOK'
    BY DEF TransfersInv, LeftoversOK, CreateMultipart, CreatedFirst
  <1>3. RunningIsActive'
    BY DEF TransfersInv, RunningIsActive, CreateMultipart, CreatedFirst, NoRecord, TransferOK
  <1>4. PendingIsOver'
    BY DEF TransfersInv, PendingIsOver, CreateMultipart, CreatedFirst
  <1>5. ClaimIsHeld'
    BY DEF TransfersInv, ClaimIsHeld, CreateMultipart, CreatedFirst, Resting, NoRecord,
       PendingIsOver
  <1>6. StrandedIsFree'
    BY DEF TransfersInv, StrandedIsFree, CreateMultipart, CreatedFirst, Resting, NoRecord
  <1>7. LeftoversAreOwned'
    BY DEF TransfersInv, LeftoversAreOwned, CreateMultipart, CreatedFirst, NoRecord
  <1>8. JournalOK' /\ CleanerOK' /\ ClaimsDiffer'
    BY DEF TransfersInv, JournalOK, CleanerOK, ClaimsDiffer, CreateMultipart
  <1> QED
    BY <1>1, <1>2, <1>3, <1>4, <1>5, <1>6, <1>7, <1>8 DEF TransfersInv

\* any other with its row;
LEMMA TrackKept ==
  ASSUME TransfersInv, NEW t \in Transfers, Track(t)
  PROVE  TransfersInv'
  <1>1. TransferOK'
    BY DEF TransfersInv, TransferOK, Track, BeforeTrack, Outage, CreatedFirst, Spent
  <1>2. LeftoversOK'
    BY DEF TransfersInv, LeftoversOK, Track, BeforeTrack, Outage, CreatedFirst, Spent
  <1>3. JournalOK'
    BY DEF TransfersInv, JournalOK, Track, BeforeTrack, Outage, NoRecord, CreatedFirst, Spent
  <1>4. RunningIsActive'
    BY DEF TransfersInv, RunningIsActive, Track, BeforeTrack, Outage, NoRecord, CreatedFirst,
       Spent, TransferOK, JournalOK
  <1>5. PendingIsOver'
    BY DEF TransfersInv, PendingIsOver, Track, BeforeTrack, Outage, CreatedFirst, Spent,
       TransferOK, JournalOK
  <1>6. ClaimIsHeld'
    BY DEF TransfersInv, ClaimIsHeld, Track, BeforeTrack, Outage, Resting, CreatedFirst, Spent,
       NoRecord, PendingIsOver, JournalOK, CleanerOK
  <1>7. StrandedIsFree'
    BY DEF TransfersInv, StrandedIsFree, Track, BeforeTrack, Outage, Resting, CreatedFirst,
       Spent, NoRecord, TransferOK, LeftoversOK, JournalOK
  <1>8. LeftoversAreOwned'
    BY DEF TransfersInv, LeftoversAreOwned, Track, BeforeTrack, Outage, NoRecord, CreatedFirst,
       Spent, LeftoversOK, JournalOK
  <1>9. CleanerOK' /\ ClaimsDiffer'
    BY DEF TransfersInv, CleanerOK, ClaimsDiffer, Track, BeforeTrack, Outage, Spent
  <1> QED
    BY <1>1, <1>2, <1>3, <1>4, <1>5, <1>6, <1>7, <1>8, <1>9 DEF TransfersInv

\* what is written has its row,
LEMMA WriteTemporaryKept ==
  ASSUME TransfersInv, NEW t \in Transfers, WriteTemporary(t)
  PROVE  TransfersInv'
  <1>1. TransferOK'
    BY DEF TransfersInv, TransferOK, WriteTemporary, TransferRefused, Spent
  <1>2. LeftoversOK'
    BY DEF TransfersInv, LeftoversOK, WriteTemporary, TransferRefused, Spent
  <1>3. RunningIsActive'
    BY DEF TransfersInv, RunningIsActive, WriteTemporary, TransferRefused, NoRecord, CreatedFirst,
       Spent, TransferOK
  <1>4. PendingIsOver'
    BY DEF TransfersInv, PendingIsOver, WriteTemporary, TransferRefused, Spent, TransferOK
  <1>5. ClaimIsHeld'
    BY DEF TransfersInv, ClaimIsHeld, WriteTemporary, TransferRefused, Resting, Spent, NoRecord,
       PendingIsOver
  <1>6. StrandedIsFree'
    BY DEF TransfersInv, StrandedIsFree, WriteTemporary, TransferRefused, Resting, Spent, NoRecord,
       TransferOK, LeftoversOK
  <1>7. LeftoversAreOwned'
    BY DEF TransfersInv, LeftoversAreOwned, WriteTemporary, TransferRefused, NoRecord, Spent,
       RunningIsActive
  <1>8. JournalOK' /\ CleanerOK' /\ ClaimsDiffer'
    BY DEF TransfersInv, JournalOK, CleanerOK, ClaimsDiffer, WriteTemporary, TransferRefused, Spent
  <1> QED
    BY <1>1, <1>2, <1>3, <1>4, <1>5, <1>6, <1>7, <1>8 DEF TransfersInv

\* what is published is nothing temporary,
LEMMA PublishKept ==
  ASSUME TransfersInv, NEW t \in Transfers, Publish(t)
  PROVE  TransfersInv'
  <1>1. TransferOK'
    BY DEF TransfersInv, TransferOK, Publish, TransferRefused, Spent
  <1>2. LeftoversOK'
    BY DEF TransfersInv, LeftoversOK, Publish, TransferRefused, Spent
  <1>3. RunningIsActive'
    BY DEF TransfersInv, RunningIsActive, Publish, TransferRefused, NoRecord, CreatedFirst, Spent,
       TransferOK
  <1>4. PendingIsOver'
    BY DEF TransfersInv, PendingIsOver, Publish, TransferRefused, Spent, TransferOK
  <1>5. ClaimIsHeld'
    BY DEF TransfersInv, ClaimIsHeld, Publish, TransferRefused, Resting, Spent, NoRecord
  <1>6. StrandedIsFree'
    BY DEF TransfersInv, StrandedIsFree, Publish, TransferRefused, Resting, Spent, NoRecord, TransferOK,
       LeftoversOK
  <1>7. LeftoversAreOwned'
    BY DEF TransfersInv, LeftoversAreOwned, Publish, TransferRefused, NoRecord, Spent
  <1>8. JournalOK' /\ CleanerOK' /\ ClaimsDiffer'
    BY DEF TransfersInv, JournalOK, CleanerOK, ClaimsDiffer, Publish, TransferRefused, Spent
  <1> QED
    BY <1>1, <1>2, <1>3, <1>4, <1>5, <1>6, <1>7, <1>8 DEF TransfersInv

\* and neither is what was removed.
LEMMA RemoveTemporaryKept ==
  ASSUME TransfersInv, NEW t \in Transfers, RemoveTemporary(t)
  PROVE  TransfersInv'
  <1>1. TransferOK'
    BY DEF TransfersInv, TransferOK, RemoveTemporary, TransferRefused, Spent
  <1>2. LeftoversOK'
    BY DEF TransfersInv, LeftoversOK, RemoveTemporary, TransferRefused, Spent
  <1>3. RunningIsActive'
    BY DEF TransfersInv, RunningIsActive, RemoveTemporary, TransferRefused, NoRecord, CreatedFirst,
       Spent, TransferOK
  <1>4. PendingIsOver'
    BY DEF TransfersInv, PendingIsOver, RemoveTemporary, TransferRefused, Spent, TransferOK
  <1>5. ClaimIsHeld'
    BY DEF TransfersInv, ClaimIsHeld, RemoveTemporary, TransferRefused, Resting, Spent, NoRecord
  <1>6. StrandedIsFree'
    BY DEF TransfersInv, StrandedIsFree, RemoveTemporary, TransferRefused, Resting, Spent, NoRecord,
       TransferOK, LeftoversOK
  <1>7. LeftoversAreOwned'
    BY DEF TransfersInv, LeftoversAreOwned, RemoveTemporary, TransferRefused, NoRecord, Spent
  <1>8. JournalOK' /\ CleanerOK' /\ ClaimsDiffer'
    BY DEF TransfersInv, JournalOK, CleanerOK, ClaimsDiffer, RemoveTemporary, TransferRefused, Spent
  <1> QED
    BY <1>1, <1>2, <1>3, <1>4, <1>5, <1>6, <1>7, <1>8 DEF TransfersInv

\* The row goes after the object, and nobody else's.
LEMMA FinishKept ==
  ASSUME TransfersInv, NEW t \in Transfers, Finish(t)
  PROVE  TransfersInv'
  <1>1. TransferOK'
    BY DEF TransfersInv, TransferOK, Finish, NoRecord, LeftState, Outage, StrandedWith, Spent
  <1>2. LeftoversOK'
    BY DEF TransfersInv, LeftoversOK, Finish, NoRecord, LeftState, Outage, StrandedWith, Spent
  <1>3. JournalOK'
    BY DEF TransfersInv, JournalOK, Finish, NoRecord, LeftState, Outage, StrandedWith, Spent
  <1>4. RunningIsActive'
    BY DEF TransfersInv, RunningIsActive, Finish, NoRecord, LeftState, Outage, StrandedWith,
       CreatedFirst, Spent, TransferOK, JournalOK
  <1>5. PendingIsOver'
    BY DEF TransfersInv, PendingIsOver, Finish, NoRecord, LeftState, Outage, StrandedWith,
       Spent, TransferOK, JournalOK
  <1>6. ClaimIsHeld'
    BY DEF TransfersInv, ClaimIsHeld, Finish, NoRecord, LeftState, Outage, StrandedWith,
       Resting, Spent, PendingIsOver, JournalOK, CleanerOK
  <1>7. StrandedIsFree'
    BY DEF TransfersInv, StrandedIsFree, Finish, NoRecord, LeftState, Outage, StrandedWith,
       Resting, Spent, RunningIsActive, ClaimIsHeld, TransferOK, LeftoversOK, JournalOK
  <1>8. LeftoversAreOwned'
    BY DEF TransfersInv, LeftoversAreOwned, Finish, NoRecord, LeftState, Outage, StrandedWith,
       Spent, RunningIsActive, LeftoversOK, JournalOK
  <1>9. CleanerOK' /\ ClaimsDiffer'
    BY DEF TransfersInv, CleanerOK, ClaimsDiffer, Finish, LeftState, Outage, StrandedWith, Spent
  <1> QED
    BY <1>1, <1>2, <1>3, <1>4, <1>5, <1>6, <1>7, <1>8, <1>9 DEF TransfersInv

\* A stranded row is pending again,
LEMMA UnstrandKept ==
  ASSUME TransfersInv, NEW c \in Cleaners, NEW t \in Transfers, Unstrand(c, t)
  PROVE  TransfersInv'
  <1>1. LeftoversOK'
    BY DEF TransfersInv, LeftoversOK, Unstrand, Resting, NoRecord, Outage, Spent
  <1>2. JournalOK'
    BY DEF TransfersInv, JournalOK, Unstrand, Resting, NoRecord, Outage, Spent
  <1>3. RunningIsActive'
    BY DEF TransfersInv, RunningIsActive, Unstrand, Resting, NoRecord, Outage, CreatedFirst,
       Spent, StrandedIsFree, JournalOK
  <1>4. PendingIsOver'
    BY DEF TransfersInv, PendingIsOver, Unstrand, Resting, NoRecord, Outage, Spent,
       StrandedIsFree, JournalOK
  <1>5. ClaimIsHeld'
    BY DEF TransfersInv, ClaimIsHeld, Unstrand, Resting, NoRecord, Outage, Spent,
       StrandedIsFree, JournalOK, CleanerOK
  <1>6. StrandedIsFree'
    BY DEF TransfersInv, StrandedIsFree, Unstrand, Resting, NoRecord, Outage, Spent,
       LeftoversOK, JournalOK
  <1>7. LeftoversAreOwned'
    BY DEF TransfersInv, LeftoversAreOwned, Unstrand, Resting, NoRecord, Outage, Spent,
       LeftoversOK, JournalOK
  <1>8. TransferOK' /\ CleanerOK' /\ ClaimsDiffer'
    BY DEF TransfersInv, TransferOK, CleanerOK, ClaimsDiffer, Unstrand, Outage, Spent
  <1> QED
    BY <1>1, <1>2, <1>3, <1>4, <1>5, <1>6, <1>7, <1>8 DEF TransfersInv

\* a pending one is claimed by one cleaner,
LEMMA ClaimCleanupKept ==
  ASSUME TransfersInv, NEW c \in Cleaners, NEW t \in Transfers, ClaimCleanup(c, t)
  PROVE  TransfersInv'
  <1>1. JournalOK'
    BY DEF TransfersInv, JournalOK, ClaimCleanup, Resting, Claimable, NoRecord
  <1>2. CleanerOK'
    BY DEF TransfersInv, CleanerOK, ClaimCleanup, Resting, Claimable, CleanerRows, NoRecord
  <1>3. RunningIsActive'
    BY DEF TransfersInv, RunningIsActive, ClaimCleanup, Resting, Claimable, NoRecord,
       CreatedFirst
  <1>4. PendingIsOver'
    BY DEF TransfersInv, PendingIsOver, ClaimCleanup, Resting, Claimable, NoRecord
  <1>5. ClaimIsHeld'
    BY DEF TransfersInv, ClaimIsHeld, ClaimCleanup, Resting, Claimable, NoRecord, JournalOK
  <1>6. ClaimsDiffer'
    BY DEF TransfersInv, ClaimsDiffer, ClaimCleanup, Resting, Claimable, NoRecord, ClaimIsHeld
  <1>7. StrandedIsFree'
    BY DEF TransfersInv, StrandedIsFree, ClaimCleanup, Resting, Claimable, NoRecord
  <1>8. LeftoversAreOwned'
    BY DEF TransfersInv, LeftoversAreOwned, ClaimCleanup, Resting, Claimable, NoRecord
  <1>9. TransferOK' /\ LeftoversOK'
    BY DEF TransfersInv, TransferOK, LeftoversOK, ClaimCleanup, Claimable
  <1> QED
    BY <1>1, <1>2, <1>3, <1>4, <1>5, <1>6, <1>7, <1>8, <1>9 DEF TransfersInv

\* who removes the object
LEMMA ReclaimKept ==
  ASSUME TransfersInv, NEW c \in Cleaners, Reclaim(c)
  PROVE  TransfersInv'
  <1>1. LeftoversOK'
    BY DEF TransfersInv, LeftoversOK, Reclaim, TransferRefused, Spent
  <1>2. CleanerOK'
    BY DEF TransfersInv, CleanerOK, Reclaim, TransferRefused, CleanerRows, Resting, Spent, NoRecord
  <1>3. RunningIsActive'
    BY DEF TransfersInv, RunningIsActive, Reclaim, TransferRefused, NoRecord, CreatedFirst, Spent
  <1>4. ClaimIsHeld'
    BY DEF TransfersInv, ClaimIsHeld, Reclaim, TransferRefused, Resting, Spent, NoRecord, CleanerOK,
       CleanerRows
  <1>5. ClaimsDiffer'
    BY DEF TransfersInv, ClaimsDiffer, Reclaim, TransferRefused, Resting, Spent, NoRecord, CleanerOK,
       CleanerRows
  <1>6. StrandedIsFree'
    BY DEF TransfersInv, StrandedIsFree, Reclaim, TransferRefused, Resting, Spent, NoRecord, CleanerOK,
       CleanerRows
  <1>7. LeftoversAreOwned'
    BY DEF TransfersInv, LeftoversAreOwned, Reclaim, TransferRefused, NoRecord, Spent
  <1>8. TransferOK' /\ JournalOK' /\ PendingIsOver'
    BY DEF TransfersInv, TransferOK, JournalOK, PendingIsOver, Reclaim, TransferRefused, Spent
  <1> QED
    BY <1>1, <1>2, <1>3, <1>4, <1>5, <1>6, <1>7, <1>8 DEF TransfersInv

\* before the row.
LEMMA SaveCleanupKept ==
  ASSUME TransfersInv, NEW c \in Cleaners, SaveCleanup(c)
  PROVE  TransfersInv'
  <1>1. LeftoversOK'
    BY DEF TransfersInv, LeftoversOK, SaveCleanup, NoRecord, Outage, StrandedWith, Resting,
       Spent, CleanerOK
  <1>2. JournalOK'
    BY DEF TransfersInv, JournalOK, SaveCleanup, NoRecord, Outage, StrandedWith, Resting, Spent
  <1>3. CleanerOK'
    BY DEF TransfersInv, CleanerOK, SaveCleanup, NoRecord, Outage, StrandedWith, Resting,
       CleanerRows, Spent
  <1>4. RunningIsActive'
    BY DEF TransfersInv, RunningIsActive, SaveCleanup, NoRecord, Outage, StrandedWith, Resting,
       CreatedFirst, Spent, ClaimIsHeld, JournalOK
  <1>5. PendingIsOver'
    BY DEF TransfersInv, PendingIsOver, SaveCleanup, NoRecord, Outage, StrandedWith, Resting,
       Spent, ClaimIsHeld, JournalOK
  <1>6. ClaimIsHeld'
    BY DEF TransfersInv, ClaimIsHeld, SaveCleanup, NoRecord, Outage, StrandedWith, Resting,
       Spent, ClaimsDiffer, JournalOK, CleanerOK
  <1>7. ClaimsDiffer'
    BY DEF TransfersInv, ClaimsDiffer, SaveCleanup, NoRecord, Outage, StrandedWith, Resting,
       Spent
  <1>8. StrandedIsFree'
    BY DEF TransfersInv, StrandedIsFree, SaveCleanup, NoRecord, Outage, StrandedWith, Resting,
       Spent, PendingIsOver, ClaimIsHeld, ClaimsDiffer, LeftoversOK, JournalOK, CleanerOK
  <1>9. LeftoversAreOwned'
    BY DEF TransfersInv, LeftoversAreOwned, SaveCleanup, NoRecord, Outage, StrandedWith,
       Resting, Spent, ClaimIsHeld, LeftoversOK, JournalOK
  <1>10. TransferOK'
    BY DEF TransfersInv, TransferOK, SaveCleanup, NoRecord, Outage, StrandedWith, Resting, Spent
  <1> QED
    BY <1>1, <1>2, <1>3, <1>4, <1>5, <1>6, <1>7, <1>8, <1>9, <1>10 DEF TransfersInv

\* Time changes nothing;
LEMMA ReclaimComesDueKept ==
  ASSUME TransfersInv, NEW t \in Transfers, ReclaimComesDue(t)
  PROVE  TransfersInv'
  <1>1. /\ TransferOK' /\ LeftoversOK' /\ JournalOK' /\ CleanerOK' /\ RunningIsActive'
        /\ PendingIsOver' /\ ClaimIsHeld' /\ ClaimsDiffer' /\ StrandedIsFree'
        /\ LeftoversAreOwned'
    BY DEF TransfersInv, TransferOK, LeftoversOK, JournalOK, CleanerOK, RunningIsActive,
       PendingIsOver, ClaimIsHeld, ClaimsDiffer, StrandedIsFree, LeftoversAreOwned,
       ReclaimComesDue
  <1> QED
    BY <1>1 DEF TransfersInv

\* after a restart every transfer has ended, and no cleaner has a row.
LEMMA RestartTransfersKept ==
  ASSUME TransfersInv, RestartTransfers
  PROVE  TransfersInv'
  <1>1. TransferOK'
    BY DEF TransfersInv, TransferOK, RestartTransfers, Spent, NoRecord, Resting
  <1>2. LeftoversOK'
    BY DEF TransfersInv, LeftoversOK, RestartTransfers, Spent, NoRecord, Resting
  <1>3. JournalOK'
    BY DEF TransfersInv, JournalOK, RestartTransfers, Spent, NoRecord, Resting
  <1>4. CleanerOK'
    BY DEF TransfersInv, CleanerOK, RestartTransfers, Spent, NoRecord, Resting, CleanerRows
  <1>5. RunningIsActive'
    BY DEF TransfersInv, RunningIsActive, RestartTransfers, Spent, NoRecord, Resting,
       CreatedFirst
  <1>6. PendingIsOver'
    BY DEF TransfersInv, PendingIsOver, RestartTransfers, Spent, NoRecord, Resting,
       RunningIsActive
  <1>7. ClaimIsHeld'
    BY DEF TransfersInv, ClaimIsHeld, RestartTransfers, Spent, NoRecord, Resting
  <1>8. ClaimsDiffer'
    BY DEF TransfersInv, ClaimsDiffer, RestartTransfers, Spent, NoRecord, Resting
  <1>9. StrandedIsFree'
    BY DEF TransfersInv, StrandedIsFree, RestartTransfers, Spent, NoRecord, Resting
  <1>10. LeftoversAreOwned'
    BY DEF TransfersInv, LeftoversAreOwned, RestartTransfers, Spent, NoRecord, Resting,
       LeftoversOK
  <1> QED
    BY <1>1, <1>2, <1>3, <1>4, <1>5, <1>6, <1>7, <1>8, <1>9, <1>10 DEF TransfersInv

\* Nothing is written at first.
LEMMA InitTransfersInv == TransfersInit => TransfersInv
  <1> SUFFICES ASSUME TransfersInit PROVE TransfersInv
    OBVIOUS
  <1>1. TransferOK /\ LeftoversOK /\ JournalOK /\ CleanerOK
    BY DEF TransfersInit, TransferOK, LeftoversOK, JournalOK, CleanerOK, CleanerRows, Resting
  <1>2. /\ RunningIsActive /\ PendingIsOver /\ ClaimIsHeld /\ ClaimsDiffer /\ StrandedIsFree
        /\ LeftoversAreOwned
    BY DEF TransfersInit, RunningIsActive, PendingIsOver, ClaimIsHeld, ClaimsDiffer, StrandedIsFree,
       LeftoversAreOwned, NoRecord
  <1> QED
    BY <1>1, <1>2 DEF TransfersInv

\* Every step keeps the invariant.
LEMMA TransfersInvKept == TransfersInv /\ [TransfersNext]_transferVars => TransfersInv'
  <1> SUFFICES ASSUME TransfersInv, [TransfersNext]_transferVars PROVE TransfersInv'
    OBVIOUS
  <1>1. ASSUME NEW t \in Transfers, CreateMultipart(t) \/ TransferStep(t) \/ ReclaimComesDue(t)
        PROVE  TransfersInv'
    BY <1>1, CreateMultipartKept, TrackKept, WriteTemporaryKept, PublishKept, RemoveTemporaryKept,
       FinishKept, ReclaimComesDueKept DEF TransferStep
  <1>2. ASSUME NEW c \in Cleaners, CleanerStep(c) PROVE TransfersInv'
    BY <1>2, UnstrandKept, ClaimCleanupKept, ReclaimKept, SaveCleanupKept DEF CleanerStep
  <1>3. CASE UNCHANGED transferVars
    BY <1>3 DEF transferVars, TransfersInv, TransferOK, LeftoversOK, JournalOK, CleanerOK,
       RunningIsActive, PendingIsOver, ClaimIsHeld, ClaimsDiffer, StrandedIsFree, LeftoversAreOwned
  <1> QED
    BY <1>1, <1>2, <1>3, RestartTransfersKept DEF TransfersNext

\* Whatever exits, outages and refusals there are, a temporary object has a row that says where it is,
\* but for a multipart upload whose row comes after it, and a cleaner has the only claim on the
\* leftover of a transfer that is over.
THEOREM LeftoversStayHeld == TransfersSpec => []LeftoversAreHeld
  <1>1. TransfersInv => LeftoversAreHeld
    <2> SUFFICES ASSUME TransfersInv PROVE LeftoversAreOwned /\ OneOwnerOfTemporary
      BY DEF LeftoversAreHeld
    <2>1. ASSUME NEW c \in Cleaners, cleaner[c] # Resting
          PROVE  /\ transfer[cleaner[c].of] = "ended"
                 /\ \A d \in Cleaners \ {c} : cleaner[d].of # cleaner[c].of
      <3>1. cleaner[c].of \in Transfers /\ transfer[cleaner[c].of] = "ended"
        BY <2>1 DEF TransfersInv, CleanerOK, ClaimIsHeld, PendingIsOver
      <3>2. journal[cleaner[c].of] = "cleaning" /\ journal[cleaner[c].of] # NoRecord
        BY <2>1 DEF TransfersInv, ClaimIsHeld, NoRecord
      <3>3. ASSUME NEW d \in Cleaners \ {c}, cleaner[d].of = cleaner[c].of PROVE FALSE
        <4>1. CASE cleaner[d] # Resting
          BY <2>1, <3>3, <4>1 DEF TransfersInv, ClaimsDiffer
        <4>2. CASE cleaner[d] = Resting
          BY <3>1, <3>3, <4>2, TransfersAssumption DEF TransfersAssumption, Resting
        <4> QED
          BY <4>1, <4>2
      <3> QED
        BY <3>1, <3>3
    <2> QED
      BY <2>1 DEF TransfersInv, OneOwnerOfTemporary
  <1> QED
    BY <1>1, InitTransfersInv, TransfersInvKept, PTL DEF TransfersSpec

-----------------------------------------------------------------------------
(* A restore can be cut off anywhere (backup/full_restore.go).             *)

\* The generation of a whole library.
Generations == 0..MaxRestores

\* The bounds.
RestoreCountOK == restoreCount \in [restores : 0..MaxRestores, faults : Nat]

\* Before a restore is accepted and after it is completed, the library is in its place.
InPlace == dir["data"] \in Generations /\ (external => dir["downloads"] = dir["data"]) /\ archives = "data"
SettledInPlace == ~intent => InPlace

\* The server prepares, and cleans up, without an intent; the swap has one.
IntentIsHeld ==
  /\ step \in {"serve", "extract", "copy", "mark", "link", "clean"} => ~intent
  /\ step \in {"stop", "media", "mediaAside", "mediaIn", "data", "preserve", "dataIn", "done",
               "exited"} => intent

\* What is staged is whole when the intent is published.
StagedIsWhole ==
  /\ step \in {"copy", "mark"} => external
  /\ step \in {"copy", "mark", "link"} =>
       dir["stage"] \in Generations /\ dir["dataRollback"] = Absent /\ dir["downloadsRollback"] = Absent
  /\ step \in {"mark", "link"} /\ external => dir["downloadsStage"] = dir["stage"]
  /\ step = "link" /\ external => ready

\* The data directory: staged beside the old one, the old one aside, or the new one in its place.
DataStaged == {dir["stage"], dir["data"]} \subseteq Generations /\ dir["dataRollback"] = Absent
              /\ archives = "data"
DataAsideNow == {dir["stage"], dir["dataRollback"]} \subseteq Generations /\ dir["data"] = Absent
                /\ archives \in {"dataRollback", "stage"}
DataInPlace == dir["stage"] = Absent /\ dir["data"] \in Generations /\ archives = "data"

\* The media that are kept apart go first.
MediaStaged == DataStaged /\ dir["downloadsStage"] = dir["stage"] /\ dir["downloads"] = dir["data"]
               /\ dir["downloadsRollback"] = Absent
MediaAsideNow == DataStaged /\ ~ready /\ dir["downloadsStage"] = dir["stage"] /\ dir["downloads"] = Absent
                 /\ dir["downloadsRollback"] = dir["data"]
MediaInPlace == dir["downloadsStage"] = Absent
                /\ dir["downloads"] = (IF DataInPlace THEN dir["data"] ELSE dir["stage"])

SwapIsInOrder == intent =>
  /\ DataStaged \/ DataAsideNow \/ DataInPlace
  /\ external => MediaStaged \/ MediaAsideNow \/ MediaInPlace

\* Where a step of the swap finds the directories.
StepsAreInOrder ==
  /\ step \in {"media", "mediaAside", "mediaIn"} => external
  /\ step = "mediaAside" => MediaStaged /\ ~ready
  /\ step = "mediaIn" => MediaAsideNow
  /\ step \in {"data", "preserve", "dataIn", "done"} => (external => MediaInPlace)
  /\ step \in {"preserve", "dataIn"} => DataAsideNow
  /\ step = "dataIn" => archives = "stage"
  /\ step = "done" => DataInPlace

RestoreInv ==
  /\ RestoreTypeOK /\ RestoreCountOK /\ SettledInPlace /\ IntentIsHeld /\ StagedIsWhole
  /\ SwapIsInOrder /\ StepsAreInOrder


\* A restore begins with the library in its place,
LEMMA BeginRestoreKept ==
  ASSUME RestoreInv, BeginRestore
  PROVE  RestoreInv'
  <1>1. RestoreTypeOK'
    BY DEF RestoreInv, RestoreTypeOK, BeginRestore, Goto, Dirs, Absent, Partial
  <1>2. RestoreCountOK'
    BY RestoreAssumption DEF RestoreInv, RestoreCountOK, BeginRestore, Goto, RestoreAssumption
  <1>3. IntentIsHeld'
    BY DEF RestoreInv, IntentIsHeld, BeginRestore, Goto
  <1>4. StagedIsWhole'
    BY DEF RestoreInv, StagedIsWhole, BeginRestore, Goto, Generations, Absent
  <1>5. StepsAreInOrder'
    BY DEF RestoreInv, StepsAreInOrder, BeginRestore, Goto, MediaStaged, MediaAsideNow,
       MediaInPlace, DataAsideNow, DataInPlace, DataStaged, Absent, Generations
  <1>6. SettledInPlace' /\ SwapIsInOrder'
    BY DEF RestoreInv, SettledInPlace, SwapIsInOrder, BeginRestore, Goto, InPlace, DataStaged,
       DataAsideNow, DataInPlace, MediaStaged, MediaAsideNow, MediaInPlace
  <1> QED
    BY <1>1, <1>2, <1>3, <1>4, <1>5, <1>6 DEF RestoreInv

\* stages another beside it,
LEMMA ExtractKept ==
  ASSUME RestoreInv, Extract
  PROVE  RestoreInv'
  <1>1. RestoreTypeOK'
    BY DEF RestoreInv, RestoreTypeOK, Extract, Absent, Goto, Dirs, Partial, RestoreCountOK
  <1>2. SettledInPlace'
    BY DEF RestoreInv, SettledInPlace, Extract, Absent, Goto, InPlace, Generations,
       RestoreTypeOK, Dirs
  <1>3. IntentIsHeld'
    BY DEF RestoreInv, IntentIsHeld, Extract, Absent, Goto
  <1>4. StagedIsWhole'
    BY DEF RestoreInv, StagedIsWhole, Extract, Absent, Goto, Generations, RestoreTypeOK,
       RestoreCountOK, Dirs
  <1>5. SwapIsInOrder'
    BY DEF RestoreInv, SwapIsInOrder, Extract, Absent, Goto, DataStaged, DataAsideNow,
       DataInPlace, MediaStaged, MediaAsideNow, MediaInPlace, Generations, IntentIsHeld
  <1>6. StepsAreInOrder'
    BY DEF RestoreInv, StepsAreInOrder, Extract, Absent, Goto, MediaStaged, MediaAsideNow,
       MediaInPlace, DataAsideNow, DataInPlace, DataStaged, Generations
  <1>7. RestoreCountOK'
    BY DEF RestoreInv, RestoreCountOK, Extract, Absent, Goto
  <1> QED
    BY <1>1, <1>2, <1>3, <1>4, <1>5, <1>6, <1>7 DEF RestoreInv

\* and the media, if they are kept apart,
LEMMA CopyMediaKept ==
  ASSUME RestoreInv, CopyMedia
  PROVE  RestoreInv'
  <1>1. RestoreTypeOK'
    BY DEF RestoreInv, RestoreTypeOK, CopyMedia, Absent, Partial, Copied, Goto, Dirs
  <1>2. SettledInPlace'
    BY DEF RestoreInv, SettledInPlace, CopyMedia, Absent, Partial, Copied, Goto, InPlace,
       Generations
  <1>3. IntentIsHeld'
    BY DEF RestoreInv, IntentIsHeld, CopyMedia, Absent, Partial, Copied, Goto
  <1>4. StagedIsWhole'
    BY DEF RestoreInv, StagedIsWhole, CopyMedia, Absent, Partial, Copied, Goto, Generations,
       RestoreTypeOK, Dirs
  <1>5. SwapIsInOrder'
    BY DEF RestoreInv, SwapIsInOrder, CopyMedia, Absent, Partial, Copied, Goto, DataStaged,
       DataAsideNow, DataInPlace, MediaStaged, MediaAsideNow, MediaInPlace, Generations,
       IntentIsHeld
  <1>6. StepsAreInOrder'
    BY DEF RestoreInv, StepsAreInOrder, CopyMedia, Absent, Partial, Copied, Goto, MediaStaged,
       MediaAsideNow, MediaInPlace, DataAsideNow, DataInPlace, DataStaged, Generations
  <1>7. RestoreCountOK'
    BY DEF RestoreInv, RestoreCountOK, CopyMedia, Absent, Partial, Copied, Goto
  <1> QED
    BY <1>1, <1>2, <1>3, <1>4, <1>5, <1>6, <1>7 DEF RestoreInv

\* which are marked when they are whole;
LEMMA MarkReadyKept ==
  ASSUME RestoreInv, MarkReady
  PROVE  RestoreInv'
  <1>1. RestoreTypeOK'
    BY DEF RestoreInv, RestoreTypeOK, MarkReady, Goto, Dirs, Absent, Partial
  <1>2. IntentIsHeld'
    BY DEF RestoreInv, IntentIsHeld, MarkReady, Goto
  <1>3. StagedIsWhole'
    BY DEF RestoreInv, StagedIsWhole, MarkReady, Goto, Generations, Absent
  <1>4. SwapIsInOrder'
    BY DEF RestoreInv, SwapIsInOrder, MarkReady, Goto, DataStaged, DataAsideNow, DataInPlace,
       MediaStaged, MediaAsideNow, MediaInPlace, Generations, Absent, StagedIsWhole
  <1>5. StepsAreInOrder'
    BY DEF RestoreInv, StepsAreInOrder, MarkReady, Goto, MediaStaged, MediaAsideNow,
       MediaInPlace, DataAsideNow, DataInPlace, DataStaged, Absent, Generations
  <1>6. RestoreCountOK' /\ SettledInPlace'
    BY DEF RestoreInv, RestoreCountOK, SettledInPlace, MarkReady, Goto, InPlace
  <1> QED
    BY <1>1, <1>2, <1>3, <1>4, <1>5, <1>6 DEF RestoreInv

\* the intent is of a whole stage.
LEMMA PublishIntentKept ==
  ASSUME RestoreInv, PublishIntent
  PROVE  RestoreInv'
  <1>1. RestoreTypeOK'
    BY DEF RestoreInv, RestoreTypeOK, PublishIntent, Goto, Dirs, Absent, Partial
  <1>2. SettledInPlace'
    BY DEF RestoreInv, SettledInPlace, PublishIntent, Goto, InPlace, Generations
  <1>3. IntentIsHeld'
    BY DEF RestoreInv, IntentIsHeld, PublishIntent, Goto
  <1>4. StagedIsWhole'
    BY DEF RestoreInv, StagedIsWhole, PublishIntent, Goto, Generations, Absent
  <1>5. SwapIsInOrder'
    BY DEF RestoreInv, SwapIsInOrder, PublishIntent, Goto, DataStaged, DataAsideNow,
       DataInPlace, MediaStaged, MediaAsideNow, MediaInPlace, Generations, Absent,
       SettledInPlace, StagedIsWhole, InPlace
  <1>6. StepsAreInOrder'
    BY DEF RestoreInv, StepsAreInOrder, PublishIntent, Goto, MediaStaged, MediaAsideNow,
       MediaInPlace, DataAsideNow, DataInPlace, DataStaged, Absent, Generations
  <1>7. RestoreCountOK'
    BY DEF RestoreInv, RestoreCountOK, PublishIntent, Goto
  <1> QED
    BY <1>1, <1>2, <1>3, <1>4, <1>5, <1>6, <1>7 DEF RestoreInv

\* What fails before leaves the library alone.
LEMMA PrepareRestoreFailsKept ==
  ASSUME RestoreInv, PrepareRestoreFails
  PROVE  RestoreInv'
  <1>1. RestoreTypeOK'
    <2>1. RestoreTypeOK
      BY DEF RestoreInv
    <2>2. dir' \in [Dirs -> {Absent, Partial} \cup 0..MaxRestores]
      BY <2>1 DEF PrepareRestoreFails, RestoreTypeOK, Dirs
    <2>3. dir'["data"] = dir["data"] /\ dir'["stage"] = Absent /\ dir'["downloads"] = dir["downloads"]
      BY <2>1 DEF PrepareRestoreFails, RestoreTypeOK, Dirs
    <2>4. \A d \in {"data", "stage", "downloads"} : dir'[d] # Partial
      BY <2>1, <2>3 DEF RestoreTypeOK, Partial, Absent
    <2> QED
      BY <2>1, <2>2, <2>4 DEF RestoreTypeOK, PrepareRestoreFails, Goto
  <1>2. RestoreCountOK'
    BY DEF RestoreInv, RestoreCountOK, PrepareRestoreFails, Absent, Goto
  <1>3. SettledInPlace'
    BY DEF RestoreInv, SettledInPlace, PrepareRestoreFails, Absent, Goto, InPlace, Generations,
       RestoreTypeOK, Dirs
  <1>4. IntentIsHeld'
    BY DEF RestoreInv, IntentIsHeld, PrepareRestoreFails, Absent, Goto
  <1>5. StagedIsWhole'
    BY DEF RestoreInv, StagedIsWhole, PrepareRestoreFails, Absent, Goto, Generations
  <1>6. SwapIsInOrder'
    BY DEF RestoreInv, SwapIsInOrder, PrepareRestoreFails, Absent, Goto, DataStaged, DataAsideNow,
       DataInPlace, MediaStaged, MediaAsideNow, MediaInPlace, Generations, IntentIsHeld
  <1>7. StepsAreInOrder'
    BY DEF RestoreInv, StepsAreInOrder, PrepareRestoreFails, Absent, Goto, MediaStaged, MediaAsideNow,
       MediaInPlace, DataAsideNow, DataInPlace, DataStaged, Generations
  <1> QED
    BY <1>1, <1>2, <1>3, <1>4, <1>5, <1>6, <1>7 DEF RestoreInv

\* The swap begins when the server has stopped,
LEMMA StopServerKept ==
  ASSUME RestoreInv, StopServer
  PROVE  RestoreInv'
  <1>1. RestoreTypeOK'
    BY DEF RestoreInv, RestoreTypeOK, StopServer, Goto, Dirs, Absent, Partial
  <1>2. IntentIsHeld'
    BY DEF RestoreInv, IntentIsHeld, StopServer, Goto
  <1>3. StagedIsWhole'
    BY DEF RestoreInv, StagedIsWhole, StopServer, Goto, Generations, Absent
  <1>4. StepsAreInOrder'
    BY DEF RestoreInv, StepsAreInOrder, StopServer, Goto, MediaStaged, MediaAsideNow,
       MediaInPlace, DataAsideNow, DataInPlace, DataStaged, Absent, Generations
  <1>5. RestoreCountOK' /\ SettledInPlace' /\ SwapIsInOrder'
    BY DEF RestoreInv, RestoreCountOK, SettledInPlace, SwapIsInOrder, StopServer, Goto, InPlace,
       DataStaged, DataAsideNow, DataInPlace, MediaStaged, MediaAsideNow, MediaInPlace
  <1> QED
    BY <1>1, <1>2, <1>3, <1>4, <1>5 DEF RestoreInv

\* or at a start.
LEMMA ActivateKept ==
  ASSUME RestoreInv, Activate
  PROVE  RestoreInv'
  <1>1. RestoreTypeOK'
    BY DEF RestoreInv, RestoreTypeOK, Activate, Goto, Dirs, Absent, Partial
  <1>2. IntentIsHeld'
    BY DEF RestoreInv, IntentIsHeld, Activate, Goto
  <1>3. StagedIsWhole'
    BY DEF RestoreInv, StagedIsWhole, Activate, Goto, Generations, Absent
  <1>4. StepsAreInOrder'
    BY DEF RestoreInv, StepsAreInOrder, Activate, Goto, MediaStaged, MediaAsideNow,
       MediaInPlace, DataAsideNow, DataInPlace, DataStaged, Absent, Generations
  <1>5. RestoreCountOK' /\ SettledInPlace' /\ SwapIsInOrder'
    BY DEF RestoreInv, RestoreCountOK, SettledInPlace, SwapIsInOrder, Activate, Goto, InPlace,
       DataStaged, DataAsideNow, DataInPlace, MediaStaged, MediaAsideNow, MediaInPlace
  <1> QED
    BY <1>1, <1>2, <1>3, <1>4, <1>5 DEF RestoreInv

\* The media go first:
LEMMA TakeMarkerKept ==
  ASSUME RestoreInv, TakeMarker
  PROVE  RestoreInv'
  <1>1. RestoreTypeOK'
    BY DEF RestoreInv, RestoreTypeOK, TakeMarker, Absent, Goto, WithoutMarker, Dirs, Partial
  <1>2. IntentIsHeld'
    BY DEF RestoreInv, IntentIsHeld, TakeMarker, Absent, Goto, WithoutMarker
  <1>3. StagedIsWhole'
    BY DEF RestoreInv, StagedIsWhole, TakeMarker, Absent, Goto, WithoutMarker, Generations
  <1>4. SwapIsInOrder'
    BY DEF RestoreInv, SwapIsInOrder, TakeMarker, Absent, Goto, WithoutMarker, DataStaged,
       DataAsideNow, DataInPlace, MediaStaged, MediaAsideNow, MediaInPlace, Generations
  <1>5. StepsAreInOrder'
    BY DEF RestoreInv, StepsAreInOrder, TakeMarker, Absent, Goto, WithoutMarker, MediaStaged,
       MediaAsideNow, MediaInPlace, DataAsideNow, DataInPlace, DataStaged, Generations,
       IntentIsHeld, SwapIsInOrder
  <1>6. RestoreCountOK' /\ SettledInPlace'
    BY DEF RestoreInv, RestoreCountOK, SettledInPlace, TakeMarker, Goto, InPlace
  <1> QED
    BY <1>1, <1>2, <1>3, <1>4, <1>5, <1>6 DEF RestoreInv

\* the old ones aside,
LEMMA MediaAsideKept ==
  ASSUME RestoreInv, MediaAside
  PROVE  RestoreInv'
  <1>1. RestoreTypeOK'
    BY DEF RestoreInv, RestoreTypeOK, MediaAside, Absent, Moved, Goto, Dirs, Partial
  <1>2. SettledInPlace'
    BY DEF RestoreInv, SettledInPlace, MediaAside, Absent, Moved, Goto, InPlace, Generations,
       IntentIsHeld
  <1>3. IntentIsHeld'
    BY DEF RestoreInv, IntentIsHeld, MediaAside, Absent, Moved, Goto
  <1>4. StagedIsWhole'
    BY DEF RestoreInv, StagedIsWhole, MediaAside, Absent, Moved, Goto, Generations
  <1>5. SwapIsInOrder'
    BY DEF RestoreInv, SwapIsInOrder, MediaAside, Absent, Moved, Goto, DataStaged, DataAsideNow,
       DataInPlace, MediaStaged, MediaAsideNow, MediaInPlace, Generations, StepsAreInOrder,
       RestoreTypeOK, Dirs
  <1>6. StepsAreInOrder'
    BY DEF RestoreInv, StepsAreInOrder, MediaAside, Absent, Moved, Goto, MediaStaged,
       MediaAsideNow, MediaInPlace, DataAsideNow, DataInPlace, DataStaged, Generations,
       RestoreTypeOK, Dirs
  <1>7. RestoreCountOK'
    BY DEF RestoreInv, RestoreCountOK, MediaAside, Absent, Moved, Goto
  <1> QED
    BY <1>1, <1>2, <1>3, <1>4, <1>5, <1>6, <1>7 DEF RestoreInv

\* the new ones in;
LEMMA MediaInKept ==
  ASSUME RestoreInv, MediaIn
  PROVE  RestoreInv'
  <1>1. RestoreTypeOK'
    <2>1. RestoreTypeOK /\ dir["downloads"] = Absent /\ dir["downloadsStage"] \in 0..MaxRestores
      BY DEF RestoreInv, MediaIn, StepsAreInOrder, MediaAsideNow, DataStaged, Generations
    <2>2. dir' \in [Dirs -> {Absent, Partial} \cup 0..MaxRestores]
      BY <2>1 DEF MediaIn, Moved, RestoreTypeOK, Dirs
    <2>3. /\ dir'["data"] = dir["data"] /\ dir'["stage"] = dir["stage"]
          /\ dir'["downloads"] = dir["downloadsStage"]
      BY <2>1 DEF MediaIn, Moved, RestoreTypeOK, Dirs
    <2>4. \A d \in {"data", "stage", "downloads"} : dir'[d] # Partial
      BY <2>1, <2>3 DEF RestoreTypeOK, Partial
    <2> QED
      BY <2>1, <2>2, <2>4 DEF RestoreTypeOK, MediaIn, Goto
  <1>2. SettledInPlace'
    BY DEF RestoreInv, SettledInPlace, MediaIn, Absent, Moved, Goto, InPlace, Generations,
       RestoreTypeOK, Dirs
  <1>3. IntentIsHeld'
    BY DEF RestoreInv, IntentIsHeld, MediaIn, Absent, Moved, Goto
  <1>4. StagedIsWhole'
    BY DEF RestoreInv, StagedIsWhole, MediaIn, Absent, Moved, Goto, Generations
  <1>5. SwapIsInOrder'
    BY DEF RestoreInv, SwapIsInOrder, MediaIn, Absent, Moved, Goto, DataStaged, DataAsideNow,
       DataInPlace, MediaStaged, MediaAsideNow, MediaInPlace, Generations, RestoreTypeOK, Dirs
  <1>6. StepsAreInOrder'
    BY DEF RestoreInv, StepsAreInOrder, MediaIn, Absent, Moved, Goto, MediaStaged,
       MediaAsideNow, MediaInPlace, DataAsideNow, DataInPlace, DataStaged, Generations,
       RestoreTypeOK, Dirs
  <1>7. RestoreCountOK'
    BY DEF RestoreInv, RestoreCountOK, MediaIn, Absent, Moved, Goto
  <1> QED
    BY <1>1, <1>2, <1>3, <1>4, <1>5, <1>6, <1>7 DEF RestoreInv

\* then the old data aside,
LEMMA DataAsideKept ==
  ASSUME RestoreInv, DataAside
  PROVE  RestoreInv'
  <1>1. RestoreTypeOK'
    BY DEF RestoreInv, RestoreTypeOK, DataAside, Absent, Goto, FirstAttempt, Moved, Dirs,
       Partial
  <1>2. SettledInPlace'
    BY DEF RestoreInv, SettledInPlace, DataAside, Absent, Goto, FirstAttempt, Moved, InPlace,
       Generations, IntentIsHeld
  <1>3. IntentIsHeld'
    BY DEF RestoreInv, IntentIsHeld, DataAside, Absent, Goto, FirstAttempt, Moved
  <1>4. StagedIsWhole'
    BY DEF RestoreInv, StagedIsWhole, DataAside, Absent, Goto, FirstAttempt, Moved, Generations
  <1>5. SwapIsInOrder'
    BY DEF RestoreInv, SwapIsInOrder, DataAside, Absent, Goto, FirstAttempt, Moved, DataStaged,
       DataAsideNow, DataInPlace, MediaStaged, MediaAsideNow, MediaInPlace, Generations,
       StepsAreInOrder, RestoreTypeOK, Dirs
  <1>6. StepsAreInOrder'
    BY DEF RestoreInv, StepsAreInOrder, DataAside, Absent, Goto, FirstAttempt, Moved,
       MediaStaged, MediaAsideNow, MediaInPlace, DataAsideNow, DataInPlace, DataStaged,
       Generations, IntentIsHeld, SwapIsInOrder, RestoreTypeOK, Dirs
  <1>7. RestoreCountOK'
    BY DEF RestoreInv, RestoreCountOK, DataAside, Absent, Goto, FirstAttempt, Moved
  <1> QED
    BY <1>1, <1>2, <1>3, <1>4, <1>5, <1>6, <1>7 DEF RestoreInv

\* the backups into the stage,
LEMMA PreserveBackupsKept ==
  ASSUME RestoreInv, PreserveBackups
  PROVE  RestoreInv'
  <1>1. RestoreTypeOK'
    BY DEF RestoreInv, RestoreTypeOK, PreserveBackups, PreservedIn, Goto, AfterPreserve, Dirs,
       Absent, Partial
  <1>2. SettledInPlace'
    BY DEF RestoreInv, SettledInPlace, PreserveBackups, PreservedIn, Goto, AfterPreserve,
       InPlace, Generations
  <1>3. IntentIsHeld'
    BY DEF RestoreInv, IntentIsHeld, PreserveBackups, PreservedIn, Goto, AfterPreserve
  <1>4. StagedIsWhole'
    BY DEF RestoreInv, StagedIsWhole, PreserveBackups, PreservedIn, Goto, AfterPreserve,
       Generations, Absent
  <1>5. SwapIsInOrder'
    BY DEF RestoreInv, SwapIsInOrder, PreserveBackups, PreservedIn, Goto, AfterPreserve,
       DataStaged, DataAsideNow, DataInPlace, MediaStaged, MediaAsideNow, MediaInPlace,
       Generations, Absent
  <1>6. StepsAreInOrder'
    BY DEF RestoreInv, StepsAreInOrder, PreserveBackups, PreservedIn, Goto, AfterPreserve,
       MediaStaged, MediaAsideNow, MediaInPlace, DataAsideNow, DataInPlace, DataStaged, Absent,
       Generations
  <1>7. RestoreCountOK'
    BY DEF RestoreInv, RestoreCountOK, PreserveBackups, PreservedIn, Goto, AfterPreserve
  <1> QED
    BY <1>1, <1>2, <1>3, <1>4, <1>5, <1>6, <1>7 DEF RestoreInv

\* and the stage in its place.
LEMMA DataInKept ==
  ASSUME RestoreInv, DataIn
  PROVE  RestoreInv'
  <1>1. RestoreTypeOK'
    BY DEF RestoreInv, RestoreTypeOK, DataIn, Absent, Moved, Goto, Dirs, Partial
  <1>2. SettledInPlace'
    BY DEF RestoreInv, SettledInPlace, DataIn, Absent, Moved, Goto, InPlace, Generations
  <1>3. IntentIsHeld'
    BY DEF RestoreInv, IntentIsHeld, DataIn, Absent, Moved, Goto
  <1>4. StagedIsWhole'
    BY DEF RestoreInv, StagedIsWhole, DataIn, Absent, Moved, Goto, Generations
  <1>5. SwapIsInOrder'
    BY DEF RestoreInv, SwapIsInOrder, DataIn, Absent, Moved, Goto, DataStaged, DataAsideNow,
       DataInPlace, MediaStaged, MediaAsideNow, MediaInPlace, Generations, StepsAreInOrder,
       RestoreTypeOK, Dirs
  <1>6. StepsAreInOrder'
    BY DEF RestoreInv, StepsAreInOrder, DataIn, Absent, Moved, Goto, MediaStaged, MediaAsideNow,
       MediaInPlace, DataAsideNow, DataInPlace, DataStaged, Generations, RestoreTypeOK, Dirs
  <1>7. RestoreCountOK'
    BY DEF RestoreInv, RestoreCountOK, DataIn, Absent, Moved, Goto
  <1> QED
    BY <1>1, <1>2, <1>3, <1>4, <1>5, <1>6, <1>7 DEF RestoreInv

\* The intent goes when all is in its place,
LEMMA RemoveIntentKept ==
  ASSUME RestoreInv, RemoveIntent
  PROVE  RestoreInv'
  <1>1. RestoreTypeOK'
    BY DEF RestoreInv, RestoreTypeOK, RemoveIntent, Goto, Dirs, Absent, Partial
  <1>2. SettledInPlace'
    BY DEF RestoreInv, SettledInPlace, RemoveIntent, Goto, InPlace, Generations,
       StepsAreInOrder, DataInPlace, MediaInPlace
  <1>3. IntentIsHeld'
    BY DEF RestoreInv, IntentIsHeld, RemoveIntent, Goto
  <1>4. StagedIsWhole'
    BY DEF RestoreInv, StagedIsWhole, RemoveIntent, Goto, Generations, Absent
  <1>5. SwapIsInOrder'
    BY DEF RestoreInv, SwapIsInOrder, RemoveIntent, Goto, DataStaged, DataAsideNow, DataInPlace,
       MediaStaged, MediaAsideNow, MediaInPlace, Generations, Absent
  <1>6. StepsAreInOrder'
    BY DEF RestoreInv, StepsAreInOrder, RemoveIntent, Goto, MediaStaged, MediaAsideNow,
       MediaInPlace, DataAsideNow, DataInPlace, DataStaged, Absent, Generations
  <1>7. RestoreCountOK'
    BY DEF RestoreInv, RestoreCountOK, RemoveIntent, Goto
  <1> QED
    BY <1>1, <1>2, <1>3, <1>4, <1>5, <1>6, <1>7 DEF RestoreInv

\* and what is removed then is the old library.
LEMMA CleanRollbackKept ==
  ASSUME RestoreInv, CleanRollback
  PROVE  RestoreInv'
  <1>1. RestoreTypeOK'
    BY DEF RestoreInv, RestoreTypeOK, CleanRollback, Absent, Goto, Partial, Dirs
  <1>2. SettledInPlace'
    BY DEF RestoreInv, SettledInPlace, CleanRollback, Absent, Goto, Partial, InPlace,
       Generations, RestoreTypeOK, Dirs
  <1>3. IntentIsHeld'
    BY DEF RestoreInv, IntentIsHeld, CleanRollback, Absent, Goto, Partial
  <1>4. StagedIsWhole'
    BY DEF RestoreInv, StagedIsWhole, CleanRollback, Absent, Goto, Partial, Generations
  <1>5. SwapIsInOrder'
    BY DEF RestoreInv, SwapIsInOrder, CleanRollback, Absent, Goto, Partial, DataStaged,
       DataAsideNow, DataInPlace, MediaStaged, MediaAsideNow, MediaInPlace, Generations,
       IntentIsHeld
  <1>6. StepsAreInOrder'
    BY DEF RestoreInv, StepsAreInOrder, CleanRollback, Absent, Goto, Partial, MediaStaged,
       MediaAsideNow, MediaInPlace, DataAsideNow, DataInPlace, DataStaged, Generations
  <1>7. RestoreCountOK'
    BY DEF RestoreInv, RestoreCountOK, CleanRollback, Absent, Goto, Partial
  <1> QED
    BY <1>1, <1>2, <1>3, <1>4, <1>5, <1>6, <1>7 DEF RestoreInv

\* An exit leaves the directories as they are.
LEMMA ExitKept ==
  ASSUME RestoreInv, Exit
  PROVE  RestoreInv'
  <1>1. RestoreTypeOK'
    BY DEF RestoreInv, RestoreTypeOK, Exit, Goto, Dirs, Absent, Partial
  <1>2. RestoreCountOK'
    BY DEF RestoreInv, RestoreCountOK, Exit, Goto
  <1>3. IntentIsHeld'
    BY DEF RestoreInv, IntentIsHeld, Exit, Goto
  <1>4. StagedIsWhole'
    BY DEF RestoreInv, StagedIsWhole, Exit, Goto, Generations, Absent
  <1>5. StepsAreInOrder'
    BY DEF RestoreInv, StepsAreInOrder, Exit, Goto, MediaStaged, MediaAsideNow, MediaInPlace,
       DataAsideNow, DataInPlace, DataStaged, Absent, Generations
  <1>6. SettledInPlace' /\ SwapIsInOrder'
    BY DEF RestoreInv, SettledInPlace, SwapIsInOrder, Exit, Goto, InPlace, DataStaged,
       DataAsideNow, DataInPlace, MediaStaged, MediaAsideNow, MediaInPlace
  <1> QED
    BY <1>1, <1>2, <1>3, <1>4, <1>5, <1>6 DEF RestoreInv

\* So does a start.
LEMMA StartAgainKept ==
  ASSUME RestoreInv, StartAgain
  PROVE  RestoreInv'
  <1>1. RestoreTypeOK'
    BY DEF RestoreInv, RestoreTypeOK, StartAgain, Goto, Dirs, Absent, Partial
  <1>2. IntentIsHeld'
    BY DEF RestoreInv, IntentIsHeld, StartAgain, Goto
  <1>3. StagedIsWhole'
    BY DEF RestoreInv, StagedIsWhole, StartAgain, Goto, Generations, Absent
  <1>4. StepsAreInOrder'
    BY DEF RestoreInv, StepsAreInOrder, StartAgain, Goto, MediaStaged, MediaAsideNow,
       MediaInPlace, DataAsideNow, DataInPlace, DataStaged, Absent, Generations
  <1>5. RestoreCountOK' /\ SettledInPlace' /\ SwapIsInOrder'
    BY DEF RestoreInv, RestoreCountOK, SettledInPlace, SwapIsInOrder, StartAgain, Goto, InPlace,
       DataStaged, DataAsideNow, DataInPlace, MediaStaged, MediaAsideNow, MediaInPlace
  <1> QED
    BY <1>1, <1>2, <1>3, <1>4, <1>5 DEF RestoreInv

\* The first library is in its place.
LEMMA InitRestoreInv == RestoreInit => RestoreInv
  <1> SUFFICES ASSUME RestoreInit PROVE RestoreInv
    OBVIOUS
  <1>1. /\ dir["data"] = 0 /\ dir["downloads"] = 0 /\ dir["stage"] = Absent
        /\ dir \in [Dirs -> {Absent, 0}]
    BY DEF RestoreInit, Dirs
  <1>2. 0 \in 0..MaxRestores /\ Absent # Partial
    BY RestoreAssumption DEF RestoreAssumption, Absent, Partial
  <1>3. RestoreTypeOK
    <2>1. dir \in [Dirs -> {Absent, Partial} \cup 0..MaxRestores]
      BY <1>1, <1>2
    <2>2. \A d \in {"data", "stage", "downloads"} : dir[d] # Partial
      BY <1>1, <1>2 DEF Partial
    <2> QED
      BY <2>1, <2>2 DEF RestoreInit, RestoreTypeOK
  <1>6. RestoreCountOK
    BY <1>2 DEF RestoreInit, RestoreCountOK
  <1>4. SettledInPlace
    BY <1>1, <1>2 DEF RestoreInit, SettledInPlace, InPlace, Generations
  <1>5. IntentIsHeld /\ StagedIsWhole /\ SwapIsInOrder /\ StepsAreInOrder
    BY DEF RestoreInit, IntentIsHeld, StagedIsWhole, SwapIsInOrder, StepsAreInOrder
  <1> QED
    BY <1>3, <1>6, <1>4, <1>5 DEF RestoreInv

\* Every step keeps the invariant.
LEMMA RestoreInvKept == RestoreInv /\ [RestoreNext]_restoreVars => RestoreInv'
  <1> SUFFICES ASSUME RestoreInv, [RestoreNext]_restoreVars PROVE RestoreInv'
    OBVIOUS
  <1>1. ASSUME RestoreStep PROVE RestoreInv'
    BY <1>1, ExtractKept, CopyMediaKept, MarkReadyKept, PublishIntentKept, StopServerKept, ActivateKept,
       TakeMarkerKept, MediaAsideKept, MediaInKept, DataAsideKept, PreserveBackupsKept, DataInKept,
       RemoveIntentKept, CleanRollbackKept, StartAgainKept DEF RestoreStep
  <1>2. CASE UNCHANGED restoreVars
    BY <1>2 DEF restoreVars, RestoreInv, RestoreTypeOK, RestoreCountOK, SettledInPlace, InPlace,
       IntentIsHeld, StagedIsWhole, SwapIsInOrder, StepsAreInOrder, DataStaged, DataAsideNow,
       DataInPlace, MediaStaged, MediaAsideNow, MediaInPlace
  <1> QED
    BY <1>1, <1>2, BeginRestoreKept, PrepareRestoreFailsKept, ExitKept DEF RestoreNext

\* Wherever a restore is cut off, the server serves a library whose media are its own, one library is
\* whole on the disk, and the backups made before are kept.
THEOREM RestoreStaysSafe == RestoreSpec => []RestoreIsSafe
  <1>1. RestoreInv => RestoreIsSafe
    <2> SUFFICES ASSUME RestoreInv PROVE ServesOneLibrary /\ ALibraryIsWhole /\ BackupsAreKept
      BY DEF RestoreIsSafe
    <2>1. ServesOneLibrary
      BY DEF RestoreInv, ServesOneLibrary, IntentIsHeld, SettledInPlace, InPlace, Generations
    <2>2. BackupsAreKept
      BY DEF RestoreInv, BackupsAreKept, IntentIsHeld, SettledInPlace, InPlace, SwapIsInOrder,
         DataStaged, DataAsideNow, DataInPlace
    <2>3. ALibraryIsWhole
      <3>1. CASE ~intent
        <4>1. dir["data"] \in 0..MaxRestores /\ Whole(dir["data"])
          BY <3>1 DEF RestoreInv, SettledInPlace, InPlace, Generations, Whole
        <4> QED
          BY <4>1 DEF ALibraryIsWhole
      <3>2. CASE intent
        <4>1. CASE DataStaged
          <5>1. dir["data"] \in 0..MaxRestores /\ dir["stage"] \in 0..MaxRestores
            BY <4>1 DEF DataStaged, Generations
          <5>2. Whole(dir["data"]) \/ Whole(dir["stage"])
            BY <3>2, <4>1, <5>1 DEF DataStaged, DataAsideNow, DataInPlace, Generations, Absent, RestoreInv,
               SwapIsInOrder, MediaStaged, MediaAsideNow, MediaInPlace, Whole
          <5> QED
            BY <5>1, <5>2 DEF ALibraryIsWhole
        <4>2. CASE DataAsideNow
          <5>1. dir["stage"] \in 0..MaxRestores
            BY <4>2 DEF DataAsideNow, Generations
          <5>2. Whole(dir["stage"])
            BY <3>2, <4>2, <5>1 DEF DataStaged, DataAsideNow, DataInPlace, Generations, Absent, RestoreInv,
               SwapIsInOrder, MediaStaged, MediaAsideNow, MediaInPlace, Whole
          <5> QED
            BY <5>1, <5>2 DEF ALibraryIsWhole
        <4>3. CASE DataInPlace
          <5>1. dir["data"] \in 0..MaxRestores
            BY <4>3 DEF DataInPlace, Generations
          <5>2. Whole(dir["data"])
            BY <3>2, <4>3, <5>1 DEF DataStaged, DataAsideNow, DataInPlace, Generations, Absent, RestoreInv,
               SwapIsInOrder, MediaStaged, MediaAsideNow, MediaInPlace, Whole
          <5> QED
            BY <5>1, <5>2 DEF ALibraryIsWhole
        <4> QED
          BY <3>2, <4>1, <4>2, <4>3 DEF RestoreInv, SwapIsInOrder
      <3> QED
        BY <3>1, <3>2
    <2> QED
      BY <2>1, <2>2, <2>3
  <1> QED
    BY <1>1, InitRestoreInv, RestoreInvKept, PTL DEF RestoreSpec

-----------------------------------------------------------------------------
(* The copy follows the catalog (cluster/changes.go, cluster/sync.go).     *)

\* The source, its archive and the receiver hold what their columns may hold.
Rows == [DownloadIds -> Contents \cup {Gone}]
Feeds == [DownloadIds -> [rev : Nat, item : Contents \cup {Gone}]]
SourceOK == published \in Rows /\ feed \in Feeds /\ head \in Nat /\ epoch \in Nat \ {0}
ArchiveOK == archive \in [published : Rows, feed : Feeds, head : Nat]
CursorOK == cached \in Rows /\ cursor \in [epoch : Nat, rev : Nat] /\ cursor.epoch <= epoch
PairingOK == pairing \in Nat /\ syncSpent \in [changes : Nat, restores : Nat, failures : Nat, pairings : Nat]
Pages == [epoch : Nat, reset : BOOLEAN, next : Nat, head : Nat,
          entries : SUBSET [id : DownloadIds, rev : Nat, item : Contents \cup {Gone}]]
Passes == [pc : {"idle", "load", "ask", "save"}, pairing : Nat, at : [epoch : Nat, rev : Nat],
           page : Pages, left : Int]
PassOK == pass \in Passes

\* An entry describes its row, and was numbered by the counter; without an entry there is no row.
Describes(f, rows, top) ==
  \A i \in DownloadIds : f[i].item = rows[i] /\ f[i].rev <= top /\ (f[i].rev = 0 => rows[i] = Gone)
FeedsDescribe == Describes(feed, published, head) /\ Describes(archive.feed, archive.published, archive.head)

\* The cursor is over revisions that were given out.
CursorIsReached == cursor.epoch = epoch => cursor.rev <= head

\* A pass is of a pairing.
PassIsPaired == pass.pc # "idle" => pass.pairing # 0

\* What the page under way leaves out up to its end, the cache it was asked for has.
PageIsFaithful ==
  LET page == pass.page IN
  pass.pc = "save" =>
    /\ page.epoch <= epoch
    /\ \A e, f \in page.entries : e.id = f.id => e = f
    /\ page.epoch = epoch =>
         /\ page.next <= head
         /\ ~page.reset => pass.at.epoch = epoch
         /\ \A i \in DownloadIds : feed[i].rev <= page.next =>
              \/ \E e \in page.entries : e.id = i /\ e.item = feed[i].item
              \/ /\ \A e \in page.entries : e.id # i
                 /\ feed[i].rev <= IF page.reset THEN 0 ELSE pass.at.rev

SyncInv ==
  /\ SourceOK /\ ArchiveOK /\ CursorOK /\ PairingOK /\ PassOK
  /\ FeedsDescribe /\ CursorIsReached /\ PassIsPaired /\ PageIsFaithful
  /\ CachedAsOfCursor /\ RevokedIsForgotten

\* A set of numbers with a bound has a greatest member.
LEMMA MaxExists ==
  ASSUME NEW top \in Nat, NEW S, S \subseteq 0..top, S # {}
  PROVE  Max(S) \in S /\ \A y \in S : y <= Max(S)
  <1> DEFINE T == {n \in Nat : \E x \in S : n = top - x}
  <1>1. \A x \in S : x \in Int /\ top - x \in Nat
    OBVIOUS
  <1>2. T \subseteq Nat /\ T # {}
    BY <1>1
  <1>3. PICK t \in T : \A u \in T : <<u, t>> \notin OpToRel(<, Nat)
    BY <1>2, NatLessThanWellFounded, WFMin
  <1>4. PICK x \in S : t = top - x
    OBVIOUS
  <1>5. ASSUME NEW y \in S PROVE x >= y
    <2>1. top - y \in T /\ top - y \in Nat /\ x \in Int /\ y \in Int
      BY <1>1
    <2>2. <<top - y, t>> \notin OpToRel(<, Nat)
      BY <1>3, <2>1
    <2>3. ~(top - y < t)
      BY <1>2, <2>1, <2>2 DEF OpToRel
    <2> QED
      BY <1>4, <2>1, <2>3
  <1>6. \A y \in S : x >= y
    BY <1>5
  <1>7. Max(S) \in S /\ \A y \in S : Max(S) >= y
    BY <1>6 DEF Max
  <1> QED
    BY <1>1, <1>7

\* What a page leaves out up to its end, its receiver has had (Changes, cluster/changes.go).
LEMMA PageLeavesOut ==
  ASSUME SyncInv, NEW at \in [epoch : Nat, rev : Nat]
  PROVE  LET page == PageAfter(at) IN
         /\ page \in Pages /\ page.epoch = epoch /\ page.next <= head
         /\ \A e, f \in page.entries : e.id = f.id => e = f
         /\ ~page.reset => at.epoch = epoch
         /\ \A i \in DownloadIds : feed[i].rev <= page.next =>
              \/ \E e \in page.entries : e.id = i /\ e.item = feed[i].item
              \/ /\ \A e \in page.entries : e.id # i
                 /\ feed[i].rev <= IF page.reset THEN 0 ELSE at.rev
  <1> DEFINE reset == at.epoch # epoch \/ at.rev > head
             after == IF reset THEN 0 ELSE at.rev
             later == {i \in DownloadIds : feed[i].rev > after}
             Before(i) == {j \in later : feed[j].rev < feed[i].rev}
             ids == {i \in later : Cardinality(Before(i)) < PageSize}
             Entry(i) == [id |-> i, rev |-> feed[i].rev, item |-> feed[i].item]
             entries == {Entry(i) : i \in ids}
             revs == {after} \cup {feed[i].rev : i \in ids}
             next == Max(revs)
  <1>1. /\ \A i \in DownloadIds : feed[i].rev \in Nat /\ feed[i].item \in Contents \cup {Gone} /\ feed[i].rev <= head
        /\ head \in Nat /\ epoch \in Nat /\ at.rev \in Nat /\ IsFiniteSet(DownloadIds) /\ PageSize \in Nat
    BY SyncAssumption DEF SyncAssumption, SyncInv, SourceOK, Feeds, FeedsDescribe, Describes
  <1>2. after \in 0..head /\ after \in Nat /\ after <= (IF reset THEN 0 ELSE at.rev)
    BY <1>1
  <1>3. reset \in BOOLEAN /\ (~reset => at.epoch = epoch)
    OBVIOUS
  <1>4. PageAfter(at) = [epoch |-> epoch, reset |-> reset, head |-> head, entries |-> entries, next |-> next]
    BY DEF PageAfter
  <1>5. \A i \in DownloadIds : i \in ids <=> feed[i].rev > after /\ Cardinality(Before(i)) < PageSize
    OBVIOUS
  <1>6. ids \subseteq DownloadIds /\ \A i \in DownloadIds : Before(i) \subseteq DownloadIds
    OBVIOUS
  <1>7. \A i, j \in DownloadIds : feed[i].rev <= feed[j].rev => Before(i) \subseteq Before(j)
    BY <1>1
  <1>8. \A x : x \in revs <=> x = after \/ \E i \in ids : x = feed[i].rev
    OBVIOUS
  <1>9. \A i \in ids : Entry(i) \in entries
    OBVIOUS
  <1>10. \A e \in entries : \E i \in ids : e = Entry(i)
    OBVIOUS
  <1> HIDE DEF reset, after, later, Before, ids, entries, revs, next
  <1>11. revs \subseteq 0..head /\ revs # {}
    BY <1>1, <1>2, <1>6, <1>8
  <1>12. next \in revs /\ \A y \in revs : y <= next
    BY <1>1, <1>11, MaxExists DEF next
  <1>13. next \in Nat /\ next <= head
    BY <1>1, <1>11, <1>12
  <1>14. ASSUME NEW i \in DownloadIds, feed[i].rev <= next, feed[i].rev > after PROVE i \in ids
    <2>1. PICK j \in ids : next = feed[j].rev
      BY <1>1, <1>2, <1>8, <1>12, <1>13, <1>14
    <2>2. j \in DownloadIds /\ Before(i) \subseteq Before(j) /\ Before(j) \subseteq DownloadIds
      BY <1>6, <1>7, <1>14, <2>1
    <2>3. IsFiniteSet(Before(j))
      BY <1>1, <2>2, FS_Subset
    <2>4. /\ Cardinality(Before(i)) <= Cardinality(Before(j))
          /\ Cardinality(Before(i)) \in Nat /\ Cardinality(Before(j)) \in Nat
      BY <2>2, <2>3, FS_Subset, FS_CardinalityType
    <2>5. Cardinality(Before(j)) < PageSize
      BY <1>5, <2>1, <2>2
    <2> QED
      BY <1>1, <1>5, <1>14, <2>4, <2>5
  <1>15. \A i \in ids : Entry(i) \in [id : DownloadIds, rev : Nat, item : Contents \cup {Gone}]
    BY <1>1, <1>6
  <1>16. entries \subseteq [id : DownloadIds, rev : Nat, item : Contents \cup {Gone}]
    BY <1>10, <1>15
  <1>17. \A i \in ids : Entry(i).id = i /\ Entry(i).item = feed[i].item
    OBVIOUS
  <1> HIDE DEF Entry
  <1>18. \A e, f \in entries : e.id = f.id => e = f
    BY <1>10, <1>17
  <1>19. ASSUME NEW i \in DownloadIds, feed[i].rev <= next
         PROVE  \/ \E e \in entries : e.id = i /\ e.item = feed[i].item
                \/ (\A e \in entries : e.id # i) /\ feed[i].rev <= IF reset THEN 0 ELSE at.rev
    <2>1. CASE i \in ids
      BY <1>9, <1>17, <2>1
    <2>2. CASE i \notin ids
      <3>1. ~(feed[i].rev > after)
        BY <1>14, <1>19, <2>2
      <3>2. \A e \in entries : e.id # i
        BY <1>10, <1>17, <2>2
      <3>3. feed[i].rev <= IF reset THEN 0 ELSE at.rev
        BY <1>1, <1>2, <3>1
      <3> QED
        BY <3>2, <3>3
    <2> QED
      BY <2>1, <2>2
  <1>20. PageAfter(at) \in Pages
    BY <1>1, <1>3, <1>4, <1>13, <1>16 DEF Pages
  <1>21. /\ PageAfter(at).epoch = epoch /\ PageAfter(at).reset = reset
         /\ PageAfter(at).entries = entries /\ PageAfter(at).next = next
    BY <1>4
  <1> QED
    BY <1>3, <1>13, <1>18, <1>19, <1>20, <1>21

\* An applied page holds what it says of its rows, and of the others what the cache held.
LEMMA AppliedRows ==
  ASSUME NEW page, \A e, f \in page.entries : e.id = f.id => e = f, NEW i \in DownloadIds
  PROVE  /\ \A e \in page.entries : e.id = i => AppliedPage(page)[i] = e.item
         /\ (\A e \in page.entries : e.id # i) => AppliedPage(page)[i] = ResetCache(page)[i]
  <1>1. ASSUME NEW e \in page.entries, e.id = i PROVE AppliedPage(page)[i] = e.item
    <2>1. (CHOOSE f \in page.entries : f.id = i) = e
      BY <1>1
    <2> QED
      BY <1>1, <2>1 DEF AppliedPage
  <1>2. ASSUME \A e \in page.entries : e.id # i PROVE AppliedPage(page)[i] = ResetCache(page)[i]
    BY <1>2 DEF AppliedPage
  <1> QED
    BY <1>1, <1>2

\* Every pass begins and ends as one.
LEMMA NoPassIsOne ==
  /\ NoPass \in Passes /\ NoPage \in Pages /\ NoCursor \in [epoch : Nat, rev : Nat]
  /\ NoPass.pc = "idle" /\ NoPass.pairing = 0
  <1>1. NoPage \in Pages
    BY DEF NoPage, Pages
  <1>2. NoCursor \in [epoch : Nat, rev : Nat]
    BY DEF NoCursor
  <1> HIDE DEF Pages, NoCursor, NoPage
  <1> QED
    BY <1>1, <1>2 DEF NoPass, Passes

\* A change is numbered beyond every cursor and page,
LEMMA ChangeKept ==
  ASSUME SyncInv, NEW i \in DownloadIds, NEW item \in Contents \cup {Gone}, Change(i, item)
  PROVE  SyncInv'
  <1>1. SourceOK'
    BY DEF SyncInv, SourceOK, Change, receiver, Rows, Feeds
  <1>2. ArchiveOK'
    BY DEF SyncInv, ArchiveOK, Change, receiver, Rows, Feeds
  <1>3. PairingOK'
    BY DEF SyncInv, PairingOK, Change, receiver
  <1>4. PassOK'
    BY DEF SyncInv, PassOK, Change, receiver, Passes, Pages
  <1>5. FeedsDescribe'
    BY DEF SyncInv, FeedsDescribe, Change, receiver, Describes, SourceOK, Rows, Feeds
  <1>6. CursorIsReached'
    BY DEF SyncInv, CursorIsReached, Change, receiver, SourceOK, CursorOK
  <1>7. PageIsFaithful'
    BY DEF SyncInv, PageIsFaithful, Change, receiver, SourceOK, PassOK, Passes, Pages
  <1>8. CachedAsOfCursor'
    BY DEF SyncInv, CachedAsOfCursor, Change, receiver, CursorIsReached, SourceOK, CursorOK
  <1>9. CursorOK' /\ PassIsPaired' /\ RevokedIsForgotten'
    BY DEF SyncInv, CursorOK, PassIsPaired, RevokedIsForgotten, Change, receiver, NoCursor
  <1> QED
    BY <1>1, <1>2, <1>3, <1>4, <1>5, <1>6, <1>7, <1>8, <1>9 DEF SyncInv

\* and so are the two of a new id.
LEMMA RekeyKept ==
  ASSUME SyncInv, NEW i \in DownloadIds, NEW j \in DownloadIds, Rekey(i, j)
  PROVE  SyncInv'
  <1>1. SourceOK'
    BY DEF SyncInv, SourceOK, Rekey, Rekeyed, receiver, Rows, Feeds
  <1>2. ArchiveOK'
    BY DEF SyncInv, ArchiveOK, Rekey, Rekeyed, receiver, Rows, Feeds
  <1>3. PairingOK'
    BY DEF SyncInv, PairingOK, Rekey, Rekeyed, receiver
  <1>4. PassOK'
    BY DEF SyncInv, PassOK, Rekey, Rekeyed, receiver, Passes, Pages
  <1>5. FeedsDescribe'
    BY DEF SyncInv, FeedsDescribe, Rekey, Rekeyed, receiver, Describes, SourceOK, Rows, Feeds
  <1>6. CursorIsReached'
    BY DEF SyncInv, CursorIsReached, Rekey, Rekeyed, receiver, SourceOK, CursorOK
  <1>7. PageIsFaithful'
    BY DEF SyncInv, PageIsFaithful, Rekey, Rekeyed, receiver, SourceOK, PassOK, Feeds, Passes,
       Pages
  <1>8. CachedAsOfCursor'
    BY DEF SyncInv, CachedAsOfCursor, Rekey, Rekeyed, receiver, CursorIsReached, SourceOK,
       CursorOK, Feeds
  <1>9. CursorOK' /\ PassIsPaired' /\ RevokedIsForgotten'
    BY DEF SyncInv, CursorOK, PassIsPaired, RevokedIsForgotten, Rekey, Rekeyed, receiver,
       NoCursor
  <1> QED
    BY <1>1, <1>2, <1>3, <1>4, <1>5, <1>6, <1>7, <1>8, <1>9 DEF SyncInv

\* A snapshot describes its rows,
LEMMA TakeSnapshotKept ==
  ASSUME SyncInv, TakeSnapshot
  PROVE  SyncInv'
  <1>1. ArchiveOK'
    BY DEF SyncInv, ArchiveOK, TakeSnapshot, source, receiver, Rows, Feeds, SourceOK
  <1>2. FeedsDescribe'
    BY DEF SyncInv, FeedsDescribe, TakeSnapshot, source, receiver, Describes
  <1>3. /\ SourceOK' /\ CursorOK' /\ PairingOK' /\ PassOK' /\ CursorIsReached'
        /\ PassIsPaired' /\ PageIsFaithful' /\ CachedAsOfCursor' /\ RevokedIsForgotten'
    BY DEF SyncInv, SourceOK, CursorOK, PairingOK, PassOK, CursorIsReached, PassIsPaired,
       PageIsFaithful, CachedAsOfCursor, RevokedIsForgotten, TakeSnapshot, source, receiver,
       Passes, NoCursor, Pages
  <1> QED
    BY <1>1, <1>2, <1>3 DEF SyncInv

\* and begins another history when it is restored.
LEMMA RestoreSourceKept ==
  ASSUME SyncInv, RestoreSource
  PROVE  SyncInv'
  <1>1. SourceOK'
    BY DEF SyncInv, SourceOK, RestoreSource, NextEpoch, receiver, Rows, Feeds, ArchiveOK
  <1>2. ArchiveOK'
    BY DEF SyncInv, ArchiveOK, RestoreSource, NextEpoch, receiver, Rows, Feeds
  <1>3. CursorOK'
    BY DEF SyncInv, CursorOK, RestoreSource, NextEpoch, receiver, Rows, SourceOK
  <1>4. PairingOK'
    BY DEF SyncInv, PairingOK, RestoreSource, NextEpoch, receiver
  <1>5. PassOK'
    BY DEF SyncInv, PassOK, RestoreSource, NextEpoch, receiver, Passes, Pages
  <1>6. FeedsDescribe'
    BY DEF SyncInv, FeedsDescribe, RestoreSource, NextEpoch, receiver, Describes
  <1>7. CursorIsReached'
    BY DEF SyncInv, CursorIsReached, RestoreSource, NextEpoch, receiver, SourceOK, CursorOK
  <1>8. PageIsFaithful'
    BY DEF SyncInv, PageIsFaithful, RestoreSource, NextEpoch, receiver, SourceOK, PassOK,
       Passes, Pages
  <1>9. CachedAsOfCursor'
    BY DEF SyncInv, CachedAsOfCursor, RestoreSource, NextEpoch, receiver, SourceOK, CursorOK
  <1>10. RevokedIsForgotten'
    BY DEF SyncInv, RevokedIsForgotten, RestoreSource, NextEpoch, receiver, Nothing, NoCursor
  <1>11. PassIsPaired'
    BY DEF SyncInv, PassIsPaired, RestoreSource, NextEpoch, receiver
  <1> QED
    BY <1>1, <1>2, <1>3, <1>4, <1>5, <1>6, <1>7, <1>8, <1>9, <1>10, <1>11 DEF SyncInv

\* A pass is of the pairing of its start,
LEMMA StartPassKept ==
  ASSUME SyncInv, StartPass
  PROVE  SyncInv'
  <1>1. PassOK'
    <2>1. pairing \in Nat /\ PassPages \in Int
      BY SyncAssumption DEF SyncAssumption, SyncInv, PairingOK
    <2>2. pass' = [pc |-> "load", pairing |-> pairing, at |-> NoCursor, page |-> NoPage, left |-> PassPages]
      BY DEF StartPass, NoPass
    <2> QED
      BY <2>1, <2>2, NoPassIsOne DEF PassOK, Passes
  <1>2. PassIsPaired'
    BY DEF SyncInv, PassIsPaired, StartPass, NoPass, source, receiver, NoCursor, NoPage
  <1>3. PageIsFaithful'
    BY DEF SyncInv, PageIsFaithful, StartPass, NoPass, source, receiver, NoCursor, NoPage
  <1>4. /\ SourceOK' /\ ArchiveOK' /\ CursorOK' /\ PairingOK' /\ FeedsDescribe'
        /\ CursorIsReached' /\ CachedAsOfCursor' /\ RevokedIsForgotten'
    BY DEF SyncInv, SourceOK, ArchiveOK, CursorOK, PairingOK, FeedsDescribe, CursorIsReached,
       CachedAsOfCursor, RevokedIsForgotten, StartPass, NoPass, source, receiver, NoCursor,
       NoPage
  <1> QED
    BY <1>1, <1>2, <1>3, <1>4 DEF SyncInv

\* reads the cursor
LEMMA LoadCursorKept ==
  ASSUME SyncInv, LoadCursor
  PROVE  SyncInv'
  <1>1. PassOK'
    BY DEF SyncInv, PassOK, LoadCursor, source, receiver, Passes, Pages, CursorOK
  <1>2. PassIsPaired'
    BY DEF SyncInv, PassIsPaired, LoadCursor, source, receiver
  <1>3. PageIsFaithful'
    BY DEF SyncInv, PageIsFaithful, LoadCursor, source, receiver
  <1>4. /\ SourceOK' /\ ArchiveOK' /\ CursorOK' /\ PairingOK' /\ FeedsDescribe'
        /\ CursorIsReached' /\ CachedAsOfCursor' /\ RevokedIsForgotten'
    BY DEF SyncInv, SourceOK, ArchiveOK, CursorOK, PairingOK, FeedsDescribe, CursorIsReached,
       CachedAsOfCursor, RevokedIsForgotten, LoadCursor, source, receiver, NoCursor
  <1> QED
    BY <1>1, <1>2, <1>3, <1>4 DEF SyncInv

\* and is given a faithful page,
LEMMA AskChangesKept ==
  ASSUME SyncInv, AskChanges
  PROVE  SyncInv'
  <1>1. PassOK'
    <2>1. pass \in Passes /\ pass.at \in [epoch : Nat, rev : Nat]
      BY DEF SyncInv, PassOK, Passes
    <2>2. PageAfter(pass.at) \in Pages
      BY <2>1, PageLeavesOut
    <2>3. [pass EXCEPT !.pc = "save", !.page = PageAfter(pass.at)] \in Passes
      BY <2>1, <2>2 DEF Passes
    <2> QED
      BY <2>3, NoPassIsOne DEF PassOK, AskChanges
  <1>2. PassIsPaired'
    BY DEF SyncInv, PassIsPaired, AskChanges, PageAfter, NoPass, source, receiver, NoCursor, NoPage
  <1>3. PageIsFaithful'
    <2>1. pass \in Passes
      BY DEF SyncInv, PassOK
    <2>2. UNCHANGED <<feed, head, epoch>>
      BY DEF AskChanges, source
    <2>3. CASE pass.pairing = pairing
      <3>1. pass' = [pass EXCEPT !.pc = "save", !.page = PageAfter(pass.at)]
        BY <2>3 DEF AskChanges
      <3>2. pass'.page = PageAfter(pass.at) /\ pass'.at = pass.at /\ pass.at \in [epoch : Nat, rev : Nat]
        BY <2>1, <3>1 DEF Passes
      <3>3. epoch \in Nat
        BY DEF SyncInv, SourceOK
      <3> QED
        BY <2>2, <3>2, <3>3, PageLeavesOut DEF PageIsFaithful
    <2>4. CASE pass.pairing # pairing
      BY <2>4, NoPassIsOne DEF AskChanges, PageIsFaithful
    <2> QED
      BY <2>3, <2>4
  <1>4. /\ SourceOK' /\ ArchiveOK' /\ CursorOK' /\ PairingOK' /\ FeedsDescribe'
        /\ CursorIsReached' /\ CachedAsOfCursor' /\ RevokedIsForgotten'
    BY DEF SyncInv, SourceOK, ArchiveOK, CursorOK, PairingOK, FeedsDescribe, CursorIsReached,
       CachedAsOfCursor, RevokedIsForgotten, AskChanges, PageAfter, NoPass, source, receiver, NoCursor,
       NoPage
  <1> QED
    BY <1>1, <1>2, <1>3, <1>4 DEF SyncInv

\* which is saved over the cache it was asked for.
LEMMA SaveChangesKept ==
  ASSUME SyncInv, SaveChanges
  PROVE  SyncInv'
  <1>1. CursorOK'
    <2>1. pass \in Passes /\ pass.pc = "save" /\ pass.page \in Pages /\ pass.at \in [epoch : Nat, rev : Nat]
      BY DEF SyncInv, PassOK, Passes, SaveChanges
    <2>2. /\ pass.page.epoch \in Nat /\ pass.page.next \in Nat /\ pass.page.epoch <= epoch
          /\ \A e \in pass.page.entries : e.item \in Contents \cup {Gone}
      BY <2>1 DEF SyncInv, PageIsFaithful, Pages
    <2>3. cached \in Rows /\ Nothing \in Rows /\ cursor \in [epoch : Nat, rev : Nat] /\ cursor.epoch <= epoch
      BY DEF SyncInv, CursorOK, Rows, Nothing
    <2>4. AppliedPage(pass.page) \in Rows
      <3>1. \A i \in DownloadIds : ResetCache(pass.page)[i] \in Contents \cup {Gone}
        BY <2>3 DEF ResetCache, Rows
      <3>2. \A e, f \in pass.page.entries : e.id = f.id => e = f
        BY <2>1 DEF SyncInv, PageIsFaithful
      <3>3. \A i \in DownloadIds : AppliedPage(pass.page)[i] \in Contents \cup {Gone}
        BY <2>2, <3>1, <3>2, AppliedRows
      <3> QED
        BY <3>3 DEF AppliedPage, Rows
    <2> QED
      BY <2>2, <2>3, <2>4 DEF SaveChanges, CursorOK, receiver, source
  <1>2. PassOK'
    <2>1. pass \in Passes /\ pass.pc = "save" /\ pass.page \in Pages /\ pass.at \in [epoch : Nat, rev : Nat]
      BY DEF SyncInv, PassOK, Passes, SaveChanges
    <2>2. CursorOK'
      BY <1>1
    <2>3. cursor' \in [epoch : Nat, rev : Nat] /\ pass.left - 1 \in Int
      BY <2>1, <2>2 DEF CursorOK, Passes
    <2>4. [pass EXCEPT !.pc = "ask", !.at = cursor', !.page = NoPage, !.left = @ - 1] \in Passes
      BY <2>1, <2>3, NoPassIsOne DEF Passes
    <2> QED
      BY <2>4, NoPassIsOne DEF PassOK, SaveChanges
  <1>3. CursorIsReached'
    BY DEF SyncInv, CursorIsReached, SaveChanges, SamePeer, AppliedPage, NoPage, NoPass,
       receiver, source, ResetCache, NoCursor, Nothing, PageIsFaithful
  <1>4. PassIsPaired'
    <2>1. pass \in Passes /\ pass.pc = "save" /\ pass.page \in Pages /\ pass.at \in [epoch : Nat, rev : Nat]
      BY DEF SyncInv, PassOK, Passes, SaveChanges
    <2>2. \/ pass' = NoPass
          \/ pass' = [pass EXCEPT !.pc = "ask", !.at = cursor', !.page = NoPage, !.left = @ - 1]
      BY DEF SaveChanges
    <2>3. pass'.pc \in {"idle", "ask"} /\ (pass'.pc = "ask" => pass'.pairing = pass.pairing)
      BY <2>1, <2>2, NoPassIsOne DEF Passes
    <2> QED
      BY <2>1, <2>3 DEF SyncInv, PassIsPaired
  <1>5. PageIsFaithful'
    <2>1. pass \in Passes /\ pass.pc = "save" /\ pass.page \in Pages /\ pass.at \in [epoch : Nat, rev : Nat]
      BY DEF SyncInv, PassOK, Passes, SaveChanges
    <2>2. \/ pass' = NoPass
          \/ pass' = [pass EXCEPT !.pc = "ask", !.at = cursor', !.page = NoPage, !.left = @ - 1]
      BY DEF SaveChanges
    <2>3. pass'.pc \in {"idle", "ask"} /\ (pass'.pc = "ask" => pass'.pairing = pass.pairing)
      BY <2>1, <2>2, NoPassIsOne DEF Passes
    <2> QED
      BY <2>3 DEF PageIsFaithful
  <1>6. CachedAsOfCursor'
    <2>1. pass \in Passes /\ pass.pc = "save" /\ pass.page \in Pages /\ pass.at \in [epoch : Nat, rev : Nat]
      BY DEF SyncInv, PassOK, Passes, SaveChanges
    <2>2. UNCHANGED <<feed, head, epoch>>
      BY DEF SaveChanges, source
    <2>3. CASE SamePeer /\ cursor = pass.at
      <3>1. cached' = AppliedPage(pass.page) /\ cursor' = [epoch |-> pass.page.epoch, rev |-> pass.page.next]
        BY <2>3 DEF SaveChanges
      <3> SUFFICES ASSUME pass.page.epoch = epoch, NEW i \in DownloadIds, feed[i].rev <= pass.page.next
                   PROVE  AppliedPage(pass.page)[i] = feed[i].item
        BY <2>2, <3>1 DEF CachedAsOfCursor
      <3>2. /\ \A e, f \in pass.page.entries : e.id = f.id => e = f
            /\ ~pass.page.reset => cursor.epoch = epoch
            /\ \/ \E e \in pass.page.entries : e.id = i /\ e.item = feed[i].item
               \/ /\ \A e \in pass.page.entries : e.id # i
                  /\ feed[i].rev <= IF pass.page.reset THEN 0 ELSE cursor.rev
        BY <2>1, <2>3 DEF SyncInv, PageIsFaithful
      <3>3. CASE \E e \in pass.page.entries : e.id = i /\ e.item = feed[i].item
        BY <3>2, <3>3, AppliedRows
      <3>4. CASE /\ \A e \in pass.page.entries : e.id # i
                 /\ feed[i].rev <= IF pass.page.reset THEN 0 ELSE cursor.rev
        <4>1. AppliedPage(pass.page)[i] = ResetCache(pass.page)[i]
          BY <3>2, <3>4, AppliedRows
        <4>2. CASE pass.page.reset
          <5>1. ResetCache(pass.page)[i] = Gone
            BY <4>2 DEF ResetCache, Nothing
          <5>2. feed[i].rev = 0 /\ feed[i].item = published[i]
            BY <3>4, <4>2 DEF SyncInv, SourceOK, Feeds, FeedsDescribe, Describes
          <5>3. published[i] = Gone
            BY <5>2 DEF SyncInv, FeedsDescribe, Describes
          <5> QED
            BY <4>1, <5>1, <5>2, <5>3
        <4>3. CASE ~pass.page.reset
          <5>1. ResetCache(pass.page)[i] = cached[i]
            BY <4>3 DEF ResetCache
          <5>2. cached[i] = feed[i].item
            BY <3>2, <3>4, <4>3 DEF SyncInv, CachedAsOfCursor
          <5> QED
            BY <4>1, <5>1, <5>2
        <4> QED
          BY <4>2, <4>3
      <3> QED
        BY <3>2, <3>3, <3>4
    <2>4. CASE ~(SamePeer /\ cursor = pass.at)
      BY <2>2, <2>4 DEF SyncInv, CachedAsOfCursor, SaveChanges, receiver
    <2> QED
      BY <2>3, <2>4
  <1>7. RevokedIsForgotten'
    BY DEF SyncInv, RevokedIsForgotten, SaveChanges, SamePeer, AppliedPage, NoPage, NoPass,
       receiver, source, Nothing, NoCursor, ResetCache, PassIsPaired
  <1>8. SourceOK' /\ ArchiveOK' /\ PairingOK' /\ FeedsDescribe'
    BY DEF SyncInv, SourceOK, ArchiveOK, PairingOK, FeedsDescribe, SaveChanges, SamePeer,
       AppliedPage, NoPage, NoPass, receiver, source, ResetCache, NoCursor
  <1> QED
    BY <1>1, <1>2, <1>3, <1>4, <1>5, <1>6, <1>7, <1>8 DEF SyncInv

\* A pass that fails leaves nothing,
LEMMA PassFailsKept ==
  ASSUME SyncInv, PassFails
  PROVE  SyncInv'
  <1>1. PairingOK'
    BY DEF SyncInv, PairingOK, PassFails, NoPass, source, receiver, NoCursor, NoPage
  <1>2. PassOK'
    BY DEF SyncInv, PassOK, PassFails, NoPass, source, receiver, Passes, NoCursor, NoPage, Pages
  <1>3. PassIsPaired'
    BY DEF SyncInv, PassIsPaired, PassFails, NoPass, source, receiver, NoCursor, NoPage
  <1>4. PageIsFaithful'
    BY DEF SyncInv, PageIsFaithful, PassFails, NoPass, source, receiver, NoCursor, NoPage
  <1>5. /\ SourceOK' /\ ArchiveOK' /\ CursorOK' /\ FeedsDescribe' /\ CursorIsReached'
        /\ CachedAsOfCursor' /\ RevokedIsForgotten'
    BY DEF SyncInv, SourceOK, ArchiveOK, CursorOK, FeedsDescribe, CursorIsReached,
       CachedAsOfCursor, RevokedIsForgotten, PassFails, NoPass, source, receiver, NoCursor,
       NoPage
  <1> QED
    BY <1>1, <1>2, <1>3, <1>4, <1>5 DEF SyncInv

\* a revoked peer neither,
LEMMA RevokeKept ==
  ASSUME SyncInv, Revoke
  PROVE  SyncInv'
  <1>1. CursorOK'
    BY DEF SyncInv, CursorOK, Revoke, Nothing, NoCursor, source, Rows, SourceOK
  <1>2. PairingOK'
    BY DEF SyncInv, PairingOK, Revoke, Nothing, NoCursor, source
  <1>3. PassOK'
    BY DEF SyncInv, PassOK, Revoke, Nothing, NoCursor, source, Passes, Pages
  <1>4. CursorIsReached'
    BY DEF SyncInv, CursorIsReached, Revoke, Nothing, NoCursor, source, SourceOK
  <1>5. PassIsPaired'
    BY DEF SyncInv, PassIsPaired, Revoke, Nothing, NoCursor, source
  <1>6. CachedAsOfCursor'
    BY DEF SyncInv, CachedAsOfCursor, Revoke, Nothing, NoCursor, source, SourceOK
  <1>7. RevokedIsForgotten'
    BY DEF SyncInv, RevokedIsForgotten, Revoke, Nothing, NoCursor, source
  <1>8. SourceOK' /\ ArchiveOK' /\ FeedsDescribe' /\ PageIsFaithful'
    BY DEF SyncInv, SourceOK, ArchiveOK, FeedsDescribe, PageIsFaithful, Revoke, NoCursor, source
  <1> QED
    BY <1>1, <1>2, <1>3, <1>4, <1>5, <1>6, <1>7, <1>8 DEF SyncInv

\* and a peer paired again keeps what it has.
LEMMA PairAgainKept ==
  ASSUME SyncInv, PairAgain
  PROVE  SyncInv'
  <1>1. PairingOK'
    BY DEF SyncInv, PairingOK, PairAgain, source, receiver
  <1>2. PassOK'
    BY DEF SyncInv, PassOK, PairAgain, source, receiver, Passes, Pages
  <1>3. PassIsPaired'
    BY DEF SyncInv, PassIsPaired, PairAgain, source, receiver
  <1>4. RevokedIsForgotten'
    BY DEF SyncInv, RevokedIsForgotten, PairAgain, source, receiver, Nothing, NoCursor,
       PairingOK
  <1>5. /\ SourceOK' /\ ArchiveOK' /\ CursorOK' /\ FeedsDescribe' /\ CursorIsReached'
        /\ PageIsFaithful' /\ CachedAsOfCursor'
    BY DEF SyncInv, SourceOK, ArchiveOK, CursorOK, FeedsDescribe, CursorIsReached,
       PageIsFaithful, CachedAsOfCursor, PairAgain, source, receiver
  <1> QED
    BY <1>1, <1>2, <1>3, <1>4, <1>5 DEF SyncInv

\* Nothing is published at first, and the receiver has nothing.
LEMMA InitSyncInv == SyncInit => SyncInv
  <1> SUFFICES ASSUME SyncInit PROVE SyncInv
    OBVIOUS
  <1>1. SourceOK /\ ArchiveOK
    BY DEF SyncInit, SourceOK, ArchiveOK, Rows, Feeds, Nothing
  <1>2. CursorOK /\ PairingOK /\ PassOK
    BY NoPassIsOne DEF SyncInit, CursorOK, PairingOK, PassOK, Rows, Nothing, NoCursor
  <1>3. FeedsDescribe
    BY DEF SyncInit, FeedsDescribe, Describes, Nothing
  <1>4. CursorIsReached /\ CachedAsOfCursor /\ RevokedIsForgotten
    BY DEF SyncInit, CursorIsReached, CachedAsOfCursor, RevokedIsForgotten, NoCursor
  <1>5. PassIsPaired /\ PageIsFaithful
    BY NoPassIsOne DEF SyncInit, PassIsPaired, PageIsFaithful
  <1> QED
    BY <1>1, <1>2, <1>3, <1>4, <1>5 DEF SyncInv

\* Every step keeps the invariant.
LEMMA SyncInvKept == SyncInv /\ [SyncNext]_syncVars => SyncInv'
  <1> SUFFICES ASSUME SyncInv, [SyncNext]_syncVars PROVE SyncInv'
    OBVIOUS
  <1>1. CASE UNCHANGED syncVars
    BY <1>1 DEF syncVars, SyncInv, SourceOK, ArchiveOK, CursorOK, PairingOK, PassOK, FeedsDescribe,
       CursorIsReached, PassIsPaired, PageIsFaithful, CachedAsOfCursor, RevokedIsForgotten
  <1> QED
    BY <1>1, ChangeKept, RekeyKept, TakeSnapshotKept, RestoreSourceKept, StartPassKept, LoadCursorKept,
       AskChangesKept, SaveChangesKept, PassFailsKept, RevokeKept, PairAgainKept DEF SyncNext, PassStep

\* For every catalog, whatever changes, is restored, fails or is revoked between two pages: the copy
\* agrees with each entry up to its cursor, and of a revoked peer nothing is kept.
THEOREM CopyStaysFaithful == SyncSpec => []CopyFollowsCatalog
  <1>1. SyncInv => CopyFollowsCatalog
    BY DEF SyncInv, CopyFollowsCatalog
  <1> QED
    BY <1>1, InitSyncInv, SyncInvKept, PTL DEF SyncSpec
=============================================================================
