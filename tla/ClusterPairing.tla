--------------------------- MODULE ClusterPairing ---------------------------
(***************************************************************************)
(* How two instances come to hold one secret (Pair of cluster/client.go,   *)
(* AcceptHandshake and SaveOutbound of cluster/protocol.go, IssueCode,     *)
(* SetToken and Revoke of cluster/store.go).  The caller proposes a secret *)
(* signed with a code or the token of the other; the other consumes the    *)
(* code and installs the secret in one transaction, acknowledges it, and   *)
(* the caller installs it too.  A message is lost or late, never altered:  *)
(* signatures are abstracted to the key that made them.                    *)
(***************************************************************************)
EXTENDS Naturals, FiniteSets

CONSTANTS
  Instances,
  \* Bounds of the model only.
  MaxCodes, MaxPairs, MaxLosses, MaxRevokes, MaxRotations

ASSUME PairingAssumption ==
  {MaxCodes, MaxPairs, MaxLosses, MaxRevokes, MaxRotations} \subseteq Nat

VARIABLES
  codes,     \* pairing_codes of an instance: codes issued and not used
  token,     \* cluster_token of an instance
  secret,    \* peers.shared_secret: i -> j -> secret, 0 without a row
  calls,     \* handshakes sent and not answered: [from, to, key, secret]
  replies,   \* acknowledgements on their way
  installed, \* history: [to, key, secret] of every handshake accepted
  exchange,  \* history: the last exchange was "undisturbed", is "alone" on its way, or was "disturbed"
  pairSpent  \* bounds used

pairingVars == <<codes, token, secret, calls, replies, installed, exchange, pairSpent>>

CodeKey(c) == <<"code", c>>
TokenKey(t) == <<"token", t>>
Keys(i) == {CodeKey(c) : c \in codes[i]} \cup {TokenKey(token[i])}

PairingInit ==
  /\ codes = [i \in Instances |-> {}] /\ token = [i \in Instances |-> 0]
  /\ secret = [i \in Instances |-> [j \in Instances |-> 0]]
  /\ calls = {} /\ replies = {} /\ installed = {} /\ exchange = "undisturbed"
  /\ pairSpent = [codes |-> 0, pairs |-> 0, losses |-> 0, revokes |-> 0, rotations |-> 0]

Quiet == calls = {} /\ replies = {}
-----------------------------------------------------------------------------
\* The operator of i issues a code, valid for one use.
IssueCode(i) ==
  /\ pairSpent.codes < MaxCodes
  /\ codes' = [codes EXCEPT ![i] = @ \cup {pairSpent.codes + 1}]
  /\ pairSpent' = [pairSpent EXCEPT !.codes = @ + 1]
  /\ UNCHANGED <<token, secret, calls, replies, installed, exchange>>

\* After five minutes no read of pairing_codes returns the code any more.
ExpireCode(i, c) ==
  /\ c \in codes[i]
  /\ codes' = [codes EXCEPT ![i] = @ \ {c}]
  /\ UNCHANGED <<token, secret, calls, replies, installed, exchange, pairSpent>>

\* A new cluster token voids the codes issued under the old one.
SetToken(i) ==
  /\ pairSpent.rotations < MaxRotations
  /\ token' = [token EXCEPT ![i] = @ + 1]
  /\ codes' = [codes EXCEPT ![i] = {}]
  /\ pairSpent' = [pairSpent EXCEPT !.rotations = @ + 1]
  /\ UNCHANGED <<secret, calls, replies, installed, exchange>>

\* Pair: i was given a key of j and proposes a new secret.
Pair(i, j, key) ==
  /\ i # j /\ key \in Keys(j) /\ pairSpent.pairs < MaxPairs
  /\ calls' = calls \cup {[from |-> i, to |-> j, key |-> key, secret |-> pairSpent.pairs + 1]}
  /\ exchange' = IF Quiet THEN "alone" ELSE "disturbed"
  /\ pairSpent' = [pairSpent EXCEPT !.pairs = @ + 1]
  /\ UNCHANGED <<codes, token, secret, replies, installed>>

\* Mutant: the code is looked up and never consumed.
CodesKept(call) == codes

\* delete(m, code), in the transaction that installs the secret.
CodesAfter(call) ==
  [codes EXCEPT ![call.to] = {c \in @ : CodeKey(c) # call.key}]

\* Mutant: a refused handshake is acknowledged too.
Acknowledged(call) == {call}

\* Only a committed handshake is acknowledged.
Answer(call) == IF call.key \in Keys(call.to) THEN {call} ELSE {}

AcceptHandshake(call) ==
  /\ call \in calls
  /\ calls' = calls \ {call}
  /\ replies' = replies \cup Answer(call)
  /\ IF call.key \in Keys(call.to)
     THEN /\ codes' = CodesAfter(call)
          /\ secret' = [secret EXCEPT ![call.to][call.from] = call.secret]
          /\ installed' = installed \cup {call}
          /\ UNCHANGED exchange
     ELSE /\ exchange' = "disturbed"
          /\ UNCHANGED <<codes, secret, installed>>
  /\ UNCHANGED <<token, pairSpent>>

\* The caller reports a failure; what the other side committed stays.
Lose ==
  /\ pairSpent.losses < MaxLosses
  /\ \/ \E call \in calls : calls' = calls \ {call} /\ UNCHANGED replies
     \/ \E reply \in replies : replies' = replies \ {reply} /\ UNCHANGED calls
  /\ exchange' = "disturbed"
  /\ pairSpent' = [pairSpent EXCEPT !.losses = @ + 1]
  /\ UNCHANGED <<codes, token, secret, installed>>


\* upsert: the secret of an existing row is replaced.
SecretOf(reply) == reply.secret

SaveOutbound(reply) ==
  /\ reply \in replies
  /\ replies' = replies \ {reply}
  /\ secret' = [secret EXCEPT ![reply.from][reply.to] = SecretOf(reply)]
  /\ exchange' = IF exchange = "alone" THEN "undisturbed" ELSE exchange
  /\ UNCHANGED <<codes, token, calls, installed, pairSpent>>

\* Revoke is local: the other side keeps its row.
RevokePeer(i, j) ==
  /\ secret[i][j] # 0 /\ pairSpent.revokes < MaxRevokes
  /\ secret' = [secret EXCEPT ![i][j] = 0]
  /\ exchange' = "disturbed"
  /\ pairSpent' = [pairSpent EXCEPT !.revokes = @ + 1]
  /\ UNCHANGED <<codes, token, calls, replies, installed>>
-----------------------------------------------------------------------------
PairingNext ==
  \/ \E i \in Instances :
       \/ IssueCode(i) \/ SetToken(i)
       \/ \E c \in codes[i] : ExpireCode(i, c)
       \/ \E j \in Instances : RevokePeer(i, j) \/ \E key \in Keys(j) : Pair(i, j, key)
  \/ \E call \in calls : AcceptHandshake(call)
  \/ \E reply \in replies : SaveOutbound(reply)
  \/ Lose

PairingSpec == PairingInit /\ [][PairingNext]_pairingVars
-----------------------------------------------------------------------------
(* Properties.                                                             *)

\* A code pairs once, however many callers were given it and however their calls interleave.
OneUsePerCode ==
  \A x, y \in installed : x.key = y.key /\ x.key[1] = "code" => x = y

\* No success before durable storage: a secret that a caller holds, the other side had installed.
AckIsDurable ==
  \A i, j \in Instances :
    secret[i][j] # 0 => \E call \in installed : call.secret = secret[i][j] /\ {call.from, call.to} = {i, j}

\* An exchange that no other exchange, loss or revocation met leaves both sides with its
\* secret, whatever they held before: pairing again mends a crossed or half-done pairing.
PairIsShared ==
  exchange = "undisturbed" => \A i, j \in Instances : secret[i][j] = secret[j][i]

\* A code makes one pair, and no answer, lost or not, leaves a pair that only one side has.
PairsAreSound == OneUsePerCode /\ AckIsDurable /\ PairIsShared
=============================================================================
