------------------------------ MODULE Accounts ------------------------------
(***************************************************************************)
(* Telegram accounts: the login wizard (accounts/wizard.go), the durable   *)
(* publication and removal of an account's session through a journal       *)
(* (accounts/repository.go), and the handlers that do both around a stop   *)
(* and a start of the engine (app/accounts_api.go).  The files of an       *)
(* account are its session; the login's codes and passwords are choices.   *)
(***************************************************************************)
EXTENDS Integers, FiniteSets

CONSTANTS
  Flows,      \* login flows
  Ids,        \* account ids, 1..n: the labels, and the names a login without label tries in turn
  NoFlow,     \* no login, 0
  \* Bounds of the model only.
  MaxFlows,   \* flows the wizard keeps (8)
  MaxDbFaults, MaxAccountCrashes, MaxRemovals

ASSUME AccountsAssumption ==
  /\ NoFlow \notin Flows \cup {-1} /\ 0 \notin Ids /\ Flows \subseteq Nat
  /\ {MaxFlows, MaxDbFaults, MaxAccountCrashes, MaxRemovals} \subseteq Nat /\ Ids \subseteq Nat

VARIABLES
  flow,       \* [pc, label, state, cancelled, id] of a flow
  loginFile,  \* flows whose session lies in sessions/pending
  session,    \* account -> the login its session comes from, NoFlow for none
  accountOps, \* account -> its row of tgdl_account_ops: [action, from], or NoOp
  listed,     \* accounts in config.accounts
  secretKey,  \* "none", "empty", "key": the file secret.key
  opHolder,   \* who holds monitorOp: a flow, -1 for a removal, or NoFlow
  removal,    \* [pc, id, restart] of the request to remove an account
  clients,    \* accounts with a running client
  engineUp,   \* the monitor runs
  accountsUp, \* the process runs
  \* History of the model only.
  refusedLogins, \* flows whose cancellation came before their publication
  orphanLogins,  \* flows a crash or a failed answer of the journal cut off from their file
  accountSpent   \* [faults, crashes, removals]

accountVars == <<flow, loginFile, session, accountOps, listed, secretKey, opHolder, removal, clients,
                 engineUp, accountsUp, refusedLogins, orphanLogins, accountSpent>>
files == <<loginFile, session, accountOps, listed>>
history == <<refusedLogins, orphanLogins>>

NoOp == [action |-> "none", from |-> NoFlow]
NoLogin == [pc |-> "none", label |-> 0, state |-> "none", cancelled |-> FALSE, id |-> 0]
NoRemoval == [pc |-> "off", id |-> 0, restart |-> FALSE]

AccountsInit ==
  /\ flow = [f \in Flows |-> NoLogin] /\ loginFile = {}
  /\ session = [x \in Ids |-> NoFlow] /\ accountOps = [x \in Ids |-> NoOp] /\ listed = {}
  /\ secretKey = "none" /\ opHolder = NoFlow /\ removal = NoRemoval
  /\ clients = {} /\ engineUp = FALSE /\ accountsUp = TRUE
  /\ refusedLogins = {} /\ orphanLogins = {}
  /\ accountSpent = [faults |-> 0, crashes |-> 0, removals |-> 0]

\* SavedSessions, Exists
Saved == {x \in Ids : session[x] # NoFlow}

Login(f) == flow[f].pc
Kept(f) == Login(f) \notin {"none", "gone"}
Live(f) == Kept(f) /\ Login(f) # "over"
Goes(f, pc) == flow' = [flow EXCEPT ![f].pc = pc]
Ends(f, state) == flow' = [flow EXCEPT ![f].pc = "over", ![f].state = state]
Fault == accountSpent.faults < MaxDbFaults /\ accountSpent' = [accountSpent EXCEPT !.faults = @ + 1]
-----------------------------------------------------------------------------
(* The wizard.                                                             *)

\* Secret: the key is created once, and only while no account has a session; the file is
\* there before its bytes are.
CreateSecret ==
  /\ accountsUp /\ secretKey = "none" /\ Saved = {}
  /\ secretKey' \in {"empty", "key"}
  /\ IF secretKey' = "empty" THEN Fault ELSE UNCHANGED accountSpent
  /\ UNCHANGED <<flow, files, opHolder, removal, clients, engineUp, accountsUp, history>>

\* Random names: none is drawn twice, and which one makes no difference.
Unused == {f \in Flows : Login(f) = "none"}

BeginLogin(f, label) ==
  /\ accountsUp /\ f \in Unused /\ \A g \in Unused : f <= g
  /\ secretKey = "key"
  /\ Cardinality({g \in Flows : Kept(g)}) < MaxFlows
  /\ label # 0 => label \notin Saved /\ \A g \in Flows : Kept(g) => flow[g].label # label
  /\ flow' = [flow EXCEPT ![f] = [NoLogin EXCEPT !.pc = "login", !.label = label, !.state = "phone"]]
  /\ UNCHANGED <<files, secretKey, opHolder, removal, clients, engineUp, accountsUp, history, accountSpent>>

\* What Telegram's answer to a step makes of the flow; the same state after a failure or flood.
NextStates(state) ==
  {state} \cup CASE state = "phone" -> {"code", "authorized"}
                 [] state = "code" -> {"password", "authorized"}
                 [] state = "password" -> {"authorized"}

\* SubmitStep, one command at a time and of the step the flow is at, with Telegram's answer: the
\* client of the login has written its session, and waits for the next step or returns.
SubmitStep(f) ==
  /\ accountsUp /\ Login(f) = "login" /\ loginFile' = loginFile \cup {f}
  /\ \E state \in NextStates(flow[f].state) :
       IF state = "authorized" THEN Goes(f, "authorized") ELSE flow' = [flow EXCEPT ![f].state = state]
  /\ UNCHANGED <<session, accountOps, listed, secretKey, opHolder, removal, clients, engineUp, accountsUp, history, accountSpent>>

\* run: the client ends, by an error or because the flow was cancelled; the session goes.
LoginEnds(f) ==
  /\ accountsUp /\ Login(f) = "login"
  /\ Ends(f, "error")
  /\ loginFile' = loginFile \ {f}
  /\ UNCHANGED <<session, accountOps, listed, secretKey, opHolder, removal, clients, engineUp, accountsUp, history, accountSpent>>

\* The steps run takes while it holds commitMu.
Publishing == {"publish", "record", "link", "commit", "refresh"}

\* Cancel and publication have one ordering point.
EnterPublication(f) ==
  /\ accountsUp /\ Login(f) = "authorized"
  /\ IF ~flow[f].cancelled
     THEN Goes(f, "publish") /\ UNCHANGED loginFile
     ELSE /\ Ends(f, "error")
          /\ loginFile' = loginFile \ {f}
  /\ UNCHANGED <<session, accountOps, listed, secretKey, opHolder, removal, clients, engineUp, accountsUp, history, accountSpent>>

\* Mutant: Cancel does not wait for commitMu.
AnyStage == {"login", "authorized"} \cup Publishing

\* Cancel waits while run holds commitMu.
CancelStages == {"login", "authorized"}

CancelLogin(f) ==
  /\ accountsUp /\ Login(f) \in CancelStages /\ ~flow[f].cancelled
  /\ flow' = [flow EXCEPT ![f].cancelled = TRUE] /\ refusedLogins' = refusedLogins \cup {f}
  /\ UNCHANGED <<files, secretKey, opHolder, removal, clients, engineUp, accountsUp, orphanLogins, accountSpent>>

\* Ten minutes have passed, or the wizard closes: the context ends wherever the flow is.
ExpireLogin(f) ==
  /\ accountsUp /\ Live(f) /\ ~flow[f].cancelled
  /\ flow' = [flow EXCEPT ![f].cancelled = TRUE]
  /\ UNCHANGED <<files, secretKey, opHolder, removal, clients, engineUp, accountsUp, history, accountSpent>>

\* pruneLocked, and the end of Cancel
ForgetLogin(f) ==
  /\ accountsUp /\ Login(f) = "over" /\ flow' = [flow EXCEPT ![f] = [NoLogin EXCEPT !.pc = "gone"]]
  /\ UNCHANGED <<files, secretKey, opHolder, removal, clients, engineUp, accountsUp, history, accountSpent>>
-----------------------------------------------------------------------------
(* The repository.                                                         *)

\* Whether apply can redo the operation of an account.
Applicable(x) ==
  accountOps[x].action = "add" => IF session[x] = NoFlow THEN accountOps[x].from \in loginFile ELSE session[x] = accountOps[x].from

Journaled == {x \in Ids : accountOps[x].action # "none"}
Adding == {x \in Ids : accountOps[x].action = "add"}

\* Recover: every operation of the journal is applied and forgotten.
Recover ==
  /\ \A x \in Journaled : Applicable(x)
  /\ session' = [x \in Ids |-> CASE accountOps[x].action = "add" -> accountOps[x].from
                                 [] accountOps[x].action = "delete" -> NoFlow
                                 [] OTHER -> session[x]]
  /\ listed' = (listed \cup Adding) \ (Journaled \ Adding)
  /\ loginFile' = loginFile \ {accountOps[x].from : x \in Adding}
  /\ accountOps' = [x \in Ids |-> NoOp]

\* A login that is not published; its session goes, unless the journal has it.
Abandon(f, journaled) ==
  /\ Ends(f, "error")
  /\ loginFile' = IF journaled THEN loginFile ELSE loginFile \ {f}
  /\ opHolder' = NoFlow

\* publishAccount: under monitorOp, after the journal is recovered.
BeginPublish(f) ==
  /\ accountsUp /\ Login(f) = "publish" /\ opHolder = NoFlow
  /\ \/ ~flow[f].cancelled /\ Recover /\ opHolder' = f
        /\ Goes(f, "record") /\ UNCHANGED accountSpent
     \/ flow[f].cancelled /\ Abandon(f, FALSE) /\ UNCHANGED <<session, accountOps, listed, accountSpent>>
     \/ Fault /\ Abandon(f, FALSE) /\ UNCHANGED <<session, accountOps, listed>>
  /\ UNCHANGED <<secretKey, removal, clients, engineUp, accountsUp, history>>

\* Mutant: the labels of other logins are not looked at, nor the sessions there are.
AnyId(f) == Ids

\* The ids a login may be published under: its label, or the first name of its own that no
\* account has and no other login asked for.
FreeIds(f) ==
  LET reserved == {flow[g].label : g \in {h \in Flows \ {f} : Live(h)}}
      free == Ids \ (Saved \cup reserved) IN
  IF flow[f].label # 0 THEN {flow[f].label} \cap free ELSE {x \in free : \A y \in free : x <= y}

RecordAdd(f) ==
  /\ accountsUp /\ Login(f) = "record"
  /\ \/ \E x \in FreeIds(f) :
          /\ ~flow[f].cancelled /\ accountOps[x] = NoOp
          /\ accountOps' = [accountOps EXCEPT ![x] = [action |-> "add", from |-> f]]
          /\ flow' = [flow EXCEPT ![f].pc = "link", ![f].id = x]
          /\ UNCHANGED <<loginFile, opHolder, accountSpent>>
     \/ FreeIds(f) = {} /\ Abandon(f, FALSE) /\ UNCHANGED <<accountOps, accountSpent>>
     \/ flow[f].cancelled /\ Abandon(f, FALSE) /\ UNCHANGED <<accountOps, accountSpent>>
     \/ Fault /\ Abandon(f, FALSE) /\ UNCHANGED accountOps
  /\ UNCHANGED <<session, listed, secretKey, removal, clients, engineUp, accountsUp, history>>

\* apply: the session of the login becomes the session of the account, unless there is one.
LinkSession(f) ==
  LET x == flow[f].id IN
  /\ accountsUp /\ Login(f) = "link"
  /\ \/ /\ session[x] = NoFlow /\ session' = [session EXCEPT ![x] = f]
        /\ Goes(f, "commit") /\ UNCHANGED <<loginFile, opHolder, accountSpent>>
     \/ session[x] # NoFlow /\ Abandon(f, TRUE) /\ UNCHANGED <<session, accountSpent>>
     \/ Fault /\ Abandon(f, TRUE) /\ UNCHANGED session
  /\ UNCHANGED <<accountOps, listed, secretKey, removal, clients, engineUp, accountsUp, history>>

\* commitConfig: the entry of the configuration and the end of the operation in one transaction.
CommitAdd(f) ==
  LET x == flow[f].id IN
  /\ accountsUp /\ Login(f) = "commit"
  /\ \/ /\ ~flow[f].cancelled /\ listed' = listed \cup {x} /\ accountOps' = [accountOps EXCEPT ![x] = NoOp]
        /\ loginFile' = loginFile \ {f} /\ Goes(f, "refresh")
        /\ UNCHANGED <<opHolder, accountSpent>>
     \/ flow[f].cancelled /\ Abandon(f, TRUE) /\ UNCHANGED <<listed, accountOps, accountSpent>>
     \/ Fault /\ Abandon(f, TRUE) /\ UNCHANGED <<listed, accountOps>>
  /\ UNCHANGED <<session, secretKey, removal, clients, engineUp, accountsUp, history>>

\* The monitor is stopped and started with the new account, or left alone when it cannot be.
FinishPublish(f) ==
  /\ accountsUp /\ Login(f) = "refresh" /\ opHolder' = NoFlow
  /\ Ends(f, "done")
  /\ \/ UNCHANGED <<clients, engineUp>>
     \/ engineUp /\ clients' = Saved /\ UNCHANGED engineUp
     \/ engineUp /\ clients' = {} /\ engineUp' = FALSE
  /\ UNCHANGED <<files, secretKey, removal, accountsUp, history, accountSpent>>
-----------------------------------------------------------------------------
(* Removal, and the engine.                                                *)

\* Mutant: the operation is recorded while the clients run.
RunningOn == clients

\* monitor.Stop ends every client before it returns.
Stopped == {}

BeginRemove(x) ==
  /\ accountsUp /\ removal.pc = "off" /\ opHolder = NoFlow /\ x \in Saved
  /\ accountSpent.removals < MaxRemovals
  /\ opHolder' = -1 /\ removal' = [pc |-> "record", id |-> x, restart |-> engineUp]
  /\ clients' = Stopped /\ engineUp' = FALSE
  /\ accountSpent' = [accountSpent EXCEPT !.removals = @ + 1]
  /\ UNCHANGED <<flow, files, secretKey, accountsUp, history>>

\* Removal: the journal is recovered, then the operation recorded.
RecordDelete ==
  LET x == removal.id IN
  /\ accountsUp /\ removal.pc = "record"
  /\ \/ Journaled # {} /\ Recover /\ UNCHANGED <<removal, accountSpent>>
     \/ /\ Journaled = {} /\ x \in Saved
        /\ accountOps' = [accountOps EXCEPT ![x] = [action |-> "delete", from |-> NoFlow]]
        /\ removal' = [removal EXCEPT !.pc = "unlink"] /\ UNCHANGED <<session, listed, loginFile, accountSpent>>
     \/ Journaled = {} /\ x \notin Saved /\ removal' = [removal EXCEPT !.pc = "restart"] /\ UNCHANGED <<files, accountSpent>>
     \/ Fault /\ removal' = [removal EXCEPT !.pc = "restart"] /\ UNCHANGED files
  /\ UNCHANGED <<flow, secretKey, opHolder, clients, engineUp, accountsUp, history>>

UnlinkSession ==
  /\ accountsUp /\ removal.pc = "unlink"
  /\ \/ /\ session' = [session EXCEPT ![removal.id] = NoFlow]
        /\ removal' = [removal EXCEPT !.pc = "commit"] /\ UNCHANGED accountSpent
     \/ Fault /\ removal' = [removal EXCEPT !.pc = "restart"] /\ UNCHANGED session
  /\ UNCHANGED <<flow, loginFile, accountOps, listed, secretKey, opHolder, clients, engineUp, accountsUp, history>>

CommitDelete ==
  /\ accountsUp /\ removal.pc = "commit" /\ removal' = [removal EXCEPT !.pc = "restart"]
  /\ \/ listed' = listed \ {removal.id} /\ accountOps' = [accountOps EXCEPT ![removal.id] = NoOp] /\ UNCHANGED accountSpent
     \/ Fault /\ UNCHANGED <<listed, accountOps>>
  /\ UNCHANGED <<flow, loginFile, session, secretKey, opHolder, clients, engineUp, accountsUp, history>>

\* Mutant: the clients start whatever the journal holds.
WithoutRecovery == UNCHANGED <<loginFile, session, accountOps, listed>>

\* startTelegramEngine recovers the journal first.
BeforeStart == Recover

\* The clients of the sessions there are; an engine that runs keeps those it has.
StartClients ==
  /\ BeforeStart
  /\ engineUp' = (engineUp \/ \E x \in Ids : session'[x] # NoFlow)
  /\ clients' = IF engineUp THEN clients ELSE {x \in Ids : session'[x] # NoFlow}

\* restartAfterAccountsChange, and the end of the request
FinishRemove ==
  /\ accountsUp /\ removal.pc = "restart" /\ removal' = NoRemoval /\ opHolder' = NoFlow
  /\ \/ removal.restart /\ StartClients
     \/ UNCHANGED <<files, clients, engineUp>>
  /\ UNCHANGED <<flow, secretKey, accountsUp, history, accountSpent>>

\* Any other caller of startTelegramEngine, under monitorOp
StartEngine ==
  /\ accountsUp /\ opHolder = NoFlow /\ StartClients
  /\ UNCHANGED <<flow, secretKey, opHolder, removal, accountsUp, history, accountSpent>>

StopEngine ==
  /\ accountsUp /\ opHolder = NoFlow /\ engineUp /\ engineUp' = FALSE /\ clients' = Stopped
  /\ UNCHANGED <<flow, files, secretKey, opHolder, removal, accountsUp, history, accountSpent>>

\* The process ends at any step; what lies in sessions/pending stays there.
AccountsCrash ==
  /\ accountsUp /\ accountSpent.crashes < MaxAccountCrashes
  /\ accountSpent' = [accountSpent EXCEPT !.crashes = @ + 1]
  /\ accountsUp' = FALSE /\ engineUp' = FALSE /\ clients' = {} /\ opHolder' = NoFlow /\ removal' = NoRemoval
  /\ flow' = [f \in Flows |-> IF f \in Unused THEN NoLogin ELSE [NoLogin EXCEPT !.pc = "gone"]]
  /\ orphanLogins' = orphanLogins \cup {f \in loginFile : \A x \in Ids : accountOps[x].from # f}
  /\ UNCHANGED <<files, secretKey, refusedLogins>>

\* New: the journal is recovered before anything else uses the accounts.
AccountsBoot ==
  /\ ~accountsUp /\ Recover /\ accountsUp' = TRUE
  /\ UNCHANGED <<flow, secretKey, opHolder, removal, clients, engineUp, history, accountSpent>>

AccountsNext ==
  \/ \E f \in Flows : \/ \E label \in Ids \cup {0} : BeginLogin(f, label)
                      \/ SubmitStep(f) \/ LoginEnds(f) \/ EnterPublication(f) \/ CancelLogin(f) \/ ExpireLogin(f) \/ ForgetLogin(f)
                      \/ BeginPublish(f) \/ RecordAdd(f) \/ LinkSession(f) \/ CommitAdd(f) \/ FinishPublish(f)
  \/ \E x \in Ids : BeginRemove(x)
  \/ CreateSecret \/ RecordDelete \/ UnlinkSession \/ CommitDelete \/ FinishRemove
  \/ StartEngine \/ StopEngine \/ AccountsCrash \/ AccountsBoot

AccountsSpec == AccountsInit /\ [][AccountsNext]_accountVars
-----------------------------------------------------------------------------
(* Properties.                                                             *)

\* An account whose operation is over is in the configuration exactly when it has a session.
AccountIsWhole == \A x \in Ids : accountOps[x] = NoOp => (x \in listed <=> session[x] # NoFlow)

\* An operation in the journal can always be redone, so that a start never refuses: neither a
\* client that runs nor a later login takes or changes the files it needs.
JournalIsApplicable == \A x \in Journaled : Applicable(x) /\ x \notin clients

\* "Cancel and publication have one ordering point": a login that was cancelled before its
\* publication is no account.
CancelledIsUnpublished == \A f \in refusedLogins, x \in Ids : session[x] # f /\ accountOps[x].from # f

\* A session in sessions/pending has a login or an operation that will take or remove it, but
\* for those a crash cut off.
PendingIsOwned == \A f \in loginFile \ orphanLogins : Live(f) \/ \E x \in Ids : accountOps[x].from = f

\* Accounts are published and removed whole, once and on the word of their owner.
AccountsAreWhole == AccountIsWhole /\ JournalIsApplicable /\ CancelledIsUnpublished /\ PendingIsOwned

\* A key that was begun can be used: an interrupted creation leaves an empty file that every
\* later login refuses.
SecretIsUsable == secretKey # "empty"
=============================================================================
