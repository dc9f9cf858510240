------------------------------ MODULE Dialogs ------------------------------
(***************************************************************************)
(* The chats of the connected accounts (app/dialogs_api.go,                *)
(* app/chat_access_api.go, app/chat_leave_*.go, telegram/dialogs.go,       *)
(* telegram/dialog_remove.go): listings that read every account's dialogs  *)
(* and store what Telegram said of each chat, and jobs that leave chats    *)
(* and drop what is kept of them.  Listings run for minutes beside each    *)
(* other and beside the removals; Telegram may lose an answer after doing  *)
(* what was asked.                                                         *)
(***************************************************************************)
EXTENDS Naturals, FiniteSets

CONSTANTS
  Chats,
  BasicGroups,  \* chats that are left in two steps: the group, then its history
  Accounts,     \* accounts of the monitor's run
  Roles,        \* listings of one role share one request: "admin", "guest"
  MaxListings, MaxLeaves, MaxMoves, MaxLost  \* bounds of the model only

ASSUME DialogsAssumption ==
  /\ BasicGroups \subseteq Chats
  /\ {MaxListings, MaxLeaves, MaxMoves, MaxLost} \subseteq Nat

VARIABLES
  member,        \* Account -> Chat -> "absent", "ok", "dead" or "moved" on Telegram
  group,         \* Chat -> "none", "on" or "off" in the configuration
  access,        \* Chat -> its row of chat_access: the verdict and its observation time
  chatFiles,         \* chats with downloaded files
  dialogVersion, \* counts confirmed removals
  listing,       \* Role -> a listing in flight
  leave,         \* "one" or "batch" -> a removal in flight
  clock,         \* the time of the latest listing's start
  newest,        \* history: Chat -> latest listing stored since its row was deleted
  erased,        \* history: Chat -> when a removal, and the operator's cleanup, dropped it
  gone,          \* history: <<account, chat>> pairs Telegram was without at some moment
  wiped,         \* history: <<account, chat>> pairs whose removal deleted the files
  dialogsSpent   \* bounds used

dialogVars == <<member, group, access, chatFiles, dialogVersion, listing, leave, clock, newest, erased,
                gone, wiped, dialogsSpent>>

States == {"absent", "ok", "dead", "moved"}
NoAccess == [state |-> "none", at |-> 0]
NoListing == [pc |-> "off", version |-> 0, at |-> 0, read |-> {},
              saw |-> [a \in Accounts |-> [c \in Chats |-> "absent"]]]
NoLeave == [pc |-> "off", account |-> "none", todo |-> {}, chat |-> 0, removed |-> {}, files |-> FALSE,
            current |-> [c \in Chats |-> "absent"], shared |-> FALSE, at |-> 0]
Leavers == {"one", "batch"}

DialogsInit ==
  /\ member = [a \in Accounts |-> [c \in Chats |-> "ok"]]
  /\ group = [c \in Chats |-> "on"] /\ access = [c \in Chats |-> NoAccess] /\ chatFiles = Chats
  /\ dialogVersion = 0 /\ clock = 0
  /\ listing = [l \in Roles |-> NoListing] /\ leave = [x \in Leavers |-> NoLeave]
  /\ newest = [c \in Chats |-> 0] /\ erased = [c \in Chats |-> [left |-> 0, dropped |-> 0]]
  /\ gone = {} /\ wiped = {}
  /\ dialogsSpent = [listings |-> 0, leaves |-> 0, moves |-> 0, lost |-> 0]

Spend(what, max) ==
  dialogsSpent[what] < max /\ dialogsSpent' = [dialogsSpent EXCEPT ![what] = @ + 1]
-----------------------------------------------------------------------------
(* Telegram: chats die, revive, move to another chat, and are joined again. *)

ChatChanges(a, c, state) ==
  /\ Spend("moves", MaxMoves) /\ member[a][c] # state /\ state # "absent"
  /\ member' = [member EXCEPT ![a][c] = state]
  /\ UNCHANGED <<group, access, chatFiles, dialogVersion, listing, leave, clock, newest, erased, gone, wiped>>
-----------------------------------------------------------------------------
(* Listings.                                                               *)

\* browseDialogsRemote: version and time before the first request, under monitorOp.
BeginListing(l) ==
  /\ listing[l].pc = "off" /\ Spend("listings", MaxListings)
  /\ clock' = clock + 1
  /\ listing' = [listing EXCEPT ![l] = [NoListing EXCEPT !.pc = "read", !.at = clock + 1,
                                                        !.version = dialogVersion]]
  /\ UNCHANGED <<member, group, access, chatFiles, dialogVersion, leave, newest, erased, gone, wiped>>

\* An entity Telegram sent in its minimal form says nothing of the access.
Seen(a) == {s \in [Chats -> States \cup {"unknown"}] :
              \A c \in Chats : s[c] = member[a][c] \/ (s[c] = "unknown" /\ member[a][c] # "absent")}

\* DialogSession.List: account after account, both folders.
ReadAccount(l, a) ==
  /\ listing[l].pc = "read" /\ a \notin listing[l].read
  /\ \E saw \in Seen(a) :
       listing' = [listing EXCEPT ![l].read = @ \cup {a}, ![l].saw[a] = saw]
  /\ UNCHANGED <<member, group, access, chatFiles, dialogVersion, leave, clock, newest, erased, gone, wiped,
                 dialogsSpent>>

\* A request fails, or the run is stopped: nothing of an incomplete listing is used.
ListingFails(l) ==
  /\ listing[l].pc = "read" /\ listing' = [listing EXCEPT ![l] = NoListing]
  /\ UNCHANGED <<member, group, access, chatFiles, dialogVersion, leave, clock, newest, erased, gone, wiped,
                 dialogsSpent>>

\* The best of what the accounts that list the chat may do with it.
MergedAccess(saw, c) ==
  LET all == {saw[a][c] : a \in Accounts} \ {"absent"} IN
  CASE "ok" \in all -> "ok" [] "unknown" \in all -> "unknown"
    [] "moved" \in all -> "moved" [] "dead" \in all -> "dead" [] OTHER -> "absent"

Observed(saw) == {c \in Chats : MergedAccess(saw, c) \notin {"absent", "unknown"}}

\* Mutant: the later listing to finish wins.
AnyTime(old, at) == TRUE

NotOlder(old, at) == old.at <= at

\* saveDialogAccess, in one transaction under monitorOp, unless a removal came in between.
SaveListing(l) ==
  LET one == listing[l]  kept == Observed(one.saw) IN
  /\ one.pc = "read" /\ one.read = Accounts
  /\ listing' = [listing EXCEPT ![l] = NoListing]
  /\ IF one.version # dialogVersion THEN UNCHANGED <<access, newest>>
     ELSE /\ access' = [c \in Chats |-> IF c \in kept /\ NotOlder(access[c], one.at)
                          THEN [state |-> MergedAccess(one.saw, c), at |-> one.at] ELSE access[c]]
          /\ newest' = [c \in Chats |-> IF c \in kept /\ newest[c] < one.at THEN one.at ELSE newest[c]]
  /\ UNCHANGED <<member, group, chatFiles, dialogVersion, leave, clock, erased, gone, wiped, dialogsSpent>>
-----------------------------------------------------------------------------
(* Removals: one confirmed chat, or a batch of dead ones.                  *)

BeginLeave(x, a, chats, delete) ==
  /\ leave[x].pc = "off" /\ Spend("leaves", MaxLeaves)
  /\ x = "one" => Cardinality(chats) = 1 /\ ~delete
  /\ leave' = [leave EXCEPT ![x] = [NoLeave EXCEPT !.pc = "resolve", !.account = a, !.todo = chats,
                                                   !.files = delete]]
  /\ UNCHANGED <<member, group, access, chatFiles, dialogVersion, listing, clock, newest, erased, gone, wiped>>

\* currentDialogs, once for the whole batch.
ResolveDialogs(x) ==
  LET a == leave[x].account IN
  /\ leave[x].pc = "resolve"
  /\ \E saw \in Seen(a) : leave' = [leave EXCEPT ![x].pc = "next", ![x].current = saw]
  /\ gone' = gone \cup {<<a, c>> : c \in {d \in Chats : member[a][d] = "absent"}}
  /\ UNCHANGED <<member, group, access, chatFiles, dialogVersion, listing, clock, newest, erased, wiped,
                 dialogsSpent>>

\* The session ends: what was confirmed so far is still cleaned up, as shared configuration.
LeaveFails(x) ==
  /\ leave[x].pc \in {"resolve", "next"}
  /\ leave' = [leave EXCEPT ![x] = IF x = "one" /\ @.removed = {} THEN NoLeave
                                   ELSE [@ EXCEPT !.pc = "forget", !.shared = TRUE]]
  /\ UNCHANGED <<member, group, access, chatFiles, dialogVersion, listing, clock, newest, erased, gone, wiped,
                 dialogsSpent>>

\* Batches are for dead chats: a working one needs its own confirmation.
Refused(x, c) ==
  \/ leave[x].current[c] = "unknown"
  \/ x = "batch" /\ leave[x].current[c] = "ok"

NextChat(x, c) ==
  LET one == leave[x]
      absent == IF one.current[c] = "absent" THEN {c} ELSE {}
      pc == IF Refused(x, c) \/ c \in absent THEN "next"
              ELSE IF c \in BasicGroups /\ one.current[c] # "ok" THEN "history" ELSE "leave" IN
  /\ one.pc = "next" /\ c \in one.todo
  /\ leave' = [leave EXCEPT ![x] = [one EXCEPT !.todo = one.todo \ {c}, !.chat = c, !.pc = pc,
                                              !.removed = one.removed \cup absent]]
  /\ UNCHANGED <<member, group, access, chatFiles, dialogVersion, listing, clock, newest, erased, gone, wiped,
                 dialogsSpent>>

\* Telegram does what was asked: a basic group stays in the list until its history is deleted.
TelegramRemoves(x) ==
  LET a == leave[x].account  c == leave[x].chat
      out == leave[x].pc = "history" \/ c \notin BasicGroups IN
  /\ leave[x].pc \in {"leave", "history"}
  /\ member' = [member EXCEPT ![a][c] = IF out \/ @ = "absent" THEN "absent" ELSE "dead"]
  /\ gone' = IF out THEN gone \cup {<<a, c>>} ELSE gone
  /\ leave' = [leave EXCEPT ![x].pc = IF out THEN "answer" ELSE "history"]
  /\ UNCHANGED <<group, access, chatFiles, dialogVersion, listing, clock, newest, erased, wiped, dialogsSpent>>

Confirmed(x) ==
  /\ leave[x].pc = "answer"
  /\ leave' = [leave EXCEPT ![x].pc = "next", ![x].removed = @ \cup {leave[x].chat}]
  /\ UNCHANGED <<member, group, access, chatFiles, dialogVersion, listing, clock, newest, erased, gone, wiped,
                 dialogsSpent>>

\* Mutant: a chat whose removal failed is cleaned up too.
EverythingTried(x) == leave[x].removed \cup {leave[x].chat}

RemovedAfterError(x) == leave[x].removed

\* An error, a lost answer or a flood wait, which also ends the batch.
RemovalFails(x, flood) ==
  /\ leave[x].pc \in {"leave", "history", "answer"} /\ Spend("lost", MaxLost)
  /\ leave' = [leave EXCEPT ![x].pc = "next", ![x].removed = RemovedAfterError(x),
                            ![x].todo = IF flood THEN {} ELSE @]
  /\ UNCHANGED <<member, group, access, chatFiles, dialogVersion, listing, clock, newest, erased, gone, wiped>>

Sole == Cardinality(Accounts) = 1

\* removeLeftChatConfig and the purge of a chat end with the same local state.
Drop(cs, at) ==
  /\ group' = [c \in Chats |-> IF c \in cs THEN "none" ELSE group[c]]
  /\ access' = [c \in Chats |-> IF c \in cs THEN NoAccess ELSE access[c]]
  /\ newest' = [c \in Chats |-> IF c \in cs THEN 0 ELSE newest[c]]
  /\ erased' = [c \in Chats |-> IF c \in cs THEN [erased[c] EXCEPT !.left = at] ELSE erased[c]]

\* Mutant: a removal does not outdate the listings in flight.
SameVersion == dialogVersion

NextVersion == dialogVersion + 1

\* Nothing is left to ask: listings in flight become outdated (monitorOp).  The single removal
\* drops the configuration in the same critical section.
Invalidate(x) ==
  LET one == leave[x]  cs == IF x = "one" /\ Sole /\ ~one.shared THEN one.removed ELSE {} IN
  /\ one.pc = "forget" \/ (one.pc = "next" /\ one.todo = {})
  /\ dialogVersion' = IF one.removed = {} /\ x = "one" THEN dialogVersion ELSE NextVersion
  /\ Drop(cs, clock)
  /\ leave' = [leave EXCEPT ![x] = IF x = "one" \/ one.removed = {} THEN NoLeave
                 ELSE [one EXCEPT !.pc = "clean", !.at = clock, !.shared = one.shared \/ ~Sole]]
  /\ UNCHANGED <<member, chatFiles, listing, clock, gone, wiped, dialogsSpent>>

\* What is left of the batch when one more chat is dealt with.
DealtWith(x, c) == IF leave[x].removed = {c} THEN NoLeave ELSE [leave[x] EXCEPT !.removed = @ \ {c}]

\* leaveBatchLocal: the purge of the chat, or its configuration, or nothing.
CleanChat(x, c) ==
  LET one == leave[x] IN
  /\ one.pc = "clean" /\ c \in one.removed
  /\ IF one.files \/ ~one.shared THEN Drop({c}, one.at) ELSE UNCHANGED <<group, access, newest, erased>>
  /\ chatFiles' = IF one.files THEN chatFiles \ {c} ELSE chatFiles
  /\ wiped' = IF one.files THEN wiped \cup {<<one.account, c>>} ELSE wiped
  /\ leave' = [leave EXCEPT ![x] = DealtWith(x, c)]
  /\ UNCHANGED <<member, dialogVersion, listing, clock, gone, dialogsSpent>>

\* The purge of the chat fails: only the batch's status tells.
CleanFails(x, c) ==
  /\ leave[x].pc = "clean" /\ leave[x].files /\ c \in leave[x].removed /\ Spend("lost", MaxLost)
  /\ leave' = [leave EXCEPT ![x] = DealtWith(x, c)]
  /\ UNCHANGED <<member, group, access, chatFiles, dialogVersion, listing, clock, newest, erased, gone, wiped>>

\* The process ends: jobs and listings are forgotten where they are.
DialogsRestart ==
  /\ Spend("lost", MaxLost) /\ dialogVersion' = 0
  /\ listing' = [l \in Roles |-> NoListing] /\ leave' = [x \in Leavers |-> NoLeave]
  /\ UNCHANGED <<member, group, access, chatFiles, clock, newest, erased, gone, wiped>>
-----------------------------------------------------------------------------
(* The operator's cleanup of blocked chats.                                *)

AccessStop(c) ==
  /\ group[c] = "on" /\ group' = [group EXCEPT ![c] = "off"]
  /\ UNCHANGED <<member, access, chatFiles, dialogVersion, listing, leave, clock, newest, erased, gone, wiped,
                 dialogsSpent>>

\* handleChatAccessRemove: the configuration, then the verdicts; listings stay valid.
AccessRemove(c) ==
  /\ group[c] # "none" \/ access[c] # NoAccess
  /\ group' = [group EXCEPT ![c] = "none"] /\ access' = [access EXCEPT ![c] = NoAccess]
  /\ newest' = [newest EXCEPT ![c] = 0] /\ erased' = [erased EXCEPT ![c].dropped = clock]
  /\ UNCHANGED <<member, chatFiles, dialogVersion, listing, leave, clock, gone, wiped, dialogsSpent>>

\* handleFollowMigration: monitoring moves with the chat.
FollowMigration(c, target) ==
  /\ group[c] # "none" /\ access[c].state = "moved" /\ target # c
  /\ group' = [group EXCEPT ![target] = IF @ = "none" \/ group[c] = "on"
                                        THEN (IF group[c] = "on" THEN "on" ELSE "off") ELSE @,
                            ![c] = "off"]
  /\ UNCHANGED <<member, access, chatFiles, dialogVersion, listing, leave, clock, newest, erased, gone, wiped,
                 dialogsSpent>>
-----------------------------------------------------------------------------
DialogsNext ==
  \/ \E a \in Accounts, c \in Chats :
       \/ ChatChanges(a, c, "ok") \/ ChatChanges(a, c, "dead")
       \/ c \in BasicGroups /\ ChatChanges(a, c, "moved")
  \/ \E l \in Roles :
       BeginListing(l) \/ (\E a \in Accounts : ReadAccount(l, a)) \/ ListingFails(l) \/ SaveListing(l)
  \/ \E x \in Leavers :
       \/ \E a \in Accounts, chats \in SUBSET Chats \ {{}}, delete \in BOOLEAN : BeginLeave(x, a, chats, delete)
       \/ ResolveDialogs(x) \/ LeaveFails(x) \/ TelegramRemoves(x) \/ Confirmed(x) \/ Invalidate(x)
       \/ \E flood \in BOOLEAN : RemovalFails(x, flood)
       \/ \E c \in Chats : NextChat(x, c) \/ CleanChat(x, c) \/ CleanFails(x, c)
  \/ DialogsRestart
  \/ \E c \in Chats : AccessStop(c) \/ AccessRemove(c) \/ (\E t \in Chats : FollowMigration(c, t))

DialogsSpec == DialogsInit /\ [][DialogsNext]_dialogVars
-----------------------------------------------------------------------------
(* Properties.                                                             *)

\* Once a removal has dropped a chat, no listing that began before Telegram confirmed the
\* removal brings its verdict back.
LeftIsForgotten ==
  \A c \in Chats : access[c] # NoAccess /\ erased[c].left > 0 => access[c].at > erased[c].left

\* A stored verdict is of the latest listing that saw the chat: listings finish in any order.
LatestVerdictStays == \A c \in Chats : access[c] # NoAccess => access[c].at = newest[c]

\* Files are deleted only for chats that had left the account when the batch dealt with them.
FilesAreConfirmed == wiped \subseteq gone

\* The operator's cleanup is final as well.  A listing in flight stores the verdict again.
RemovedIsForgotten ==
  \A c \in Chats : access[c] # NoAccess /\ erased[c].dropped > 0 => access[c].at > erased[c].dropped

\* "Keep shared local configuration unless this is the only account": a removal by one account
\* spares what another one monitors.  A batch that deletes files drops it.
SharedIsKept == \A p \in wiped : \A a \in Accounts \ {p[1]} : member[a][p[2]] # "ok"

\* Chats stay left, verdicts stay new, files go with the chats that are gone.
ChatsAreLeftForGood == LeftIsForgotten /\ LatestVerdictStays /\ FilesAreConfirmed
=============================================================================
