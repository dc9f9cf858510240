------------------------------ MODULE GapRepair ------------------------------
(***************************************************************************)
(* Channel gaps of one Telegram account: the durable update cursor, the    *)
(* recovery markers (tgdl_update_recovery) and the background repair that  *)
(* re-reads a channel's history (telegram/update_api.go, update_state.go,  *)
(* history_recovery.go; the gap callback of engine/controller.go start).   *)
(*                                                                         *)
(* A channel's messages are numbered by its pts.  gotd's update manager is *)
(* external: it delivers live updates in order, reports a difference that  *)
(* is too long, and saves the cursor through UpdateState.                  *)
(***************************************************************************)
EXTENDS Naturals, FiniteSets

CONSTANTS
    Channels,   \* channel ids
    Repairers,  \* goroutines started by the gap callback
    Startup,    \* the goroutine account.run starts
    None,
    \* Bounds of the model only.
    MaxPosts, MaxGaps, MaxFailures, MaxCrashes

ASSUME GapAssumption ==
    /\ Channels \subseteq Nat \ {0}
    /\ Startup \notin Repairers /\ None \notin Repairers \cup {Startup}
    /\ {MaxPosts, MaxGaps, MaxFailures, MaxCrashes} \subseteq Nat

VARIABLES
    posted,    \* Channel -> messages Telegram has
    accepted,  \* Channel -> messages handed to the durable queue
    saved,     \* Channel -> tgdl_update_channels.pts
    marker,    \* channels with a row in tgdl_update_recovery
    target,    \* Channel -> tgdl_update_recovery_state.pts (0: unknown)
    live,      \* Channel -> gotd's cursor in memory
    reporter,  \* Channel -> position of the goroutine reporting its gap
    resync,    \* Channel -> the pts gotd continues from after a gap
    again,     \* the flags of the gap callback
    repairing,
    thread,    \* Repairers and Startup -> their state
    lock,      \* Account.repairMu
    up,        \* is the account running
    overlap,   \* history: channels whose gap was reported while being re-read
    spent      \* bounds used

cursors == <<posted, accepted, saved, live>>
markers == <<marker, target>>
flags == <<again, repairing>>
bounds == <<overlap, spent>>
vars == <<posted, accepted, saved, marker, target, live, reporter, resync, again,
          repairing, thread, lock, up, overlap, spent>>

Threads == Repairers \cup {Startup}
Modes == {"loop", "final", "startup"}
Reports == {"idle", "record", "again", "start", "resync", "record2", "again2", "start2"}
Positions == {"off", "swap", "ending", "recheck", "closing", "backoff", "lock", "scan",
              "list", "next", "resolve", "walk", "pages", "complete"}

Off == [pc |-> "off", mode |-> "loop", todo |-> {}, pts |-> [c \in Channels |-> 0],
        channel |-> 0, top |-> 0]

Init ==
    /\ posted = [c \in Channels |-> 0] /\ accepted = [c \in Channels |-> {}]
    /\ saved = [c \in Channels |-> 0] /\ live = [c \in Channels |-> 0]
    /\ marker = {} /\ target = [c \in Channels |-> 0]
    /\ reporter = [c \in Channels |-> "idle"] /\ resync = [c \in Channels |-> 0]
    /\ again = FALSE /\ repairing = FALSE
    /\ thread = [t \in Threads |-> Off]
    /\ lock = None /\ up = FALSE
    /\ overlap = {} /\ spent = [gaps |-> 0, failures |-> 0, crashes |-> 0]
-----------------------------------------------------------------------------
(* Telegram and gotd's update manager.                                     *)

Post(c) ==
    /\ posted[c] < MaxPosts
    /\ posted' = [posted EXCEPT ![c] = @ + 1]
    /\ UNCHANGED <<accepted, saved, live, markers, reporter, resync, flags, thread, lock,
                   up, bounds>>

\* A live update is accepted by the durable queue before its cursor can be saved.
LiveUpdate(c) ==
    /\ up /\ reporter[c] = "idle" /\ live[c] < posted[c]
    /\ live' = [live EXCEPT ![c] = @ + 1]
    /\ accepted' = [accepted EXCEPT ![c] = @ \cup {live[c] + 1}]
    /\ UNCHANGED <<posted, saved, markers, reporter, resync, flags, thread, lock, up, bounds>>

SetChannelPts(c) ==
    /\ up /\ reporter[c] = "idle" /\ saved[c] # live[c]
    /\ saved' = [saved EXCEPT ![c] = live[c]]
    /\ UNCHANGED <<posted, accepted, live, markers, reporter, resync, flags, thread, lock,
                   up, bounds>>
-----------------------------------------------------------------------------
(* A gap is reported: gap writes the marker and calls the gap callback,    *)
(* which writes it again and starts a repair; gotd then continues from the *)
(* dialog's pts and calls the same callback itself.                        *)

\* Mutant: A gap is not recorded while a repair is running.
RecordedUnlessRepairing(c) == IF repairing THEN marker ELSE marker \cup {c}

\* RecordRecovery: one row per channel, a known pts is kept.
Recorded(c) == marker \cup {c}

KeptPts(c, pts) == [target EXCEPT ![c] = IF pts > 0 THEN pts ELSE @]

BeingRead(c) ==
    \E t \in Threads : thread[t].channel = c /\ thread[t].pc \in {"pages", "complete"}

DifferenceTooLong(c) ==
    /\ up /\ reporter[c] = "idle" /\ live[c] < posted[c] /\ spent.gaps < MaxGaps
    /\ marker' = Recorded(c) /\ target' = KeptPts(c, posted[c])
    /\ reporter' = [reporter EXCEPT ![c] = "record"]
    /\ resync' = [resync EXCEPT ![c] = posted[c]]
    /\ overlap' = IF BeingRead(c) THEN overlap \cup {c} ELSE overlap
    /\ spent' = [spent EXCEPT !.gaps = @ + 1]
    /\ UNCHANGED <<cursors, flags, thread, lock, up>>

\* The callback records the gap with an unknown pts, sets "again", and starts the loop
\* unless one is running.
RecordAgain(c) ==
    /\ reporter[c] \in {"record", "record2"}
    /\ marker' = Recorded(c) /\ target' = KeptPts(c, 0)
    /\ reporter' = [reporter EXCEPT ![c] = IF @ = "record" THEN "again" ELSE "again2"]
    /\ overlap' = IF BeingRead(c) THEN overlap \cup {c} ELSE overlap
    /\ UNCHANGED <<cursors, resync, flags, thread, lock, up, spent>>

SetAgain(c) ==
    /\ reporter[c] \in {"again", "again2"}
    /\ again' = TRUE
    /\ reporter' = [reporter EXCEPT ![c] = IF @ = "again" THEN "start" ELSE "start2"]
    /\ UNCHANGED <<cursors, markers, resync, repairing, thread, lock, up, bounds>>

\* Goroutines are interchangeable: the loop runs in any that is free.
Free == CHOOSE t \in Repairers : thread[t].pc = "off"

StartLoop(c) ==
    /\ reporter[c] \in {"start", "start2"}
    /\ repairing' = TRUE
    /\ IF repairing THEN UNCHANGED thread
       ELSE /\ \E t \in Repairers : thread[t].pc = "off"
            /\ thread' = [thread EXCEPT ![Free] = [Off EXCEPT !.pc = "swap"]]
    /\ reporter' = [reporter EXCEPT ![c] = IF @ = "start" THEN "resync" ELSE "idle"]
    /\ UNCHANGED <<cursors, markers, resync, again, lock, up, bounds>>

Resync(c) ==
    /\ reporter[c] = "resync"
    /\ live' = [live EXCEPT ![c] = resync[c]]
    /\ saved' = [saved EXCEPT ![c] = resync[c]]
    /\ reporter' = [reporter EXCEPT ![c] = "record2"]
    /\ UNCHANGED <<posted, accepted, markers, resync, flags, thread, lock, up, bounds>>
-----------------------------------------------------------------------------
(* The goroutine of the gap callback.                                      *)

Goto(t, pc) == thread' = [thread EXCEPT ![t].pc = pc]

SwapAgain(t) ==
    /\ thread[t].pc = "swap"
    /\ again' = FALSE
    /\ Goto(t, IF again THEN "lock" ELSE "ending")
    /\ UNCHANGED <<cursors, markers, reporter, resync, repairing, lock, up, bounds>>

EndLoop(t) ==
    /\ thread[t].pc = "ending"
    /\ repairing' = FALSE
    /\ Goto(t, "recheck")
    /\ UNCHANGED <<cursors, markers, reporter, resync, again, lock, up, bounds>>

\* A gap reported while finishing starts one last repair, which leaves "again" set.
ReportedMeanwhile == again /\ ~repairing

Recheck(t) ==
    /\ thread[t].pc = "recheck"
    /\ IF ReportedMeanwhile
       THEN /\ repairing' = TRUE
            /\ thread' = [thread EXCEPT ![t] = [thread[t] EXCEPT !.pc = "lock", !.mode = "final"]]
       ELSE /\ thread' = [thread EXCEPT ![t] = Off] /\ UNCHANGED repairing
    /\ UNCHANGED <<cursors, markers, reporter, resync, again, lock, up, bounds>>

CloseFinal(t) ==
    /\ thread[t].pc = "closing"
    /\ repairing' = FALSE
    /\ thread' = [thread EXCEPT ![t] = Off]
    /\ UNCHANGED <<cursors, markers, reporter, resync, again, lock, up, bounds>>
-----------------------------------------------------------------------------
(* RepairHistoryUntilDone and RecoverPendingHistory.                       *)

\* repairMu serialises the repairs of one account.
Enter(t) ==
    /\ thread[t].pc = "lock" /\ lock = None
    /\ lock' = t
    /\ Goto(t, "scan")
    /\ UNCHANGED <<cursors, markers, reporter, resync, flags, up, bounds>>

Done(t) ==
    CASE thread[t].mode = "loop"    -> [thread[t] EXCEPT !.pc = "swap"]
      [] thread[t].mode = "final"   -> [thread[t] EXCEPT !.pc = "closing"]
      [] thread[t].mode = "startup" -> Off

\* The repair ends when no marker is left, and otherwise reads the list of markers again.
Scan(t) ==
    /\ thread[t].pc = "scan"
    /\ IF marker = {}
       THEN lock' = None /\ thread' = [thread EXCEPT ![t] = Done(t)]
       ELSE lock' = lock /\ Goto(t, "list")
    /\ UNCHANGED <<cursors, markers, reporter, resync, flags, up, bounds>>

ListMarkers(t) ==
    /\ thread[t].pc = "list"
    /\ thread' = [thread EXCEPT ![t] = [thread[t] EXCEPT !.pc = "next", !.todo = marker, !.pts = target]]
    /\ UNCHANGED <<cursors, markers, reporter, resync, flags, lock, up, bounds>>

NextRecord(t) ==
    /\ thread[t].pc = "next"
    /\ IF thread[t].todo = {} THEN thread' = [thread EXCEPT ![t] = [thread[t] EXCEPT !.pc = "scan", !.channel = 0]]
       ELSE \E c \in thread[t].todo :
              /\ \A d \in thread[t].todo : c <= d
              /\ thread' = [thread EXCEPT ![t] = [thread[t] EXCEPT !.channel = c,
                                  !.pc = IF thread[t].pts[c] > 0 THEN "walk" ELSE "resolve"]]
    /\ UNCHANGED <<cursors, markers, reporter, resync, flags, lock, up, bounds>>

\* resolveRecoveryPts, then RecordRecovery.
ResolvePts(t) ==
    LET c == thread[t].channel IN
    /\ thread[t].pc = "resolve"
    /\ thread' = [thread EXCEPT ![t] = [thread[t] EXCEPT !.pc = "walk",
                                  !.pts = [thread[t].pts EXCEPT ![c] = posted[c]]]]
    /\ marker' = Recorded(c) /\ target' = KeptPts(c, posted[c])
    /\ UNCHANGED <<cursors, reporter, resync, flags, lock, up, bounds>>

\* recoverChannelHistory walks from the newest message of the first page to the oldest.
FirstPage(t) ==
    /\ thread[t].pc = "walk"
    /\ thread' = [thread EXCEPT ![t] = [thread[t] EXCEPT !.pc = "pages", !.top = posted[thread[t].channel]]]
    /\ UNCHANGED <<cursors, markers, reporter, resync, flags, lock, up, bounds>>

DeliverPages(t) ==
    LET c == thread[t].channel IN
    /\ thread[t].pc = "pages"
    /\ accepted' = [accepted EXCEPT ![c] = @ \cup 1..thread[t].top]
    /\ Goto(t, "complete")
    /\ UNCHANGED <<posted, saved, live, markers, reporter, resync, flags, lock, up, bounds>>

\* CompleteRecovery: the cursor and the marker in one transaction.
CompleteRecovery(t) ==
    LET c == thread[t].channel IN
    /\ thread[t].pc = "complete"
    /\ saved' = [saved EXCEPT ![c] = thread[t].pts[c]]
    /\ marker' = marker \ {c} /\ target' = [target EXCEPT ![c] = 0]
    /\ thread' = [thread EXCEPT ![t] = [thread[t] EXCEPT !.pc = "next", !.todo = thread[t].todo \ {c}]]
    /\ UNCHANGED <<posted, accepted, live, reporter, resync, flags, lock, up, bounds>>

\* A call fails, possibly after the newest pages were delivered: back off, then retry.
RepairFails(t) ==
    LET c == thread[t].channel IN
    /\ thread[t].pc \in {"scan", "list", "resolve", "walk", "pages"}
    /\ spent.failures < MaxFailures
    /\ IF thread[t].pc = "pages"
       THEN \E oldest \in 1..thread[t].top + 1 :
              accepted' = [accepted EXCEPT ![c] = @ \cup oldest..thread[t].top]
       ELSE UNCHANGED accepted
    /\ thread' = [thread EXCEPT ![t] = [Off EXCEPT !.pc = "backoff", !.mode = thread[t].mode]]
    /\ lock' = None
    /\ spent' = [spent EXCEPT !.failures = @ + 1]
    /\ UNCHANGED <<posted, saved, live, markers, reporter, resync, flags, up, overlap>>

BackoffEnds(t) ==
    /\ thread[t].pc = "backoff"
    /\ Goto(t, "lock")
    /\ UNCHANGED <<cursors, markers, reporter, resync, flags, lock, up, bounds>>
-----------------------------------------------------------------------------
\* The account stops or the process ends: only the database survives.
Crash ==
    /\ up /\ spent.crashes < MaxCrashes
    /\ up' = FALSE
    /\ reporter' = [c \in Channels |-> "idle"]
    /\ again' = FALSE /\ repairing' = FALSE
    /\ thread' = [t \in Threads |-> Off] /\ lock' = None
    /\ spent' = [spent EXCEPT !.crashes = @ + 1]
    /\ UNCHANGED <<cursors, markers, resync, overlap>>

\* Mutant: a started account does not repair the gaps of its last run.
StartUnrepaired ==
    /\ ~up /\ up' = TRUE
    /\ live' = saved
    /\ UNCHANGED <<posted, accepted, saved, markers, reporter, resync, flags, thread, lock, bounds>>

\* account.run: gotd resumes at the saved cursor, earlier gaps are repaired in the background.
Start ==
    /\ ~up /\ up' = TRUE
    /\ live' = saved
    /\ thread' = [thread EXCEPT ![Startup] = [Off EXCEPT !.pc = "lock", !.mode = "startup"]]
    /\ UNCHANGED <<posted, accepted, saved, markers, reporter, resync, flags, lock, bounds>>
-----------------------------------------------------------------------------
Report(c) == RecordAgain(c) \/ SetAgain(c) \/ StartLoop(c) \/ Resync(c)

RepairStep(t) ==
    \/ SwapAgain(t) \/ EndLoop(t) \/ Recheck(t) \/ CloseFinal(t)
    \/ Enter(t) \/ Scan(t) \/ ListMarkers(t) \/ NextRecord(t) \/ ResolvePts(t)
    \/ FirstPage(t) \/ DeliverPages(t) \/ CompleteRecovery(t)
    \/ RepairFails(t) \/ BackoffEnds(t)

Next ==
    \/ \E c \in Channels : Post(c) \/ LiveUpdate(c) \/ SetChannelPts(c)
                        \/ DifferenceTooLong(c) \/ Report(c)
    \/ \E t \in Threads : RepairStep(t)
    \/ Crash \/ Start

Spec == Init /\ [][Next]_vars

\* Goroutines keep running, calls have deadlines and failures are bounded; gotd's
\* goroutine finishes the report it began; a stopped account is started again.
Fairness ==
    /\ \A t \in Threads : WF_vars(RepairStep(t))
    /\ \A c \in Channels : WF_vars(Report(c))
    /\ WF_vars(Start)

FairSpec == Spec /\ Fairness
-----------------------------------------------------------------------------
(* Properties.                                                             *)

\* Markers, cursors and goroutines keep their shapes; the goroutine inside the repair
\* holds repairMu and works on a channel it listed.
TypeOK ==
    /\ posted \in [Channels -> Nat] /\ saved \in [Channels -> Nat]
    /\ live \in [Channels -> Nat] /\ resync \in [Channels -> Nat]
    /\ target \in [Channels -> Nat] /\ accepted \in [Channels -> SUBSET Nat]
    /\ marker \subseteq Channels /\ overlap \subseteq Channels
    /\ reporter \in [Channels -> Reports]
    /\ again \in BOOLEAN /\ repairing \in BOOLEAN /\ up \in BOOLEAN
    /\ thread \in [Threads -> [pc: Positions, mode: Modes, todo: SUBSET Channels,
                               pts: [Channels -> Nat], channel: Channels \cup {0}, top: Nat]]
    /\ \A t \in Threads :
          /\ thread[t].pc \in {"scan", "list", "next", "resolve", "walk", "pages", "complete"}
                => lock = t
          /\ thread[t].pc \in {"resolve", "walk", "pages", "complete"}
                => thread[t].channel \in thread[t].todo
    /\ lock \in Threads \cup {None}
    /\ spent \in [gaps: Nat, failures: Nat, crashes: Nat]

Skipped(c) == 1..saved[c] \ accepted[c]

\* A message the durable cursor has passed was accepted, or its channel is marked for
\* recovery: the only exception is a gap reported while the channel was being re-read.
SkippedIsMarked == \A c \in Channels : Skipped(c) # {} => c \in marker \cup overlap

\* The marker survives until every missed message is accepted.
NothingSkipped == \A c \in Channels : Skipped(c) # {} => c \in marker

\* While the account runs, a marked channel has a repair on its way.
RepairIsScheduled ==
    up /\ marker # {} =>
        \/ \E t \in Threads : thread[t].pc # "off"
        \/ \E c \in Channels : reporter[c] # "idle"

\* The flag of the gap callback is set and no loop is left to look at it (the loop's last
\* repair leaves it set, controller.go:637-640).
Unheard == again /\ ~repairing

\* Liveness: a recorded gap is repaired, across failures and restarts of the account,
\* unless its report came after the loop's last look at the flag.
GapIsRepaired == \A c \in Channels : c \in marker ~> c \notin marker \/ Unheard
=============================================================================
