-------------------------------- MODULE Purge --------------------------------
(***************************************************************************)
(* Purges of one chat or of everything (app/purge_api.go) beside the       *)
(* backfills they interrupt.  A purge is durable before it is accepted,    *)
(* commits its deletions with its plan, and repeats the cleanup until it   *)
(* is done.  It holds monitorOp throughout and mediaMu from the stop of    *)
(* the engine on; a process that starts runs the pending ones first.       *)
(***************************************************************************)
EXTENDS HistoryRunner

CONSTANTS
    FilesOnly,      \* may a chat's files be deleted without the chat
    \* Bounds of the model only.
    MaxPurges, MaxPurgeFailures

ASSUME PurgeAssumption ==
    /\ FilesOnly \in BOOLEAN
    /\ {MaxPurges, MaxPurgeFailures} \subseteq Nat
    /\ Everything \notin Groups

Phases == {"none", "queued", "committed", "done"}
PurgePositions == {"none", "claimed", "locked", "cleaning"}

Pending(k) == purge[k].phase \in {"queued", "committed"}
Overlap(k, l) == k = l \/ k = Everything \/ l = Everything

\* claimPurge: another purge of the same data is pending, or this one still runs.
Refused(k, filesOnly) ==
    \/ \E l \in Keys : Pending(l) /\ Overlap(k, l) /\ (purge[l].running \/ l # k)
    \/ Pending(k) /\ purge[k].filesOnly # filesOnly

ClaimPurge(k, filesOnly) ==
    /\ app = "up" /\ used.claims < MaxPurges
    /\ ~Refused(k, filesOnly)
    /\ filesOnly => FilesOnly /\ k # Everything
    /\ purge' = [purge EXCEPT ![k] =
          [phase |-> IF Pending(k) THEN @.phase ELSE "queued",
           running |-> TRUE, filesOnly |-> filesOnly, pc |-> "claimed"]]
    /\ used' = [used EXCEPT !.claims = @ + 1]
    /\ UNCHANGED <<historyVars, engineVars, owed, condemned, overtaken, app>>

\* runPurgeLocked joins the engine before it locks the library.  A running monitor is
\* owed a restart.
LockPurge(k) ==
    /\ op = "free"
    /\ \/ app = "up" /\ purge[k].pc = "claimed"
       \/ app = "booting" /\ Pending(k) /\ purge[k].pc = "none"
    /\ op' = "purge"
    /\ purge' = [purge EXCEPT ![k].pc = "locked", ![k].running = TRUE]
    /\ owed' = (owed \/ monitor = "running")
    /\ stranded' = (stranded \/ monitor = "running")
    /\ monitor' = IF monitor = "running" THEN "stopped" ELSE monitor
    /\ worker' = Disconnected(worker)
    /\ UNCHANGED <<row, memory, held, request, queue, config, handled, gate, saved, stopping,
                   restart, condemned, overtaken, app, used>>

\* Mutant: Jobs that are not resolved yet are left alone.
PurgedResolvedJob(k, j) ==
    Running(j) /\ (k = Everything \/ row[j].group = k)

\* The backfills a purge removes: those of its chats, and those not resolved yet.
PurgedJob(k, j) ==
    Running(j) /\ (k = Everything \/ row[j].group = k \/ ~row[j].initialized)

PurgedGroups(k) == IF k = Everything THEN Groups ELSE {k}

PurgedQueue(k) == {q \in queue : GroupOf[q[1]] \notin PurgedGroups(k)}

\* commitPurge: one transaction, then the jobs in memory.
CommitPurge(k) ==
    /\ purge[k].pc = "locked"
    /\ LET gone == {j \in Jobs : PurgedJob(k, j)} IN
       IF purge[k].phase = "queued"
       THEN /\ row' = [j \in Jobs |-> IF j \in gone THEN NoRow ELSE row[j]]
            /\ memory' = memory \ gone
            /\ worker' = [j \in Jobs |->
                  [worker[j] EXCEPT !.stop = @ \/ (j \in gone /\ worker[j].pc # "none")]]
            /\ queue' = PurgedQueue(k)
            /\ config' = IF purge[k].filesOnly THEN config ELSE config \ PurgedGroups(k)
            /\ condemned' = condemned \cup
                  {j \in Jobs : Running(j) /\ GroupOf[j] \in PurgedGroups(k)}
            /\ overtaken' = overtaken \cup
                  {j \in Jobs : request[j] = "checked" /\ GroupOf[j] \in PurgedGroups(k)}
            /\ purge' = [purge EXCEPT ![k].pc = "cleaning", ![k].phase = "committed"]
       ELSE /\ purge' = [purge EXCEPT ![k].pc = "cleaning"]
            /\ UNCHANGED <<row, memory, worker, queue, config, condemned, overtaken>>
    /\ UNCHANGED <<held, request, handled, engineVars, owed, app, used>>

\* cleanPurge drains the outbox and removes what is left; then the media lock is released.
CleanPurge(k) ==
    /\ purge[k].pc = "cleaning"
    /\ purge' = [purge EXCEPT ![k].pc = "none", ![k].phase = "done", ![k].running = FALSE]
    /\ op' = "resume"
    /\ UNCHANGED <<historyVars, gate, saved, monitor, stopping, restart, stranded, owed,
                   condemned, overtaken, app, used>>

\* The engine is restarted by the last purge, and not while a process starts.
ResumeDue == owed /\ ~PurgePending

ResumeEngine ==
    /\ op = "resume"
    /\ op' = "free"
    /\ owed' = (owed /\ ~ResumeDue)
    /\ \/ monitor' = IF ResumeDue /\ app = "up" THEN "running" ELSE monitor
       \/ monitor' = monitor
    /\ UNCHANGED <<historyVars, gate, saved, stopping, restart, stranded, purge, condemned,
                   overtaken, app, used>>

\* Mutant: A purge that fails keeps monitorOp.
HeldAfterFailure == "purge"

OpAfterFailure == "free"

\* A stop of the engine, a statement or the cleanup fails: the purge keeps its phase and
\* can be asked for again.  A process that cannot finish its purges does not start.
FailPurge(k) ==
    /\ purge[k].pc \in {"locked", "cleaning"} /\ used.failures < MaxPurgeFailures
    /\ purge' = [purge EXCEPT ![k].pc = "none", ![k].running = FALSE]
    /\ op' = OpAfterFailure /\ used' = [used EXCEPT !.failures = @ + 1]
    /\ app' = IF app = "booting" THEN "down" ELSE app
    /\ UNCHANGED <<historyVars, gate, saved, monitor, stopping, restart, stranded, owed,
                   condemned, overtaken>>

PurgeStep(k) == LockPurge(k) \/ CommitPurge(k) \/ CleanPurge(k)

Next ==
    \/ HistoryNext \/ ResumeEngine
    \/ \E k \in Keys :
          \/ \E filesOnly \in BOOLEAN : ClaimPurge(k, filesOnly)
          \/ PurgeStep(k) \/ FailPurge(k)

Spec == Init /\ [][Next]_vars

\* Every handler and worker is a goroutine that keeps running and whose requests have
\* deadlines; monitorOp is free again and again, and its waiters are served.
Fairness ==
    /\ \A j \in Jobs : WF_vars(WorkerStep(j)) /\ WF_vars(InsertJob(j) \/ StartJob(j))
    /\ \A k \in Keys : WF_vars(PurgeStep(k))
    /\ WF_vars(EndStop \/ AnswerStop)
    /\ WF_vars(StartEngine \/ StartFails \/ ResumeHistory \/ ResumeEngine)
    /\ WF_vars(Boot \/ Serve)

FairSpec == Spec /\ Fairness
-----------------------------------------------------------------------------
(* Properties.                                                             *)

\* Rows, workers, purges and the engine's flags keep the values the code stores.
TypeOK ==
    /\ row \in [Jobs -> [state: States, group: Groups \cup {NoGroup}, cancelled: BOOLEAN,
                         initialized: BOOLEAN, cursor: 0..Messages + 1]]
    /\ memory \subseteq Jobs /\ held \subseteq Jobs
    /\ condemned \subseteq Jobs /\ overtaken \subseteq Jobs
    /\ worker \in [Jobs -> [pc: WorkerPositions, stop: BOOLEAN, live: BOOLEAN,
                            page: SUBSET (1..Messages), failed: BOOLEAN]]
    /\ request \in [Jobs -> {"none", "checked", "inserted", "answered"}]
    /\ <<gate, restart, owed, stranded>> \in BOOLEAN \X BOOLEAN \X BOOLEAN \X BOOLEAN
    /\ saved \in [autoStart: BOOLEAN, paused: BOOLEAN]
    /\ monitor \in {"running", "stopped", "error"}
    /\ op \in {"free", "start", "boot", "started", "booted", "purge", "resume"}
    /\ stopping \in {"none", "begun", "waiting"} /\ app \in {"up", "booting", "down"}
    /\ config \subseteq Groups /\ queue \subseteq Jobs \X (1..Messages)
    /\ purge \in [Keys -> [phase: Phases, running: BOOLEAN, filesOnly: BOOLEAN,
                           pc: PurgePositions]]
    /\ handled \in [Jobs -> SUBSET (1..Messages)]

\* A resumable walk skips nothing and repeats nothing: through pauses, crashes and errors
\* the messages a job has handled are exactly those at and above its durable cursor, and a
\* job that is 'done' has handled all of them.
CursorCoversHandled ==
    \A j \in Jobs : row[j].state # "absent" /\ row[j].initialized =>
        /\ handled[j] = {m \in 1..Messages : m >= row[j].cursor}
        /\ row[j].state = "done" => handled[j] = 1..Messages

\* What a purge removed stays removed: a backfill of a purged chat, resolved or not, never
\* comes back or queues a message, however late its worker notices.
PurgedJobsAreGone ==
    \A j \in condemned : row[j].state = "absent" /\ \A m \in 1..Messages : <<j, m>> \notin queue

\* A chat has one backfill at a time, whatever requests, pauses and restarts overlap (for
\* jobs requested by id; a name is resolved later and compared with nothing).
OneBackfillPerChat ==
    \A i, j \in Jobs \ NamedJobs :
        Running(i) /\ Running(j) /\ row[i].group = row[j].group => i = j

\* An operator's stop, once answered, survives everything but an operator's start: crashes,
\* scheduled restarts and a single purge do not start the engine again.
AnsweredStopHolds ==
    saved.paused /\ stopping = "none" /\ op \in {"free", "purge", "resume"} /\ app # "down"
        => monitor # "running" /\ gate

\* Liveness: a job whose engine stays on is settled, provided the engine was not stopped
\* and started behind the operator's back.
EngineOn == app = "up" /\ monitor = "running" /\ ~gate /\ op = "free" /\ ~stranded

BackfillIsSettled ==
    \A j \in Jobs :
        <>[]EngineOn => (Running(j) /\ ~row[j].cancelled
                           ~> ~Running(j) \/ row[j].cancelled)

\* Liveness: an accepted purge ends, by itself or with the process: it never waits for a
\* worker that waits for it.
PurgeEnds == \A k \in Keys : purge[k].running ~> ~purge[k].running \/ app = "down"

\* A cancelled backfill is finished: it leaves 'running', so that its chat can be
\* backfilled again.
CancelledIsFinished ==
    \A j \in Jobs : <>[]EngineOn => (Running(j) /\ row[j].cancelled ~> ~Running(j))

\* Every running backfill is settled while the engine stays on.
NothingIsStranded ==
    \A j \in Jobs :
        <>[](app = "up" /\ monitor = "running" /\ ~gate /\ op = "free")
            => (Running(j) /\ ~row[j].cancelled ~> ~Running(j) \/ row[j].cancelled)

\* A request that a purge overtook registers no purged chat after it.
PurgedChatStaysUnregistered ==
    [][\A j \in overtaken : worker[j].pc = "init" => config' = config]_vars

\* No page is skipped, no chat read twice at once, and a backfill that was stopped stays so.
BackfillsAreSound == CursorCoversHandled /\ OneBackfillPerChat /\ AnsweredStopHolds

\* Backfills and purges come to an end.
HistoryWorkEnds == BackfillIsSettled /\ PurgeEnds
=============================================================================
