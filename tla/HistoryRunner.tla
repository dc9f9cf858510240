---------------------------- MODULE HistoryRunner ----------------------------
(***************************************************************************)
(* Backfills (app/history_runner.go, app/history_api.go) and the engine    *)
(* gate that starts and stops them (app/monitor_api.go): a durable job row *)
(* with the cursor of the walk, one worker per job while the monitor runs, *)
(* and checkpoints that commit the cursor with the messages they queue.    *)
(*                                                                         *)
(* historyMu covers the row and its copy in historyJobs, so the module     *)
(* keeps one record per job and the set of jobs that are in memory.        *)
(* monitorOp is held over several steps only by `op`; mediaMu is held by   *)
(* a purge between its steps (module Purge), by a checkpoint within one.   *)
(***************************************************************************)
EXTENDS Naturals, FiniteSets

CONSTANTS
    Groups,
    Jobs,           \* job ids, in the order of their requests
    GroupOf,        \* Job -> the group its request resolves to
    NamedJobs,      \* jobs requested by a name that is no group id yet
    Messages,       \* the history of a group is 1..Messages, walked downwards
    Matching,       \* the messages a group's filters accept
    PageSize,
    \* Bounds of the model only.
    MaxStarts, MaxStops, MaxOutages, MaxCancels, MaxSaveFailures, MaxCrashes

ASSUME HistoryAssumption ==
    /\ Jobs \subseteq Nat
    /\ GroupOf \in [Jobs -> Groups]
    /\ NamedJobs \subseteq Jobs
    /\ {Messages, PageSize} \subseteq Nat \ {0}
    /\ Matching \subseteq 1..Messages
    /\ {MaxStarts, MaxStops, MaxOutages, MaxCancels, MaxSaveFailures, MaxCrashes} \subseteq Nat

VARIABLES
    row,        \* Job -> its row of tgdl_history_jobs
    memory,     \* the keys of historyJobs
    held,       \* jobs with job.enginePaused
    worker,     \* Job -> its worker; historyCancel has the job while pc # "none"
    request,    \* Job -> position of the request that creates it
    gate,       \* enginePaused
    saved,      \* durable: monitor.autoStart and monitor.enginePaused
    monitor,    \* "running", "stopped" or "error"
    op,         \* holder of monitorOp between steps
    stopping,   \* position of a monitor stop request
    restart,    \* restartPending
    config,     \* durable: the configured groups
    queue,      \* durable: <<job, message>> rows of tgdl_work
    purge,      \* Key -> the purge's record and position (module Purge)
    owed,       \* purgeResume
    app,        \* "up", "booting" or "down"
    handled,    \* history: Job -> messages its checkpoints covered
    condemned,  \* history: running jobs whose chat was purged
    overtaken,  \* history: requests that were checked before a purge of their chat
    stranded,   \* history: the monitor stopped or started without its operator
    used        \* bounds used

historyVars == <<row, memory, held, worker, request, queue, config, handled>>
engineVars == <<gate, saved, monitor, op, stopping, restart, stranded>>
purgeVars == <<purge, owed, condemned, overtaken>>
vars == <<historyVars, engineVars, purgeVars, app, used>>

Everything == "all"
Keys == Groups \cup {Everything}
NoGroup == "?"

States == {"absent", "running", "done", "error", "cancelled"}
WorkerPositions == {"none", "open", "init", "pages", "page", "finish", "release"}

NoRow == [state |-> "absent", group |-> NoGroup, cancelled |-> FALSE,
          initialized |-> FALSE, cursor |-> 0]
NoWorker == [pc |-> "none", stop |-> FALSE, live |-> FALSE, page |-> {}, failed |-> FALSE]
NoPurge == [phase |-> "none", running |-> FALSE, filesOnly |-> FALSE, pc |-> "none"]

Init ==
    /\ row = [j \in Jobs |-> NoRow]
    /\ memory = {} /\ held = {} /\ queue = {} /\ config = Groups
    /\ worker = [j \in Jobs |-> NoWorker]
    /\ request = [j \in Jobs |-> "none"]
    /\ gate = FALSE /\ saved = [autoStart |-> FALSE, paused |-> FALSE]
    /\ monitor = "stopped" /\ op = "free" /\ stopping = "none" /\ restart = FALSE
    /\ purge = [k \in Keys |-> NoPurge] /\ owed = FALSE
    /\ app = "up"
    /\ handled = [j \in Jobs |-> {}] /\ condemned = {} /\ overtaken = {} /\ stranded = FALSE
    /\ used = [starts |-> 0, stops |-> 0, outages |-> 0, cancels |-> 0, saves |-> 0,
               crashes |-> 0, claims |-> 0, failures |-> 0]

Running(j) == row[j].state = "running"

\* purgePending, and the media lock a purge holds once it has stopped the engine.
PurgePending == \E k \in Keys : purge[k].phase \in {"queued", "committed"}
MediaLocked == \E k \in Keys : purge[k].pc \in {"locked", "cleaning"}
-----------------------------------------------------------------------------
(* Workers.                                                                *)

\* startHistoryWorker.
Startable(j) ==
    /\ j \in memory /\ Running(j) /\ ~row[j].cancelled
    /\ worker[j].pc = "none"

StartWorkers(js) ==
    /\ worker' = [j \in Jobs |-> IF j \in js /\ Startable(j)
                                 THEN [NoWorker EXCEPT !.pc = "open"] ELSE worker[j]]
    /\ held' = held \ {j \in js : Startable(j)}

\* runHistory opens the account while it holds monitorOp.  A monitor that is not running
\* turns the job into a paused one.
OpenHistory(j) ==
    /\ worker[j].pc = "open" /\ op = "free" /\ ~worker[j].stop
    /\ LET open == j \in memory /\ ~row[j].cancelled /\ monitor = "running" IN
       /\ worker' = [worker EXCEPT ![j].pc = IF open THEN "init" ELSE "finish",
                                   ![j].live = open, ![j].failed = ~open]
       /\ held' = IF j \in memory /\ ~row[j].cancelled /\ monitor # "running"
                  THEN held \cup {j} ELSE held
    /\ UNCHANGED <<row, memory, request, queue, config, handled, engineVars, purgeVars,
                   app, used>>

\* The context is cancelled, the session's engine run is over, or Telegram refuses.
Interrupted(j) == worker[j].stop \/ ~worker[j].live

StopWorking(j) ==
    /\ \/ worker[j].pc = "open" /\ worker[j].stop
       \/ worker[j].pc \in {"init", "pages", "page"} /\ Interrupted(j)
    /\ worker' = [worker EXCEPT ![j].pc = "finish", ![j].failed = TRUE, ![j].page = {}]
    /\ UNCHANGED <<row, memory, held, request, queue, config, handled, engineVars,
                   purgeVars, app, used>>

\* The chat cannot be resolved, its page cannot be read, the queue stalls.
HistoryFails(j) ==
    /\ worker[j].pc \in {"init", "pages", "page"}
    /\ worker' = [worker EXCEPT ![j].pc = "finish", ![j].failed = TRUE, ![j].page = {}]
    /\ UNCHANGED <<row, memory, held, request, queue, config, handled, engineVars,
                   purgeVars, app, used>>

\* initializeHistory: the group is found or added, the start of the walk is fixed.  A job
\* that was initialized before does not add a group that was removed since.
CanInitialize(j) ==
    /\ ~PurgePending /\ j \in memory /\ ~row[j].cancelled
    /\ row[j].initialized => row[j].group \in config

InitializeHistory(j) ==
    /\ worker[j].pc = "init" /\ ~worker[j].stop /\ ~MediaLocked
    /\ IF CanInitialize(j)
       THEN /\ row' = [row EXCEPT ![j].initialized = TRUE, ![j].group = GroupOf[j],
                                  ![j].cursor = IF row[j].initialized THEN @
                                                ELSE Messages + 1]
            /\ config' = config \cup {GroupOf[j]}
            /\ worker' = [worker EXCEPT ![j].pc = "pages"]
       ELSE /\ worker' = [worker EXCEPT ![j].pc = "finish", ![j].failed = TRUE]
            /\ UNCHANGED <<row, config>>
    /\ UNCHANGED <<memory, held, request, queue, handled, engineVars, purgeVars, app, used>>

\* Mutant: The walk goes down to a message 0.
BelowWithZero(cursor) == 0..(cursor - 1)

Below(cursor) == 1..(cursor - 1)

\* Session.Page: the newest messages below the cursor.
Page(cursor) ==
    {m \in Below(cursor) : Cardinality({n \in Below(cursor) : n > m}) < PageSize}

ReadPage(j) ==
    /\ worker[j].pc = "pages" /\ ~Interrupted(j)
    /\ j \in memory /\ ~row[j].cancelled
    /\ LET page == Page(row[j].cursor) IN
       worker' = [worker EXCEPT ![j].pc = IF page = {} THEN "finish" ELSE "page",
                                ![j].page = page]
    /\ UNCHANGED <<row, memory, held, request, queue, config, handled, engineVars,
                   purgeVars, app, used>>

\* historyCopy: the job is gone or cancelled.
CopyRefused(j) ==
    /\ worker[j].pc = "pages" /\ (j \notin memory \/ row[j].cancelled)
    /\ worker' = [worker EXCEPT ![j].pc = "finish", ![j].failed = TRUE]
    /\ UNCHANGED <<row, memory, held, request, queue, config, handled, engineVars,
                   purgeVars, app, used>>

\* Mutant: The cursor of the whole page is saved with its first message.
CheckpointWholePage(j, m) == CHOOSE n \in worker[j].page : \A o \in worker[j].page : n <= o

CheckpointCursor(j, m) == m

\* The refusals of checkpointHistory.
CanCheckpoint(j) == ~PurgePending /\ j \in memory /\ ~row[j].cancelled

\* checkpointHistory: the cursor, the queued message and the job row commit together.
Checkpoint(j) ==
    /\ worker[j].pc = "page" /\ ~worker[j].stop /\ ~MediaLocked
    /\ LET m == CHOOSE n \in worker[j].page : \A o \in worker[j].page : n >= o
           left == worker[j].page \ {m} IN
       IF CanCheckpoint(j) /\ m < row[j].cursor
       THEN /\ row' = [row EXCEPT ![j].cursor = CheckpointCursor(j, m)]
            /\ queue' = IF m \in Matching THEN queue \cup {<<j, m>>} ELSE queue
            /\ handled' = [handled EXCEPT ![j] = @ \cup {m}]
            /\ worker' = [worker EXCEPT ![j].pc = IF left = {} THEN "pages" ELSE "page",
                                        ![j].page = left]
       ELSE /\ worker' = [worker EXCEPT ![j].pc = "finish", ![j].failed = TRUE,
                                        ![j].page = {}]
            /\ UNCHANGED <<row, queue, handled>>
    /\ UNCHANGED <<memory, held, request, config, engineVars, purgeVars, app, used>>

\* finishHistory: an engine stop is a pause and leaves the row; a cancellation is final.
Outcome(j) ==
    IF j \in held /\ ~row[j].cancelled THEN "running"
    ELSE IF row[j].cancelled THEN "cancelled"
    ELSE IF worker[j].failed THEN "error" ELSE "done"

FinishHistory(j, persisted) ==
    /\ worker[j].pc = "finish"
    /\ persisted \/ used.saves < MaxSaveFailures
    /\ used' = IF persisted THEN used ELSE [used EXCEPT !.saves = @ + 1]
    /\ row' = IF j \in memory /\ persisted THEN [row EXCEPT ![j].state = Outcome(j)] ELSE row
    /\ worker' = [worker EXCEPT ![j].pc = "release"]
    /\ UNCHANGED <<memory, held, request, queue, config, handled, engineVars, purgeVars, app>>

\* Mutant: A worker that ends never looks whether its job goes on.
ResumesNever(j) == FALSE

\* The end of the worker's goroutine: a job that is still running starts again.
Resumes(j) ==
    ~gate /\ monitor = "running" /\ j \in memory /\ Running(j) /\ ~row[j].cancelled

ReleaseWorker(j) ==
    /\ worker[j].pc = "release"
    /\ worker' = [worker EXCEPT ![j] = IF Resumes(j) THEN [NoWorker EXCEPT !.pc = "open"]
                                       ELSE NoWorker]
    /\ held' = IF Resumes(j) THEN held \ {j} ELSE held
    /\ UNCHANGED <<row, memory, request, queue, config, handled, engineVars, purgeVars,
                   app, used>>
-----------------------------------------------------------------------------
(* Requests.                                                               *)

RequestedGroup(j) == IF j \in NamedJobs THEN NoGroup ELSE GroupOf[j]

\* ALREADY_RUNNING.
Occupied(j) ==
    j \notin NamedJobs /\ \E i \in memory : Running(i) /\ row[i].group = GroupOf[j]

\* handleHistoryStart refuses without a running monitor, for a group with a running job,
\* and while a purge is pending.
CheckRequest(j) ==
    /\ app = "up" /\ request[j] = "none" /\ \A i \in Jobs : i < j => request[i] # "none"
    /\ monitor = "running" /\ ~Occupied(j) /\ ~PurgePending
    /\ request' = [request EXCEPT ![j] = "checked"]
    /\ UNCHANGED <<row, memory, held, worker, queue, config, handled, engineVars, purgeVars,
                   app, used>>

\* Mutant: The group is only looked up before the request is prepared.
OccupiedNot(j) == FALSE

\* The group is looked up again when the row is inserted.
OccupiedNow(j) == Occupied(j)

InsertJob(j) ==
    /\ request[j] = "checked"
    /\ IF OccupiedNow(j)
       THEN /\ request' = [request EXCEPT ![j] = "answered"]
            /\ UNCHANGED <<row, memory>>
       ELSE /\ request' = [request EXCEPT ![j] = "inserted"]
            /\ row' = [row EXCEPT ![j] = [NoRow EXCEPT !.state = "running",
                                                       !.group = RequestedGroup(j)]]
            /\ memory' = memory \cup {j}
    /\ UNCHANGED <<held, worker, queue, config, handled, engineVars, purgeVars, app, used>>

StartJob(j) ==
    /\ request[j] = "inserted"
    /\ request' = [request EXCEPT ![j] = "answered"]
    /\ IF ~gate /\ monitor = "running" THEN StartWorkers({j})
       ELSE UNCHANGED <<worker, held>>
    /\ UNCHANGED <<row, memory, queue, config, handled, engineVars, purgeVars, app, used>>

\* handleHistoryCancel: persisted before it is answered; a live worker is cancelled.
CancelJob(j) ==
    /\ app = "up" /\ j \in memory /\ Running(j) /\ used.cancels < MaxCancels
    /\ row' = [row EXCEPT ![j].cancelled = TRUE]
    /\ worker' = [worker EXCEPT ![j].stop = @ \/ worker[j].pc # "none"]
    /\ used' = [used EXCEPT !.cancels = @ + 1]
    /\ UNCHANGED <<memory, held, request, queue, config, handled, engineVars, purgeVars, app>>

\* deleteHistory, one job or all of them: only finished jobs leave.
Finished(j) == row[j].state \in {"done", "error", "cancelled"}

DeleteJobs(js) ==
    /\ app = "up" /\ js # {}
    /\ row' = [j \in Jobs |-> IF j \in js /\ Finished(j) THEN NoRow ELSE row[j]]
    /\ memory' = memory \ {j \in js : Finished(j)}
    /\ UNCHANGED <<held, worker, request, queue, config, handled, engineVars, purgeVars,
                   app, used>>

DeleteJob == \E j \in Jobs : Finished(j) /\ DeleteJobs({j})
ClearJobs == DeleteJobs({j \in Jobs : Finished(j)})
-----------------------------------------------------------------------------
(* The engine gate.                                                        *)

\* pauseHistoryWorkers: running jobs are paused and every worker is cancelled.
PausedJobs == {j \in memory : Running(j) /\ ~row[j].cancelled}
Cancelled(w) == [j \in Jobs |-> [w[j] EXCEPT !.stop = @ \/ w[j].pc # "none"]]

\* The engine run ends: every session of it fails from now on.
Disconnected(w) == [j \in Jobs |-> [w[j] EXCEPT !.live = FALSE]]

PauseAndStop ==
    /\ gate' = TRUE /\ monitor' = "stopped"
    /\ held' = held \cup PausedJobs
    /\ worker' = Disconnected(Cancelled(worker))

\* handleMonitorStop: first without monitorOp, to interrupt a start in progress ...
BeginStop ==
    /\ app = "up" /\ stopping = "none" /\ used.stops < MaxStops
    /\ stopping' = "begun" /\ used' = [used EXCEPT !.stops = @ + 1]
    /\ PauseAndStop
    /\ UNCHANGED <<row, memory, request, queue, config, handled, saved, op, restart, stranded,
                   purgeVars, app>>

\* ... then again under it, and the choice is saved; the answer waits for the workers.
EndStop ==
    /\ stopping = "begun" /\ op = "free"
    /\ stopping' = "waiting"
    /\ PauseAndStop
    /\ saved' = [autoStart |-> FALSE, paused |-> TRUE]
    /\ UNCHANGED <<row, memory, request, queue, config, handled, op, restart, stranded,
                   purgeVars, app, used>>

AnswerStop ==
    /\ stopping = "waiting" /\ \A j \in Jobs : worker[j].pc = "none"
    /\ stopping' = "none"
    /\ UNCHANGED <<historyVars, gate, saved, monitor, op, restart, stranded, purgeVars, app,
                   used>>

\* startMonitorDetached: start or restart, holding monitorOp until the workers resume.
BeginStart(again) ==
    /\ app = "up" /\ op = "free" /\ used.starts < MaxStarts
    /\ op' = "start" /\ used' = [used EXCEPT !.starts = @ + 1]
    /\ IF again THEN PauseAndStop ELSE UNCHANGED <<gate, monitor, held, worker>>
    /\ UNCHANGED <<row, memory, request, queue, config, handled, saved, stopping, restart,
                   stranded, purgeVars, app>>

StartEngine ==
    /\ op \in {"start", "boot"}
    /\ ~PurgePending
    /\ op' = (IF op = "start" THEN "started" ELSE "booted")
    /\ monitor' = "running"
    /\ UNCHANGED <<historyVars, gate, saved, stopping, restart, stranded, purgeVars, app, used>>

\* A purge is pending, the accounts are missing, or a stop interrupted the start.
StartFails ==
    /\ op \in {"start", "boot"}
    /\ op' = "free"
    /\ UNCHANGED <<historyVars, gate, saved, monitor, stopping, restart, stranded, purgeVars,
                   app, used>>

\* resumeHistoryWorkers, after the choice is saved (a boot does not save it again).
ResumeHistory ==
    /\ op \in {"started", "booted"}
    /\ op' = "free" /\ gate' = FALSE
    /\ saved' = IF op = "started" THEN [autoStart |-> TRUE, paused |-> FALSE] ELSE saved
    /\ IF monitor = "running"
       THEN /\ StartWorkers({j \in memory : Running(j) /\ ~row[j].cancelled})
            /\ stranded' = FALSE
       ELSE UNCHANGED <<worker, held, stranded>>
    /\ UNCHANGED <<row, memory, request, queue, config, handled, monitor, stopping, restart,
                   purgeVars, app, used>>

\* The engine ends on an error of its own and schedules a restart ...
MonitorFails ==
    /\ monitor = "running" /\ used.outages < MaxOutages
    /\ monitor' = "error" /\ restart' = TRUE /\ stranded' = TRUE
    /\ worker' = Disconnected(worker)
    /\ used' = [used EXCEPT !.outages = @ + 1]
    /\ UNCHANGED <<row, memory, held, request, queue, config, handled, gate, saved, op,
                   stopping, purgeVars, app>>

\* ... which starts it again if the operator left it on (monitorShouldRestart), and
\* resumes no backfill.
ShouldRestart == saved.autoStart /\ monitor # "running"

RestartMonitor ==
    /\ app = "up" /\ restart /\ op = "free"
    /\ restart' = FALSE
    /\ monitor' = IF ShouldRestart /\ ~PurgePending THEN "running" ELSE monitor
    /\ UNCHANGED <<historyVars, gate, saved, op, stopping, stranded, purgeVars, app, used>>

(* The process.                                                            *)

\* Mutant: A new process forgets the pause.
BootGateOpen(s) == FALSE

\* A new process starts paused if the operator stopped the monitor.
BootGate(s) == s.paused

Crash ==
    /\ app # "down" /\ used.crashes < MaxCrashes
    /\ app' = "down" /\ used' = [used EXCEPT !.crashes = @ + 1]
    /\ memory' = {} /\ held' = {} /\ worker' = [j \in Jobs |-> NoWorker]
    /\ request' = [j \in Jobs |-> IF request[j] = "none" THEN "none" ELSE "answered"]
    /\ monitor' = "stopped" /\ op' = "free" /\ stopping' = "none" /\ restart' = FALSE
    /\ stranded' = FALSE
    /\ purge' = [k \in Keys |-> [purge[k] EXCEPT !.pc = "none"]] /\ owed' = FALSE
    /\ UNCHANGED <<row, queue, config, handled, gate, saved, condemned, overtaken>>

Boot ==
    /\ app = "down" /\ app' = "booting"
    /\ gate' = BootGate(saved)
    /\ UNCHANGED <<historyVars, saved, monitor, op, stopping, restart, stranded, purgeVars,
                   used>>

\* After the pending purges: recoverHistoryJobs, then the automatic start.
Serve ==
    /\ app = "booting" /\ ~PurgePending /\ op = "free"
    /\ app' = "up"
    /\ memory' = {j \in Jobs : Running(j)}
    /\ op' = IF saved.autoStart THEN "boot" ELSE "free"
    /\ UNCHANGED <<row, held, worker, request, queue, config, handled, gate, saved, monitor,
                   stopping, restart, stranded, purgeVars, used>>
-----------------------------------------------------------------------------
WorkerStep(j) ==
    \/ OpenHistory(j) \/ StopWorking(j) \/ InitializeHistory(j)
    \/ ReadPage(j) \/ CopyRefused(j) \/ Checkpoint(j)
    \/ \E persisted \in BOOLEAN : FinishHistory(j, persisted)
    \/ ReleaseWorker(j)

RequestStep ==
    \E j \in Jobs : CheckRequest(j) \/ InsertJob(j) \/ StartJob(j) \/ CancelJob(j)

EngineStep ==
    \/ BeginStop \/ EndStop \/ AnswerStop
    \/ \E again \in BOOLEAN : BeginStart(again)
    \/ StartEngine \/ StartFails \/ ResumeHistory
    \/ MonitorFails \/ RestartMonitor

HistoryNext ==
    \/ \E j \in Jobs : WorkerStep(j) \/ HistoryFails(j)
    \/ RequestStep \/ DeleteJob \/ ClearJobs
    \/ EngineStep
    \/ Crash \/ Boot \/ Serve
=============================================================================
