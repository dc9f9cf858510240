--------------------------- MODULE MonitorControl ---------------------------
(***************************************************************************)
(* Who starts and stops the monitor, and the end of the server             *)
(* (monitor_api.go, ambient.go, app.go, maintenance_lifecycle.go, of       *)
(* accounts_api.go and purge_api.go what stops the monitor and starts it   *)
(* again): the operator, the start of the process, restarts after errors,  *)
(* the watchdog, a new account and a purge, one at a time under monitorOp, *)
(* except that a stop also cancels a start under way.  A run of the engine *)
(* for jobs only counts as stopped, as its status says.                    *)
(***************************************************************************)
EXTENDS Naturals, FiniteSets

CONSTANTS
  Requests,      \* requests of the operator, each made once
  Restarts,      \* jobs that restart the monitor after an error
  Unheld,          \* monitorOp: not held
  MaxMonitorErrors, MaxMonitorBoots \* bounds

ASSUME MonitorAssumption ==
  /\ {MaxMonitorErrors, MaxMonitorBoots} \subseteq Nat
  /\ Requests \cap Restarts = {}
  /\ (Requests \cup Restarts) \cap {"boot", "watchdog", "purge", "close"} = {}
  /\ Unheld \notin Requests \cup Restarts \cup {"boot", "watchdog", "purge", "close"}

VARIABLES
  monitor,        \* the state of the engine's run
  autoStart,      \* monitor.autoStart, saved
  op,             \* who holds monitorOp
  actor,          \* actor -> its step
  kind,           \* request -> "start", "restart", "stop" or "account", "none" before it is made
  restartPending,
  purging,        \* the purge: "none", "pending" (saved, its worker failed) or "running"
  purgeResume,    \* start the monitor after the purge?
  wasRunning,     \* account: the monitor ran when it took the lock
  closer,         \* steps Close has done
  stopped,        \* history: was a stop answered last?  "unless" a start with the process or an unfinished
                  \* purge's was still to come, or "yes"
  errors, boots   \* bounds

monitorVars == <<monitor, autoStart, op, actor, kind, restartPending, purging, purgeResume, wasRunning,
                 closer, stopped, errors, boots>>

Actors == Requests \cup Restarts \cup {"boot", "watchdog", "purge"}

\* Close, step by step, and the process is gone.
Cancelled == 3
DbClosed == 10
maintenanceClosed == closer >= 1
purgeClosed == closer >= 2
Over(x) == actor[x] \in {"off", "done"}

MonitorInit ==
  /\ monitor = "stopped" /\ autoStart \in BOOLEAN /\ op = Unheld
  /\ actor = [x \in Actors |-> IF x # "boot" THEN "off" ELSE IF autoStart THEN "lock" ELSE "done"]
  /\ kind = [q \in Requests |-> "none"] /\ restartPending = FALSE
  /\ purging = "none" /\ purgeResume = FALSE /\ wasRunning = FALSE /\ closer = 0
  /\ stopped = "no" /\ errors = 0 /\ boots = 0

Steps(x, pc) == actor' = [actor EXCEPT ![x] = pc]
-----------------------------------------------------------------------------
(* The engine's run, and restarts after an error.                          *)

Error == errors < MaxMonitorErrors /\ errors' = errors + 1

\* Mutant: jobs are accepted while the server stops.
AlwaysAdmitted == TRUE

\* beginMaintenance: no job once Close has begun.
Admitted == ~maintenanceClosed /\ closer < Cancelled

\* scheduleMonitorRestart: one timer at a time.
Schedule(x, pc) ==
  IF restartPending \/ ~Admitted THEN Steps(x, pc) /\ UNCHANGED restartPending
  ELSE \E r \in Restarts :
         /\ actor[r] = "off" /\ restartPending' = TRUE
         /\ actor' = [actor EXCEPT ![x] = pc, ![r] = "timer"]

\* A run ends on an error, or, as a cancelled one does, on none.
MonitorFails ==
  /\ monitor = "running" /\ Error /\ monitor' = "error" /\ Schedule("boot", actor["boot"])
  /\ UNCHANGED <<autoStart, op, kind, purging, purgeResume, wasRunning, closer, stopped, boots>>

MonitorEnds ==
  /\ monitor = "running" /\ ((closer >= Cancelled /\ UNCHANGED errors) \/ Error) /\ monitor' = "stopped"
  /\ UNCHANGED <<autoStart, op, actor, kind, restartPending, purging, purgeResume, wasRunning, closer, stopped, boots>>

\* startTelegramEngine, under monitorOp: not during a purge, nor when it runs.
Prepare(x) ==
  /\ actor[x] = "prepare" /\ op = x
  /\ IF purging # "none" \/ monitor = "running" \/ closer >= Cancelled
     THEN Steps(x, "failed") /\ UNCHANGED monitor
     ELSE Steps(x, "connecting") /\ monitor' = "starting"
  /\ UNCHANGED <<autoStart, op, kind, restartPending, purging, purgeResume, wasRunning, closer, stopped, errors, boots>>

\* The configuration cannot be read, names no account or is refused.
PrepareFails(x) ==
  /\ actor[x] = "prepare" /\ op = x /\ Error /\ Steps(x, "failed")
  /\ UNCHANGED <<monitor, autoStart, op, kind, restartPending, purging, purgeResume, wasRunning, closer, stopped, boots>>

\* The accounts are ready, unless a stop or the end of the server cancelled the start.
Connected(x) ==
  /\ actor[x] = "connecting"
  /\ IF monitor = "starting" /\ closer < Cancelled THEN monitor' = "running" /\ Steps(x, "started")
     ELSE monitor' = "stopped" /\ Steps(x, "failed")
  /\ UNCHANGED <<autoStart, op, kind, restartPending, purging, purgeResume, wasRunning, closer, stopped, errors, boots>>

ConnectFails(x) ==
  /\ actor[x] = "connecting" /\ monitor = "starting" /\ Error
  /\ monitor' = "error" /\ Schedule(x, "failed")
  /\ UNCHANGED <<autoStart, op, kind, purging, purgeResume, wasRunning, closer, stopped, boots>>

TakeOp(x) ==
  /\ actor[x] = "lock" /\ op = Unheld /\ op' = x
  /\ Steps(x, CASE x \in Restarts -> "check" [] x = "purge" -> "status" [] x = "boot" -> "prepare"
               [] x \in Requests /\ kind[x] = "start" -> "prepare"
               [] x \in Requests /\ kind[x] = "account" -> "status" [] OTHER -> "stop")
  /\ UNCHANGED <<monitor, autoStart, kind, restartPending, purging, purgeResume, wasRunning, closer, stopped, errors, boots>>

Unlock(x) == op = x /\ op' = Unheld
-----------------------------------------------------------------------------
(* The operator.                                                           *)

\* A start or a restart is a job of the server's own, a new account one of its wizard's.
Ask(q, what) ==
  /\ kind[q] = "none" /\ closer < DbClosed
  /\ what \in {"start", "restart"} => Admitted
  /\ what = "account" => closer < Cancelled
  /\ kind' = [kind EXCEPT ![q] = what]
  /\ Steps(q, IF what = "stop" THEN "first" ELSE "lock")
  /\ stopped' = IF what \in {"stop", "account"} THEN stopped ELSE "no"
  /\ UNCHANGED <<monitor, autoStart, op, restartPending, purging, purgeResume, wasRunning, closer, errors, boots>>

Halt == monitor' = IF monitor \in {"running", "starting"} THEN "stopped" ELSE monitor

\* handleMonitorStop cancels a start under way before it waits for the lock.
FirstStop(q) ==
  /\ actor[q] = "first" /\ Halt /\ Steps(q, "lock")
  /\ UNCHANGED <<autoStart, op, kind, restartPending, purging, purgeResume, wasRunning, closer, stopped, errors, boots>>

\* Mutant: one stop is enough.
NotAgain(q) == IF kind[q] = "stop" THEN UNCHANGED monitor ELSE Halt

\* The stop once more: what was being prepared during the first has started by now.
StopsAgain(q) == Halt

StopUnderLock(q) ==
  /\ actor[q] = "stop" /\ op = q /\ StopsAgain(q) /\ Steps(q, IF kind[q] = "restart" THEN "prepare" ELSE "save")
  /\ UNCHANGED <<autoStart, op, kind, restartPending, purging, purgeResume, wasRunning, closer, stopped, errors, boots>>

\* setAutoStart and the answer.  Requests still on their way are not covered by the answer to a stop.
SaveAutoStart(q) ==
  /\ q \in Requests /\ Unlock(q) /\ closer < DbClosed
  /\ \/ actor[q] = "save" /\ autoStart' = FALSE
     \/ actor[q] = "started" /\ kind[q] # "account" /\ autoStart' = TRUE
  /\ Steps(q, "done")
  /\ stopped' = IF autoStart' \/ (\E p \in Requests \ {q} : kind[p] \in {"start", "restart"} /\ ~Over(p)) THEN "no"
                ELSE IF actor["boot"] # "done" \/ purgeResume THEN "unless" ELSE "yes"
  /\ UNCHANGED <<monitor, kind, restartPending, purging, purgeResume, wasRunning, closer, errors, boots>>

\* The start failed, or is over; nothing can be saved any more.
EndRequest(q) ==
  /\ actor[q] = "failed" \/ (actor[q] = "started" /\ (kind[q] = "account" \/ closer >= Cancelled))
  /\ Unlock(q) /\ Steps(q, "done")
  /\ UNCHANGED <<monitor, autoStart, kind, restartPending, purging, purgeResume, wasRunning, closer, stopped, errors, boots>>

\* The request behind a stop is given up, or finds the database closed.
StopGivenUp(q) ==
  /\ \/ actor[q] \in {"first", "lock"} /\ kind[q] = "stop" /\ UNCHANGED op
     \/ actor[q] \in {"stop", "save"} /\ kind[q] = "stop" /\ Unlock(q)
  /\ Steps(q, "done")
  /\ UNCHANGED <<monitor, autoStart, kind, restartPending, purging, purgeResume, wasRunning, closer, stopped, errors, boots>>

\* publishAccount: the new account is saved, the monitor stopped and started again if it ran.
SaveAccount(q) ==
  /\ actor[q] = "status" /\ op = q /\ wasRunning' = (monitor = "running") /\ Steps(q, "refresh")
  /\ UNCHANGED <<monitor, autoStart, op, kind, restartPending, purging, purgeResume, closer, stopped, errors, boots>>

RefreshMonitor(q) ==
  /\ actor[q] = "refresh" /\ Halt
  /\ wasRunning' = FALSE /\ Steps(q, IF wasRunning THEN "prepare" ELSE "failed")
  /\ UNCHANGED <<autoStart, op, kind, restartPending, purging, purgeResume, closer, stopped, errors, boots>>
-----------------------------------------------------------------------------
(* Starts nobody asks for: with the process, after an error, by the        *)
(* watchdog.                                                               *)

EndBoot ==
  /\ actor["boot"] \in {"started", "failed"} /\ Unlock("boot") /\ Steps("boot", "done")
  /\ UNCHANGED <<monitor, autoStart, kind, restartPending, purging, purgeResume, wasRunning, closer, stopped, errors, boots>>

\* The delay is over, or the server ends first.
RestartTimer(r) ==
  /\ actor[r] = "timer"
  /\ IF closer >= Cancelled THEN Steps(r, "off") /\ UNCHANGED restartPending
     ELSE Steps(r, "lock") /\ restartPending' = FALSE
  /\ UNCHANGED <<monitor, autoStart, op, kind, purging, purgeResume, wasRunning, closer, stopped, errors, boots>>

\* Mutant: a monitor that stopped is started, whoever stopped it.
StoppedForAnyReason == monitor \in {"error", "stopped"}

\* Mutant: a run that ended without an error is taken for the operator's stop.
OnlyAfterError == autoStart /\ monitor = "error"

\* monitorShouldRestart: the operator left it on.
ShouldRestart == autoStart /\ monitor \in {"error", "stopped"}

CheckRestart(x) ==
  /\ x \in Restarts \cup {"watchdog"} /\ actor[x] = "check"
  /\ IF ShouldRestart THEN Steps(x, "prepare") /\ UNCHANGED op ELSE Steps(x, "off") /\ Unlock(x)
  /\ UNCHANGED <<monitor, autoStart, kind, restartPending, purging, purgeResume, wasRunning, closer, stopped, errors, boots>>

\* A restart that failed is tried again.
EndRestart(r) ==
  /\ actor[r] \in {"started", "failed"} /\ Unlock(r)
  /\ Steps(r, IF actor[r] = "failed" /\ closer < Cancelled THEN "again" ELSE "off")
  /\ UNCHANGED <<monitor, autoStart, kind, restartPending, purging, purgeResume, wasRunning, closer, stopped, errors, boots>>

RestartAgain(r) ==
  /\ actor[r] = "again" 
  /\ IF restartPending \/ ~Admitted THEN Steps(r, "off") /\ UNCHANGED restartPending
     ELSE Steps(r, "timer") /\ restartPending' = TRUE
  /\ UNCHANGED <<monitor, autoStart, op, kind, purging, purgeResume, wasRunning, closer, stopped, errors, boots>>

\* The watchdog never waits for the lock.
WatchdogTick ==
  /\ actor["watchdog"] = "off" /\ closer < Cancelled
  /\ ~restartPending /\ purging = "none" /\ op = Unheld /\ op' = "watchdog" /\ Steps("watchdog", "check")
  /\ UNCHANGED <<monitor, autoStart, kind, restartPending, purging, purgeResume, wasRunning, closer, stopped, errors, boots>>

EndWatchdog ==
  /\ actor["watchdog"] \in {"started", "failed"} /\ Unlock("watchdog") /\ Steps("watchdog", "off")
  /\ UNCHANGED <<monitor, autoStart, kind, restartPending, purging, purgeResume, wasRunning, closer, stopped, errors, boots>>
-----------------------------------------------------------------------------
(* A purge.                                                                *)

ClaimPurge ==
  /\ Over("purge") /\ ~purgeClosed /\ closer < Cancelled /\ (purging = "pending" \/ Error)
  /\ purging' = "running" /\ (purging = "pending" => UNCHANGED errors) /\ Steps("purge", "lock")
  /\ UNCHANGED <<monitor, autoStart, op, kind, restartPending, purgeResume, wasRunning, closer, stopped, boots>>

\* The state is looked at, then the monitor stopped.
PurgeStops ==
  /\ actor["purge"] = "status" /\ Halt /\ Steps("purge", "delete")
  /\ purgeResume' = (purgeResume \/ monitor \in {"running", "starting"})
  /\ UNCHANGED <<autoStart, op, kind, restartPending, purging, wasRunning, closer, stopped, errors, boots>>

PurgeFails ==
  /\ actor["purge"] = "delete" /\ ((closer >= Cancelled /\ UNCHANGED errors) \/ Error) /\ Unlock("purge")
  /\ purging' = "pending" /\ Steps("purge", "done")
  /\ UNCHANGED <<monitor, autoStart, kind, restartPending, purgeResume, wasRunning, closer, stopped, boots>>

PurgeDone ==
  /\ actor["purge"] = "delete" /\ purging' = "none" /\ purgeResume' = FALSE
  /\ Steps("purge", IF purgeResume /\ closer < Cancelled THEN "prepare" ELSE "failed")
  /\ UNCHANGED <<monitor, autoStart, op, kind, restartPending, wasRunning, closer, stopped, errors, boots>>

EndPurge ==
  /\ actor["purge"] \in {"started", "failed"} /\ Unlock("purge") /\ Steps("purge", "done")
  /\ UNCHANGED <<monitor, autoStart, kind, restartPending, purging, purgeResume, wasRunning, closer, stopped, errors, boots>>
-----------------------------------------------------------------------------
(* The end of the server, and its next start.                              *)

\* 1, 2: no new job, no new purge; 3: every context is cancelled; 4 to 8: the loops, the start with
\* the process, the purge, the jobs and the wizard end; 9: the monitor is stopped, under the lock;
\* 10: the database is closed.
Awaited(n) == CASE n = 4 -> {"watchdog"} [] n = 5 -> {"boot"} [] n = 6 -> {"purge"}
                [] n = 7 -> Restarts \cup {q \in Requests : kind[q] \in {"start", "restart"}}
                [] n = 8 -> {q \in Requests : kind[q] = "account"} [] OTHER -> {}

CloseStep ==
  /\ closer < DbClosed /\ closer' = closer + 1
  /\ \A x \in Awaited(closer') : Over(x)
  /\ closer' = 9 => op = Unheld
  /\ IF closer' = 9 THEN Halt ELSE UNCHANGED monitor
  /\ op' = IF closer' = 9 THEN "close" ELSE IF closer' = DbClosed THEN Unheld ELSE op
  /\ UNCHANGED <<autoStart, actor, kind, restartPending, purging, purgeResume, wasRunning, stopped, errors, boots>>

\* The next process, after Close or a crash; purges that are pending are done before it serves.
BootMonitor ==
  /\ boots < MaxMonitorBoots /\ boots' = boots + 1
  /\ monitor' = "stopped" /\ op' = Unheld /\ restartPending' = FALSE /\ purging' = "none" /\ purgeResume' = FALSE
  /\ wasRunning' = FALSE /\ closer' = 0 /\ stopped' = IF autoStart THEN "no" ELSE "yes"
  /\ actor' = [x \in Actors |-> IF x = "boot" /\ autoStart THEN "lock" ELSE IF x \in Requests /\ kind[x] = "none" THEN "off"
                                ELSE IF x \in Requests \cup {"boot"} THEN "done" ELSE "off"]
  /\ UNCHANGED <<autoStart, kind, errors>>

\* What a goroutine that holds a lock, or waits for a timer or an answer, does next.
ActorStep(x) ==
  \/ Prepare(x) \/ Connected(x) \/ CheckRestart(x)
  \/ x \in Requests /\ \/ FirstStop(x) \/ StopUnderLock(x) \/ SaveAutoStart(x) \/ EndRequest(x)
                       \/ SaveAccount(x) \/ RefreshMonitor(x)
  \/ x \in Restarts /\ (RestartTimer(x) \/ EndRestart(x) \/ RestartAgain(x))
  \/ x = "boot" /\ EndBoot
  \/ x = "watchdog" /\ EndWatchdog
  \/ x = "purge" /\ (PurgeStops \/ PurgeDone \/ EndPurge)

MonitorNext ==
  \/ \E x \in Actors : ActorStep(x) \/ TakeOp(x)
  \/ WatchdogTick
  \/ \E q \in Requests, what \in {"start", "restart", "stop", "account"} : Ask(q, what)
  \/ \E q \in Requests : StopGivenUp(q)
  \/ \E x \in Actors : PrepareFails(x) \/ ConnectFails(x)
  \/ MonitorFails \/ MonitorEnds \/ ClaimPurge \/ PurgeFails \/ CloseStep \/ BootMonitor

\* Goroutines run, timers fire and the watchdog ticks; who waits for the lock while nobody else takes it
\* gets it.
MonitorFairness ==
  /\ WF_monitorVars(\E x \in Actors : ActorStep(x)) /\ WF_monitorVars(WatchdogTick)
  /\ WF_monitorVars(\E x \in Actors : TakeOp(x))
  /\ WF_monitorVars(closer > 0 /\ CloseStep)

MonitorSpec == MonitorInit /\ [][MonitorNext]_monitorVars /\ MonitorFairness
-----------------------------------------------------------------------------
(* Properties.                                                             *)

\* Once the database is closed no job runs and the monitor stands still.  (A request to stop that
\* outlives the server's patience may still be there.)
ClosedIsQuiet == closer = DbClosed =>
  /\ monitor \notin {"running", "starting"}
  /\ \A x \in Actors : Over(x) \/ (x \in Requests /\ kind[x] = "stop")

\* After the answer to a stop the monitor stays stopped until the operator starts it: no restart,
\* watchdog or new account starts it, whatever was under way when the stop came.
StopIsHeeded == stopped = "yes" => ~autoStart /\ monitor \notin {"running", "starting"}

MonitorIsControlled == ClosedIsQuiet /\ StopIsHeeded

\* A monitor that the operator left on runs again, unless a purge is unfinished; and Close ends.
MonitorComesBack ==
  /\ (autoStart /\ closer = 0) ~> (monitor = "running" \/ ~autoStart \/ closer > 0 \/ purging # "none")
  /\ (closer > 0) ~> (closer \in {0, DbClosed})

\* Refuted: a start with the process, or a purge that failed and is retried, starts it after a stop.
StopIsFinal == stopped # "no" => monitor \notin {"running", "starting"}
=============================================================================
