---------------------------- MODULE ForwardQueue ----------------------------
(***************************************************************************)
(* The durable forward queue (tgdl_forward_queue, app/forward.go) and its  *)
(* workers: a claimed job is delivered to its destinations one after the   *)
(* other, natively or by upload, and each outcome is recorded in the row.  *)
(*                                                                         *)
(* A worker works on its own copy of the job (dest, attempts) and writes   *)
(* it back by row id; Telegram accepting a message (Deliver) and the       *)
(* worker learning of it (Succeed) are separate steps.  retry_at is        *)
(* abstracted to "due or not"; the native/upload choice to whether the     *)
(* worker has a local file; the account's FloodWait deadline to a flag.    *)
(***************************************************************************)
EXTENDS Naturals, FiniteSets
LOCAL INSTANCE TLC

CONSTANTS
    Jobs,           \* row ids, in enqueue order
    ScanJobs,       \* jobs inserted by a scan (source_kind 'scan_direct')
    UploadJobs,     \* jobs with a local file, or whose routes need one
    DestCount,      \* destinations of a job
    Workers,        \* advanced.forwarder.concurrency workers
    QueueSize,      \* advanced.forwarder.queueSize
    FloodAttempts,  \* advanced.forwarder.floodWaitAttempts
    \* Bounds of the model only.
    MaxRetries, MaxResends, MaxStops, MaxCrashes, MaxOutages

ASSUME ForwardAssumption ==
    /\ Jobs \subseteq Nat
    /\ ScanJobs \subseteq Jobs
    /\ UploadJobs \subseteq Jobs
    /\ {DestCount, QueueSize, FloodAttempts} \subseteq Nat \ {0}
    /\ {MaxRetries, MaxResends, MaxStops, MaxCrashes, MaxOutages} \subseteq Nat

\* Workers are interchangeable (the symmetry of the runs).
Concurrency == Permutations(Workers)

VARIABLES
    row,        \* Job -> its row of tgdl_forward_queue
    asked,      \* history: jobs handed to the queue
    worker,     \* Worker -> its position and its copy of the job
    paused,     \* tgdl_forward_queue_state.paused
    app,        \* "up", "stopping" (its context is cancelled) or "down"
    engine,     \* is the monitor running
    blocked,    \* the account is inside a FloodWait
    sent,       \* history: Job -> Dest -> messages Telegram accepted
    approved,   \* history: Job -> Dest -> resends the operator confirmed
    confirmed,  \* history: Job -> destinations the operator confirmed delivered
    retried,    \* history: jobs an operator retried
    spent       \* bounds used

history == <<asked, sent, approved, confirmed, retried, spent>>
vars == <<row, asked, worker, paused, app, engine, blocked, sent, approved,
          confirmed, retried, spent>>

Dests == 1..DestCount
DestStatuses == {"pending", "processing", "forwarded", "failed", "uncertain"}
Statuses == {"absent", "pending", "processing", "forwarded", "failed",
             "interrupted", "uncertain", "not_applicable"}
Positions == {"idle", "pace", "begin", "route", "gate", "sending", "delivered",
              "download", "fail", "finish"}
Waiting == {"pending", "processing"}

Rows == [status: Statuses, dest: [Dests -> DestStatuses], attempts: Nat, due: BOOLEAN]

NoRow == [status |-> "absent", dest |-> [d \in Dests |-> "pending"],
          attempts |-> 0, due |-> TRUE]

\* A forwardJob in the hands of a worker, with the flags that choose its final status.
Idle == [pc |-> "idle", job |-> 0, dest |-> [d \in Dests |-> "pending"], attempts |-> 0,
         at |-> 0, file |-> FALSE, tries |-> 1, status |-> "failed",
         waitForEngine |-> FALSE, retryBeforeSend |-> FALSE, noAutoRetry |-> FALSE]

Init ==
    /\ row = [j \in Jobs |-> NoRow]
    /\ worker = [w \in Workers |-> Idle]
    /\ asked = {} /\ retried = {}
    /\ paused = FALSE /\ app = "up" /\ engine = TRUE /\ blocked = FALSE
    /\ sent = [j \in Jobs |-> [d \in Dests |-> 0]]
    /\ approved = [j \in Jobs |-> [d \in Dests |-> 0]]
    /\ confirmed = [j \in Jobs |-> {}]
    /\ spent = [retries |-> 0, resends |-> 0, stops |-> 0, crashes |-> 0, outages |-> 0]

Cancelled == app # "up"       \* ctx.Err() # nil

\* The rows that count against the capacity of the queue.
WaitingJobs == {j \in Jobs : row[j].status \in Waiting}
-----------------------------------------------------------------------------
(* Producers: the post-download path (queueForward) and the scan path      *)
(* (insertDirectScanTx).  Over capacity a scan job is kept as 'failed';    *)
(* the overflow statement of queueForward has one argument fewer than it   *)
(* has placeholders, so it fails and no row remains.                       *)

HasRoom == Cardinality(WaitingJobs) < QueueSize

OverflowRow(j) ==
    IF j \in ScanJobs THEN [NoRow EXCEPT !.status = "failed"] ELSE NoRow

Enqueue(j) ==
    /\ app = "up" /\ j \notin asked
    /\ \A k \in Jobs \ asked : j <= k
    /\ asked' = asked \cup {j}
    /\ row' = [row EXCEPT ![j] = IF HasRoom THEN [NoRow EXCEPT !.status = "pending"]
                                 ELSE OverflowRow(j)]
    /\ UNCHANGED <<worker, paused, app, engine, blocked, sent, approved, confirmed,
                   retried, spent>>
-----------------------------------------------------------------------------
(* Workers (runForwards): claim, wait for the pacing slot, forward.        *)

Claimable(j) ==
    /\ row[j].status = "pending" /\ row[j].due /\ ~paused
    /\ \A k \in Jobs : row[k].status = "pending" /\ row[k].due => j <= k

ClaimForward(w, j) ==
    /\ worker[w].pc = "idle" /\ ~Cancelled /\ engine
    /\ Claimable(j)
    /\ row' = [row EXCEPT ![j].status = "processing", ![j].due = TRUE]
    /\ worker' = [worker EXCEPT ![w] =
          [Idle EXCEPT !.pc = "pace", !.job = j, !.dest = row[j].dest,
                       !.attempts = row[j].attempts, !.file = j \in UploadJobs]]
    /\ UNCHANGED <<paused, app, engine, blocked, history>>

\* Mutant: A released claim gives back an attempt that was not counted yet.
ReleasedRowUncounted(r) ==
    IF r.status = "processing"
    THEN [r EXCEPT !.status = "pending", !.due = TRUE, !.attempts = @ - 1] ELSE r

\* Mutant: A claim is dropped without being returned.
ReleasedRowKept(r) == r

\* releaseForwardClaim: the wait was cancelled, or the monitor stopped meanwhile.
ReleasedRow(r) ==
    IF r.status = "processing" THEN [r EXCEPT !.status = "pending", !.due = TRUE] ELSE r

ReleaseClaim(w) ==
    /\ worker[w].pc = "pace"
    /\ Cancelled \/ ~engine
    /\ row' = [row EXCEPT ![worker[w].job] = ReleasedRow(@)]
    /\ worker' = [worker EXCEPT ![w] = Idle]
    /\ UNCHANGED <<paused, app, engine, blocked, history>>

StartForward(w) ==
    /\ worker[w].pc = "pace" /\ ~Cancelled /\ engine
    /\ worker' = [worker EXCEPT ![w].pc = "begin", ![w].attempts = @ + 1]
    /\ UNCHANGED <<row, paused, app, engine, blocked, history>>

\* Settings, routes and the source chat are checked before anything is sent.
Proceed(w) ==
    /\ worker[w].pc = "begin"
    /\ worker' = [worker EXCEPT ![w].pc = "route"]
    /\ UNCHANGED <<row, paused, app, engine, blocked, history>>

NotApplicable(w) ==
    /\ worker[w].pc = "begin"
    /\ worker' = [worker EXCEPT ![w].pc = "finish", ![w].status = "not_applicable"]
    /\ UNCHANGED <<row, paused, app, engine, blocked, history>>

SourceBlocked(w) ==
    /\ worker[w].pc = "begin"
    /\ worker' = [worker EXCEPT ![w].pc = "finish"]
    /\ UNCHANGED <<row, paused, app, engine, blocked, history>>

\* The configuration cannot be read, or the file a route needs cannot be downloaded.
PrepareFails(w) ==
    /\ worker[w].pc = "begin"
    /\ worker' = [worker EXCEPT ![w].pc = "fail"]
    /\ UNCHANGED <<row, paused, app, engine, blocked, history>>

\* persistForwardProgress: by row id, whatever the row's status; a cancelled context
\* writes nothing.
Persist(w, dest) ==
    row' = IF Cancelled THEN row ELSE [row EXCEPT ![worker[w].job].dest = dest]

\* Mutant: A retry also skips the destinations that failed.
UndeliveredUntried(dest) == {d \in Dests : dest[d] \in {"pending", "processing"}}

Undelivered(dest) == {d \in Dests : dest[d] \notin {"forwarded", "uncertain"}}

NextDestination(w, d) ==
    /\ worker[w].pc = "route"
    /\ d \in Undelivered(worker[w].dest)
    /\ \A e \in Undelivered(worker[w].dest) : d <= e
    /\ worker' = [worker EXCEPT ![w].pc = "gate", ![w].at = d, ![w].tries = 1,
                                ![w].dest[d] = "processing"]
    /\ Persist(w, [worker[w].dest EXCEPT ![d] = "processing"])
    /\ UNCHANGED <<paused, app, engine, blocked, history>>

AllDelivered(w) ==
    /\ worker[w].pc = "route"
    /\ Undelivered(worker[w].dest) = {}
    /\ worker' = [worker EXCEPT ![w].pc = "finish", ![w].status = "forwarded"]
    /\ UNCHANGED <<row, paused, app, engine, blocked, history>>
-----------------------------------------------------------------------------
(* One destination (forwardToRoute).                                       *)

\* The destination's access verdict pauses it: no request, the attempt ends.
DestinationBlocked(w) ==
    /\ worker[w].pc = "gate" /\ worker[w].tries = 1
    /\ worker' = [worker EXCEPT ![w].pc = "finish", ![w].dest[worker[w].at] = "failed"]
    /\ UNCHANGED <<row, paused, app, engine, blocked, history>>

DestinationCheckFails(w) ==
    /\ worker[w].pc = "gate" /\ worker[w].tries = 1
    /\ worker' = [worker EXCEPT ![w].pc = "fail"]
    /\ UNCHANGED <<row, paused, app, engine, blocked, history>>

\* waitForwardAccount: the deadline passes, or the context is cancelled first.
IssueRequest(w) ==
    /\ worker[w].pc = "gate" /\ ~blocked /\ ~Cancelled
    /\ worker' = [worker EXCEPT ![w].pc = "sending"]
    /\ UNCHANGED <<row, paused, app, engine, blocked, history>>

CancelBeforeRequest(w) ==
    /\ worker[w].pc = "gate" /\ Cancelled
    /\ LET dest == [worker[w].dest EXCEPT ![worker[w].at] = "pending"] IN
       /\ row' = [row EXCEPT ![worker[w].job].dest = dest]
       /\ worker' = [worker EXCEPT ![w].pc = "finish", ![w].dest = dest,
                                   ![w].retryBeforeSend = TRUE]
    /\ UNCHANGED <<paused, app, engine, blocked, history>>

\* Telegram accepts the message.
Deliver(w) ==
    /\ worker[w].pc = "sending"
    /\ worker' = [worker EXCEPT ![w].pc = "delivered"]
    /\ sent' = [sent EXCEPT ![worker[w].job][worker[w].at] = @ + 1]
    /\ UNCHANGED <<row, paused, app, engine, blocked, asked, approved, confirmed,
                   retried, spent>>

Succeed(w) ==
    /\ worker[w].pc = "delivered"
    /\ LET dest == [worker[w].dest EXCEPT ![worker[w].at] = "forwarded"] IN
       /\ Persist(w, dest)
       /\ worker' = [worker EXCEPT ![w].pc = "route", ![w].dest = dest]
    /\ UNCHANGED <<paused, app, engine, blocked, history>>

\* Mutant: A lost answer counts as a failure on every path.
LostAnswerIsFailure(w) == "failed"

\* A deadline or a lost connection: the answer proves nothing.  A cancelled context is
\* treated as ambiguous on the native path; the upload path returns before that test.
OutcomeOfLostAnswer(w) ==
    IF Cancelled /\ worker[w].file THEN "failed" ELSE "uncertain"

LoseAnswer(w) ==
    /\ worker[w].pc \in {"sending", "delivered"}
    /\ LET dest == [worker[w].dest EXCEPT ![worker[w].at] = OutcomeOfLostAnswer(w)] IN
       /\ Persist(w, dest)
       /\ worker' = [worker EXCEPT ![w].pc = "finish", ![w].dest = dest]
    /\ UNCHANGED <<paused, app, engine, blocked, history>>

\* engine.ErrEngineNotRunning: the job waits for the monitor.
MonitorGone(w) ==
    /\ worker[w].pc = "sending" /\ ~engine
    /\ worker' = [worker EXCEPT ![w].pc = "finish", ![w].dest[worker[w].at] = "pending",
                                ![w].waitForEngine = TRUE]
    /\ UNCHANGED <<row, paused, app, engine, blocked, history>>

\* Telegram refuses: a native forward falls back to download and upload, an upload fails
\* (for good when the refusal is permanent).
Refuse(w, permanent) ==
    /\ worker[w].pc = "sending" /\ ~Cancelled
    /\ worker' = [worker EXCEPT ![w].pc = IF worker[w].file THEN "fail" ELSE "download",
                                ![w].noAutoRetry = @ \/ permanent]
    /\ UNCHANGED <<row, paused, app, engine, blocked, history>>

\* FloodWait: the account is blocked; an upload waits and repeats a bounded number of times.
FloodWait(w) ==
    /\ worker[w].pc = "sending" /\ ~Cancelled
    /\ blocked' = TRUE
    /\ worker' = [worker EXCEPT
          ![w].pc = IF ~worker[w].file THEN "download"
                    ELSE IF worker[w].tries < FloodAttempts THEN "gate" ELSE "fail",
          ![w].tries = IF worker[w].file /\ @ < FloodAttempts THEN @ + 1 ELSE @]
    /\ UNCHANGED <<row, paused, app, engine, history>>

\* downloadForForward, then forwardToRoute again with the file.
DownloadDone(w) ==
    /\ worker[w].pc = "download" /\ ~Cancelled
    /\ worker' = [worker EXCEPT ![w].pc = "gate", ![w].tries = 1, ![w].file = TRUE]
    /\ UNCHANGED <<row, paused, app, engine, blocked, history>>

DownloadFails(w) ==
    /\ worker[w].pc = "download"
    /\ worker' = [worker EXCEPT ![w].pc = "fail"]
    /\ UNCHANGED <<row, paused, app, engine, blocked, history>>
-----------------------------------------------------------------------------
(* The end of an attempt.                                                  *)

\* forwardFailed records the failure while forward is still on the stack; the deferred
\* function below writes the row again.
ForwardFailed(w) ==
    /\ worker[w].pc = "fail"
    /\ row' = [row EXCEPT ![worker[w].job] =
                  [status |-> "failed", dest |-> worker[w].dest,
                   attempts |-> worker[w].attempts, due |-> TRUE]]
    /\ worker' = [worker EXCEPT ![w].pc = "finish",
          ![w].dest = [d \in Dests |-> IF d = worker[w].at THEN "failed" ELSE @[d]]]
    /\ UNCHANGED <<paused, app, engine, blocked, history>>

\* The deferred function of forward decides the status ...
AutoAttempts == 3

NothingSent(v) == v.retryBeforeSend \/ (v.waitForEngine /\ ~Cancelled)

\* Mutant: The attempt counter is not kept across attempts.
AttemptsForgotten(v) == 0

Attempts(v) == IF NothingSent(v) THEN v.attempts - 1 ELSE v.attempts

BaseStatus(v) ==
    IF Cancelled THEN "interrupted" ELSE IF NothingSent(v) THEN "pending" ELSE v.status

SettledStatus(v) ==
    IF \E d \in Dests : v.dest[d] = "uncertain" THEN "uncertain" ELSE BaseStatus(v)

RetriesItself(v) ==
    SettledStatus(v) = "failed" /\ Attempts(v) < AutoAttempts /\ ~v.noAutoRetry

\* ... and finishForwardQueue writes it, by row id.
FinishedRow(v, r) ==
    [status |-> IF RetriesItself(v) THEN "pending" ELSE SettledStatus(v),
     dest |-> v.dest, attempts |-> Attempts(v), due |-> ~RetriesItself(v)]

Finish(w) ==
    /\ worker[w].pc = "finish"
    /\ row' = [row EXCEPT ![worker[w].job] = FinishedRow(worker[w], @)]
    /\ worker' = [worker EXCEPT ![w] = Idle]
    /\ UNCHANGED <<paused, app, engine, blocked, history>>
-----------------------------------------------------------------------------
(* Operator actions (the forward-queue handlers).                          *)

Retryable(j) == row[j].status \in {"failed", "interrupted"}

Retry(js) ==
    /\ app = "up" /\ js # {} /\ spent.retries < MaxRetries
    /\ \A j \in js : Retryable(j)
    /\ row' = [j \in Jobs |-> IF j \in js THEN [row[j] EXCEPT !.status = "pending", !.due = TRUE]
                              ELSE row[j]]
    /\ retried' = retried \cup js
    /\ spent' = [spent EXCEPT !.retries = @ + 1]
    /\ UNCHANGED <<worker, paused, app, engine, blocked, asked, sent, approved, confirmed>>

RetryOne == \E j \in Jobs : Retry({j})
RetryAll == Retry({j \in Jobs : Retryable(j)})

SetPaused ==
    /\ app = "up" /\ paused' = ~paused
    /\ UNCHANGED <<row, worker, app, engine, blocked, history>>

\* Reconcile: whatever was not known to be delivered is exposed as uncertain; the picked
\* destinations are declared sent or handed back for a confirmed resend.
Exposed(dest) == [d \in Dests |-> IF dest[d] \in Waiting THEN "uncertain" ELSE dest[d]]

Picked(dest, scope, action) ==
    LET hit == {d \in scope : Exposed(dest)[d] = "uncertain"} IN
    IF hit = {} /\ scope = Dests /\ action = "resend"
    THEN {d \in Dests : Exposed(dest)[d] # "forwarded"} ELSE hit

\* Mutant: A resend re-opens every destination in its scope.
ReconciledDestScope(dest, scope, action) ==
    [d \in Dests |-> IF d \notin scope THEN Exposed(dest)[d]
                     ELSE IF action = "sent" THEN "forwarded" ELSE "pending"]

ReconciledDest(dest, scope, action) ==
    [d \in Dests |-> IF d \notin Picked(dest, scope, action) THEN Exposed(dest)[d]
                     ELSE IF action = "sent" THEN "forwarded" ELSE "pending"]

ReconciledStatus(dest, action) ==
    IF \E d \in Dests : dest[d] = "uncertain" THEN "uncertain"
    ELSE IF action = "sent" /\ \A d \in Dests : dest[d] = "forwarded" THEN "forwarded"
    ELSE "pending"

Scopes == {Dests} \cup {{d} : d \in Dests}

CanReconcile(j) ==
    \E scope \in Scopes, action \in {"sent", "resend"} :
        Picked(row[j].dest, scope, action) # {}

Reconcile(j, scope, action) ==
    LET picked == Picked(row[j].dest, scope, action)
        dest == ReconciledDest(row[j].dest, scope, action) IN
    /\ app = "up" /\ row[j].status = "uncertain" /\ picked # {}
    /\ row' = [row EXCEPT ![j].status = ReconciledStatus(dest, action),
                          ![j].dest = dest, ![j].due = TRUE]
    /\ IF action = "sent"
       THEN /\ confirmed' = [confirmed EXCEPT ![j] = @ \cup picked]
            /\ UNCHANGED <<approved, spent>>
       ELSE /\ spent.resends < MaxResends
            /\ approved' = [approved EXCEPT ![j] =
                  [d \in Dests |-> IF d \in picked THEN @[d] + 1 ELSE @[d]]]
            /\ spent' = [spent EXCEPT !.resends = @ + 1]
            /\ UNCHANGED confirmed
    /\ UNCHANGED <<worker, paused, app, engine, blocked, asked, sent, retried>>
-----------------------------------------------------------------------------
(* Time, the monitor, and the life of the process.                         *)

BackoffEnds(j) ==
    /\ row[j].status = "pending" /\ ~row[j].due
    /\ row' = [row EXCEPT ![j].due = TRUE]
    /\ UNCHANGED <<worker, paused, app, engine, blocked, history>>

FloodEnds ==
    /\ blocked /\ blocked' = FALSE
    /\ UNCHANGED <<row, worker, paused, app, engine, history>>

StopMonitor ==
    /\ engine /\ spent.outages < MaxOutages
    /\ engine' = FALSE /\ spent' = [spent EXCEPT !.outages = @ + 1]
    /\ UNCHANGED <<row, worker, paused, app, blocked, asked, sent, approved, confirmed,
                   retried>>

StartMonitor ==
    /\ app = "up" /\ ~engine /\ engine' = TRUE
    /\ UNCHANGED <<row, worker, paused, app, blocked, history>>

\* Shutdown cancels the context and waits for the workers.
Stop ==
    /\ app = "up" /\ spent.stops < MaxStops
    /\ app' = "stopping" /\ spent' = [spent EXCEPT !.stops = @ + 1]
    /\ UNCHANGED <<row, worker, paused, engine, blocked, asked, sent, approved, confirmed,
                   retried>>

Exit ==
    /\ app = "stopping" /\ \A w \in Workers : worker[w].pc = "idle"
    /\ app' = "down" /\ engine' = FALSE
    /\ UNCHANGED <<row, worker, paused, blocked, history>>

Crash ==
    /\ app # "down" /\ spent.crashes < MaxCrashes
    /\ app' = "down" /\ engine' = FALSE
    /\ worker' = [w \in Workers |-> Idle]
    /\ spent' = [spent EXCEPT !.crashes = @ + 1]
    /\ UNCHANGED <<row, paused, blocked, asked, sent, approved, confirmed, retried>>

\* Mutant: A restart puts interrupted jobs back into the queue, as the download queue does.
RecoveredRowRequeued(r) ==
    IF r.status = "processing" THEN [r EXCEPT !.status = "pending"] ELSE r

\* Mutant: A restart leaves interrupted jobs retryable.
RecoveredRowRetryable(r) ==
    IF r.status = "processing" THEN [r EXCEPT !.status = "interrupted"] ELSE r

\* The startup migration: what was processing has an unknown outcome.
RecoveredRow(r) == IF r.status = "processing" THEN [r EXCEPT !.status = "uncertain"] ELSE r

Start ==
    /\ app = "down" /\ app' = "up"
    /\ row' = [j \in Jobs |-> RecoveredRow(row[j])]
    /\ UNCHANGED <<worker, paused, engine, blocked, history>>
-----------------------------------------------------------------------------
WorkerStep(w) ==
    \/ \E j \in Jobs : ClaimForward(w, j)
    \/ ReleaseClaim(w) \/ StartForward(w)
    \/ Proceed(w) \/ NotApplicable(w) \/ SourceBlocked(w) \/ PrepareFails(w)
    \/ \E d \in Dests : NextDestination(w, d)
    \/ AllDelivered(w)
    \/ DestinationBlocked(w) \/ DestinationCheckFails(w)
    \/ IssueRequest(w) \/ CancelBeforeRequest(w)
    \/ Deliver(w) \/ Succeed(w) \/ LoseAnswer(w) \/ MonitorGone(w)
    \/ \E permanent \in BOOLEAN : Refuse(w, permanent)
    \/ FloodWait(w) \/ DownloadDone(w) \/ DownloadFails(w)
    \/ ForwardFailed(w) \/ Finish(w)

OperatorStep ==
    \/ RetryOne \/ RetryAll \/ SetPaused
    \/ \E j \in Jobs, scope \in Scopes, action \in {"sent", "resend"} :
          Reconcile(j, scope, action)

EnvironmentStep ==
    \/ \E j \in Jobs : Enqueue(j) \/ BackoffEnds(j)
    \/ FloodEnds \/ StopMonitor \/ StartMonitor
    \/ Stop \/ Exit \/ Crash \/ Start

Next == (\E w \in Workers : WorkerStep(w)) \/ OperatorStep \/ EnvironmentStep

Spec == Init /\ [][Next]_vars

\* Workers are goroutines that keep running, and every request has a deadline; backoffs
\* and FloodWaits are timers.
Fairness ==
    /\ \A w \in Workers : WF_vars(WorkerStep(w))
    /\ \A j \in Jobs : WF_vars(BackoffEnds(j))
    /\ WF_vars(FloodEnds)

FairSpec == Spec /\ Fairness
-----------------------------------------------------------------------------
(* Properties.                                                             *)

Copies ==
    [pc: Positions, job: Jobs \cup {0}, dest: [Dests -> DestStatuses], attempts: Nat,
     at: Dests \cup {0}, file: BOOLEAN, tries: 1..FloodAttempts, status: Statuses,
     waitForEngine: BOOLEAN, retryBeforeSend: BOOLEAN, noAutoRetry: BOOLEAN]

\* The job and the destination a position needs; the attempt was counted after the pacing.
CopyOK(v) ==
    /\ v.pc # "idle" => v.job \in Jobs
    /\ v.pc \in {"gate", "sending", "delivered", "download"} => v.at \in Dests
    /\ v.pc \notin {"idle", "pace"} => v.attempts > 0

\* Rows, workers and flags keep the shapes the code stores: attempts never go negative,
\* statuses stay within the values forward.go writes.
TypeOK ==
    /\ row \in [Jobs -> Rows]
    /\ worker \in [Workers -> Copies] /\ \A w \in Workers : CopyOK(worker[w])
    /\ asked \subseteq Jobs /\ retried \subseteq Jobs
    /\ <<paused, engine, blocked>> \in BOOLEAN \X BOOLEAN \X BOOLEAN
    /\ app \in {"up", "stopping", "down"}
    /\ sent \in [Jobs -> [Dests -> Nat]] /\ approved \in [Jobs -> [Dests -> Nat]]
    /\ confirmed \in [Jobs -> SUBSET Dests]
    /\ spent \in [retries: Nat, resends: Nat, stops: Nat, crashes: Nat, outages: Nat]

\* Whatever the workers and restarts do, a second delivery is preceded by an operator's
\* retry of the job or confirmed resend of the destination; nothing resends by itself.
NeverResentUnasked ==
    \A j \in Jobs, d \in Dests : sent[j][d] > 1 => j \in retried \/ approved[j][d] > 0

\* A destination recorded as forwarded, and every destination of a job recorded as
\* forwarded, was accepted by Telegram or confirmed by the operator.
ForwardedIsDelivered ==
    \A j \in Jobs, d \in Dests :
        row[j].status = "forwarded" \/ row[j].dest[d] = "forwarded"
            => sent[j][d] > 0 \/ d \in confirmed[j]

\* A row is 'processing' only while a worker has the job in hand: nothing else would ever
\* return it to the queue before the next restart.
ProcessingIsHeld ==
    app # "down" => \A j \in Jobs : row[j].status = "processing" =>
        \E w \in Workers : worker[w].pc # "idle" /\ worker[w].job = j

-----------------------------------------------------------------------------
(* Refinement: the queue delivers as Delivery promises.                    *)

InHand(j) == \E w \in Workers : worker[w].pc # "idle" /\ worker[w].job = j
AtDest(j, d, pc) == \E w \in Workers : worker[w].pc = pc /\ worker[w].job = j /\ worker[w].at = d

\* What row and worker together say of a destination.  A row that is uncertain, or that was
\* processing when its worker died, leaves every destination it does not name in doubt.
PhaseOf(j, d) ==
    CASE row[j].dest[d] = "forwarded" -> "done"
      [] AtDest(j, d, "sending") -> "sending"
      [] AtDest(j, d, "delivered") -> "accepted"
      [] \/ row[j].dest[d] = "uncertain"
         \/ row[j].dest[d] \in Waiting /\ row[j].status = "uncertain"
         \/ row[j].dest[d] \in Waiting /\ row[j].status = "processing" /\ ~InHand(j) -> "unknown"
      [] OTHER -> "due"

Letters == Jobs \X Dests

Ledger == INSTANCE Delivery WITH
    phase <- [l \in Letters |-> PhaseOf(l[1], l[2])],
    copies <- [l \in Letters |-> sent[l[1]][l[2]]],
    leave <- [l \in Letters |-> approved[l[1]][l[2]]]

\* With one worker and no shutdown the queue implements Delivery: nothing is sent while an
\* earlier message may have arrived, except on the operator's word; a doubt stays until the
\* operator settles it; the row never forgets a success.
DeliversAsPromised == Ledger!DeliverySpec
-----------------------------------------------------------------------------
\* A retry skips the destinations already sent: no duplicate follows from it.
NoDuplicateOnRetry == \A j \in Jobs, d \in Dests : sent[j][d] <= 1 + approved[j][d]

\* An uncertain job can be confirmed or resent: some answer of the operator is accepted.
UncertainCanBeReconciled ==
    \A j \in Jobs : row[j].status = "uncertain" => CanReconcile(j)

\* Every item handed to the queue has a durable job.
AskedIsDurable == \A j \in asked : row[j].status # "absent"

\* Liveness: when the process and the monitor stay up and the queue is not paused, a
\* waiting job reaches a final status; floods, refusals and retries end by themselves.
Available == app = "up" /\ engine /\ ~paused

WaitingIsSettled ==
    \A j \in Jobs :
        <>[]Available => (row[j].status \in Waiting ~> row[j].status \notin Waiting)

\* Without an operator's word nothing is sent twice, what is recorded
\* as forwarded was, and no row is left without its worker.
AttemptsAreOwned == NeverResentUnasked /\ ForwardedIsDelivered /\ ProcessingIsHeld
=============================================================================
