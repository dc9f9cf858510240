------------------------------ MODULE WorkQueue ------------------------------
(***************************************************************************)
(* The durable download queue (table tgdl_work, engine/work.go) and the    *)
(* workers of one engine run that claim from it (engine/controller.go).    *)
(*                                                                         *)
(* Every SQL statement is one atomic action; everything a worker or a      *)
(* queue operation does between two statements, or between a statement     *)
(* and the in-memory map of cancel functions, is a separate step.          *)
(*                                                                         *)
(* The message body is abstracted to "present or emptied"; retry_at to     *)
(* "in the future or not"; ttl_seconds to "self-destructing or not".       *)
(***************************************************************************)
EXTENDS Naturals, FiniteSets

CONSTANTS
    Keys,         \* (group_id, message_id) pairs
    ChannelKeys,  \* the keys whose peer is a channel: pts comparable across accounts
    StoryKeys,    \* the negative keys stories are stored under
    Accounts,
    Identities,   \* attachment identities
    Messages,     \* what may be offered to Enqueue
    Workers,
    MaxAttempts,  \* run.maxAttempts
    None,         \* NULL, the empty string, the nil function
    \* Bounds of the model only.
    MaxId, MaxGen, MaxCrashes, MaxFloods

ASSUME QueueAssumption ==
    /\ ChannelKeys \subseteq Keys
    /\ StoryKeys \subseteq Keys
    /\ MaxAttempts \in Nat \ {0}
    /\ None \notin Keys \cup Accounts \cup Identities \cup Workers
    /\ {MaxId, MaxGen, MaxCrashes, MaxFloods} \subseteq Nat
    /\ Messages \subseteq [account: Accounts, origin: {"live", "history", "url", "stories"},
                           version: Nat, pts: Nat, identity: Identities,
                           ttl: BOOLEAN, repair: BOOLEAN]

VARIABLES
    rows,         \* Key -> row of tgdl_work (id 0: no row)
    nextId,       \* the AUTOINCREMENT counter
    queuePaused,  \* tgdl_queue_state.paused
    run,          \* "down", "up" or "stopping": the lifetime of the engine run
    observing,    \* run.observing
    gated,        \* accounts inside a flood wait
    worker,       \* Worker -> its local state
    active,       \* run.active: row id -> worker whose cancel function is registered
    signals,      \* queue operations between their statement and the active lookup
    stored,       \* history: the claims <<id, generation>> the sink finished without error
    crashes, floods  \* bounds

queueVars == <<rows, nextId, queuePaused>>
runVars == <<run, observing, gated>>
ghostVars == <<stored, crashes, floods>>
vars == <<rows, nextId, queuePaused, run, observing, gated, worker, active,
          signals, stored, crashes, floods>>

Origins == {"live", "history", "url", "stories"}
Statuses == {"pending", "processing", "completed", "failed", "skipped"}
Terminal == {"completed", "failed", "skipped"}
Ids == 1..MaxId

\* A key with no row: the shape of a row with id 0.
NoRow == [id |-> 0, status |-> "completed", gen |-> 0, claim |-> 0, version |-> 0,
          pts |-> 0, identity |-> None, account |-> None, origin |-> "live",
          ttl |-> FALSE, body |-> FALSE, paused |-> FALSE, refresh |-> FALSE,
          attempts |-> 0, backoff |-> FALSE]

Larger(a, b) == IF a >= b THEN a ELSE b

Exists(k) == rows[k].id # 0

IdleWorker == [phase |-> "idle", key |-> None, id |-> 0, gen |-> 0, attempts |-> 0,
               account |-> None, origin |-> "live", force |-> FALSE, manual |-> FALSE,
               cancelled |-> FALSE, wasCancelled |-> FALSE, result |-> "none"]

Busy(w) == worker[w].phase \notin {"idle", "polled"}

Init ==
    /\ rows = [k \in Keys |-> NoRow]
    /\ nextId = 1
    /\ queuePaused = FALSE
    /\ run = "down"
    /\ observing = FALSE
    /\ gated = {}
    /\ worker = [w \in Workers |-> IdleWorker]
    /\ active = [i \in Ids |-> None]
    /\ signals = {}
    /\ stored = {}
    /\ crashes = 0
    /\ floods = 0

-----------------------------------------------------------------------------
(* enqueueWork: one upsert.                                                *)

Comparable(k) == k \in ChannelKeys \cup StoryKeys

\* Stories have no message pts: the statement counts observations of the row.
SourcePts(k, m) == IF k \in StoryKeys THEN rows[k].pts + 1 ELSE m.pts

SameObservation(k, m) == m.version = rows[k].version /\ m.identity = rows[k].identity

\* The WHERE clause of the upsert.
Supersedes(k, m) ==
    LET r == rows[k] IN
    \/ m.version > r.version
    \/ /\ m.version = r.version
       /\ m.identity # r.identity
       /\ SourcePts(k, m) > r.pts
       /\ Comparable(k) \/ m.account = r.account
    \/ /\ m.origin # "live"
       /\ SameObservation(k, m)
       /\ \/ r.origin = "live" /\ r.status = "pending"
          \/ m.origin = "url" /\ r.origin # "url" /\ r.status \in {"pending", "processing"}
    \/ /\ m.repair /\ m.origin # "live"
       /\ SameObservation(k, m)
       /\ r.status \in Terminal

InsertedRow(k, m) ==
    [NoRow EXCEPT !.id = nextId, !.status = "pending", !.gen = 1, !.version = m.version,
                  !.pts = SourcePts(k, m), !.identity = m.identity, !.account = m.account,
                  !.origin = m.origin, !.ttl = m.ttl, !.body = TRUE]

UpdatedRow(k, m) ==
    LET r == rows[k] IN
    [r EXCEPT !.account = m.account,
              !.version = m.version,
              !.pts = IF SameObservation(k, m) /\ (Comparable(k) \/ m.account = r.account)
                      THEN Larger(r.pts, SourcePts(k, m)) ELSE SourcePts(k, m),
              !.identity = m.identity,
              !.body = TRUE,
              !.ttl = r.ttl \/ m.ttl,
              !.gen = r.gen + 1,
              !.attempts = 0,
              !.backoff = FALSE,
              !.refresh = FALSE,
              !.origin = IF m.origin = "url" THEN "url"
                         ELSE IF r.origin # "live" THEN r.origin ELSE m.origin,
              !.status = IF r.status = "processing" THEN "processing" ELSE "pending"]

\* Mutant: the repeated observation is dropped altogether.
WatermarkDropped(k, m) == rows[k]

\* A repeated observation only raises the ordering watermark.
WatermarkedRow(k, m) ==
    IF SameObservation(k, m) /\ (Comparable(k) \/ m.account = rows[k].account)
    THEN [rows[k] EXCEPT !.pts = Larger(rows[k].pts, SourcePts(k, m))]
    ELSE rows[k]

\* accept() for updates, QueueTx followed by Wake for explicit requests: the
\* statement commits first; the active claim of the row is cancelled afterwards.
Enqueue(k, m) ==
    /\ run = "up"
    /\ (m.origin = "stories") = (k \in StoryKeys)
    /\ \/ /\ ~Exists(k)
          /\ nextId <= MaxId
          /\ rows' = [rows EXCEPT ![k] = InsertedRow(k, m)]
          /\ nextId' = nextId + 1
          /\ UNCHANGED signals
       \/ /\ Exists(k)
          /\ Supersedes(k, m)
          /\ rows[k].gen < MaxGen
          /\ rows' = [rows EXCEPT ![k] = UpdatedRow(k, m)]
          /\ signals' = signals \cup {<<"id", rows[k].id>>}
          /\ UNCHANGED nextId
       \/ /\ Exists(k)
          /\ ~Supersedes(k, m)
          /\ rows' = [rows EXCEPT ![k] = WatermarkedRow(k, m)]
          /\ UNCHANGED <<nextId, signals>>
    /\ UNCHANGED <<queuePaused, runVars, worker, active, ghostVars>>

\* The second half of accept, Wake and CancelJob: call the cancel function that
\* is registered for the row id. CancelJob looks the id up by key only now.
SignalId(s) == IF s[1] = "id" THEN s[2] ELSE rows[s[2]].id

Signal(s) ==
    /\ s \in signals
    /\ signals' = signals \ {s}
    /\ IF SignalId(s) # 0 /\ active[SignalId(s)] # None
       THEN worker' = [worker EXCEPT ![active[SignalId(s)]].cancelled = TRUE]
       ELSE UNCHANGED worker
    /\ UNCHANGED <<queueVars, runVars, active, ghostVars>>

-----------------------------------------------------------------------------
(* worker(): claim, register, check, refresh, transfer, unregister, finish. *)

\* The loop head reads run.observing before it issues the claim statement.
Poll(w) ==
    /\ run = "up"
    /\ worker[w].phase = "idle"
    /\ worker' = [worker EXCEPT ![w].phase = "polled", ![w].manual = ~observing]
    /\ UNCHANGED <<queueVars, runVars, active, signals, ghostVars>>

Eligible(k, manualOnly) ==
    /\ rows[k].status = "pending"
    /\ ~rows[k].paused
    /\ ~queuePaused
    /\ rows[k].account \notin gated
    /\ ~rows[k].backoff
    /\ manualOnly => rows[k].origin # "live"

\* claimPriority: self-destructing media, then live and explicit work, then history.
Priority(k) == IF rows[k].ttl THEN 0 ELSE IF rows[k].origin = "history" THEN 2 ELSE 1

ClaimedBefore(k, j) ==
    \/ Priority(k) < Priority(j)
    \/ Priority(k) = Priority(j) /\ rows[k].id < rows[j].id

FirstEligible(k, manualOnly) ==
    /\ Eligible(k, manualOnly)
    /\ \A j \in Keys \ {k} : Eligible(j, manualOnly) => ClaimedBefore(k, j)

ClaimRow(k) ==
    rows' = [rows EXCEPT ![k].status = "processing", ![k].claim = rows[k].gen,
                         ![k].attempts = @ + 1]

Claim(w) ==
    /\ run = "up"
    /\ worker[w].phase = "polled"
    /\ \E k \in Keys :
         /\ FirstEligible(k, worker[w].manual)
         /\ ClaimRow(k)
         /\ worker' = [worker EXCEPT ![w] =
              [IdleWorker EXCEPT !.phase = "claimed", !.key = k, !.id = rows[k].id,
                                 !.gen = rows[k].gen, !.attempts = rows[k].attempts + 1,
                                 !.account = rows[k].account,
                                 !.origin = rows[k].origin, !.force = rows[k].refresh]]
    /\ UNCHANGED <<nextId, queuePaused, runVars, active, signals, ghostVars>>

\* Nothing to claim, or the run was cancelled: the worker goes round or returns.
ClaimNothing(w) ==
    /\ worker[w].phase = "polled"
    /\ run = "up" => \A k \in Keys : ~Eligible(k, worker[w].manual)
    /\ worker' = [worker EXCEPT ![w] = IdleWorker]
    /\ UNCHANGED <<queueVars, runVars, active, signals, ghostVars>>

\* A claim statement overtaken by the cancellation of the run may have
\* committed although the worker only sees the context's error and returns:
\* a crash as far as the row is concerned.
ClaimLost(w) ==
    /\ run = "stopping"
    /\ worker[w].phase = "polled"
    /\ crashes < MaxCrashes
    /\ crashes' = crashes + 1
    /\ \E k \in Keys : FirstEligible(k, worker[w].manual) /\ ClaimRow(k)
    /\ worker' = [worker EXCEPT ![w] = IdleWorker]
    /\ UNCHANGED <<nextId, queuePaused, runVars, active, signals, stored, floods>>

\* Mutant: observation is not looked at again.
RegisterUnobserved(w) ==
    /\ worker[w].phase = "claimed"
    /\ active' = [active EXCEPT ![worker[w].id] = w]
    /\ worker' = [worker EXCEPT ![w].phase = "registered", ![w].cancelled = @ \/ run # "up"]
    /\ UNCHANGED <<queueVars, runVars, signals, ghostVars>>

\* Under run.mu. Observation may have stopped since the claim.
Register(w) ==
    /\ worker[w].phase = "claimed"
    /\ active' = [active EXCEPT ![worker[w].id] = w]
    /\ worker' = [worker EXCEPT ![w].phase = "registered",
                    ![w].cancelled = \/ @
                                     \/ run # "up"
                                     \/ worker[w].origin = "live" /\ ~observing]
    /\ UNCHANGED <<queueVars, runVars, signals, ghostVars>>

HoldsClaim(w) ==
    LET r == rows[worker[w].key] IN
    /\ r.id = worker[w].id
    /\ r.status = "processing"
    /\ r.claim = worker[w].gen

OwnsCurrent(w) == HoldsClaim(w) /\ rows[worker[w].key].gen = worker[w].gen

\* Mutant: the claim is trusted once it is registered.
CheckNothing(w) ==
    /\ worker[w].phase = "registered"
    /\ worker' = [worker EXCEPT ![w].phase = IF worker[w].cancelled THEN "ending" ELSE "checked",
                                ![w].result = IF worker[w].cancelled THEN "error" ELSE @]
    /\ UNCHANGED <<queueVars, runVars, active, signals, ghostVars>>

\* IsCurrent: an edit accepted before Register found no cancel function to call.
\* A missing row is an error, not a cancellation.
CheckCurrent(w) ==
    /\ worker[w].phase = "registered"
    /\ worker' =
         IF worker[w].cancelled
         THEN [worker EXCEPT ![w].phase = "ending", ![w].result = "error"]
         ELSE IF rows[worker[w].key].id # worker[w].id
         THEN [worker EXCEPT ![w].phase = "ending", ![w].result = "error"]
         ELSE IF OwnsCurrent(w)
         THEN [worker EXCEPT ![w].phase = "checked"]
         ELSE [worker EXCEPT ![w].phase = "ending", ![w].result = "error",
                             ![w].cancelled = TRUE]
    /\ UNCHANGED <<queueVars, runVars, active, signals, ghostVars>>

\* The claim needs no refresh: a fresh row on its first attempt.
StartTransfer(w) ==
    /\ worker[w].phase = "checked"
    /\ ~worker[w].force
    /\ worker[w].attempts <= 1
    /\ worker' = [worker EXCEPT ![w].phase = "transfer"]
    /\ UNCHANGED <<queueVars, runVars, active, signals, ghostVars>>

\* How an attempt ends; a flood wait closes the account's gate.
EndAttempt(w, res) ==
    /\ res = "flood" => ~worker[w].cancelled /\ floods < MaxFloods
    /\ worker' = [worker EXCEPT ![w].phase = "ending", ![w].result = res]
    /\ floods' = IF res = "flood" THEN floods + 1 ELSE floods
    /\ gated' = IF res = "flood" THEN gated \cup {worker[w].account} ELSE gated

\* The refresh RPC failed, or the refreshed message no longer passes the filter.
RefreshFailed(w, res) ==
    /\ worker[w].phase = "checked"
    /\ res \in {"error", "filtered", "flood"}
    /\ EndAttempt(w, res)
    /\ UNCHANGED <<queueVars, run, observing, active, signals, stored, crashes>>

\* Refresh stores what Telegram reports now, unless the claim was overtaken.
\* Another attachment gets a generation of its own and ends this claim.
Refresh(w, version, identity) ==
    LET k == worker[w].key
        r == rows[k]
        other == identity # r.identity
        current == r.gen = worker[w].gen /\ HoldsClaim(w)
    IN
    /\ worker[w].phase = "checked"
    /\ \/ /\ current
          /\ other => r.gen < MaxGen
          /\ rows' = [rows EXCEPT ![k] =
               [r EXCEPT !.gen = IF other THEN @ + 1 ELSE @,
                         !.attempts = IF other THEN 0 ELSE @,
                         !.version = Larger(@, version),
                         !.identity = identity,
                         !.body = TRUE,
                         !.refresh = FALSE]]
       \/ ~current /\ UNCHANGED rows
    /\ worker' =
         IF current /\ ~other
         THEN [worker EXCEPT ![w].phase = "transfer"]
         ELSE [worker EXCEPT ![w].phase = "ending", ![w].result = "error",
                             ![w].cancelled = TRUE]
    /\ UNCHANGED <<nextId, queuePaused, runVars, active, signals, ghostVars>>

\* The sink returns. A cancelled transfer may still have finished the file.
EndTransfer(w, res) ==
    /\ worker[w].phase = "transfer"
    /\ res \in {"ok", "error", "flood"}
    /\ EndAttempt(w, res)
    /\ stored' = IF res = "ok" THEN stored \cup {<<worker[w].id, worker[w].gen>>} ELSE stored
    /\ UNCHANGED <<queueVars, run, observing, active, signals, crashes>>

\* wasCancelled is read, then the worker leaves the active map: whatever is
\* registered for the row id is deleted.
Unregister(w) ==
    /\ worker[w].phase = "ending"
    /\ worker' = [worker EXCEPT ![w] =
         [IdleWorker EXCEPT !.phase = "finishing", !.key = worker[w].key, !.id = worker[w].id,
                            !.gen = worker[w].gen, !.attempts = worker[w].attempts,
                            !.wasCancelled = worker[w].cancelled, !.result = worker[w].result]]
    /\ active' = [active EXCEPT ![worker[w].id] = None]
    /\ UNCHANGED <<queueVars, runVars, signals, ghostVars>>

\* Mutant: a flood wait is an ordinary failure.
NeverFlooded(w) == FALSE

Flooded(w) == worker[w].result = "flood" /\ ~worker[w].wasCancelled

Retried(w) ==
    \/ Flooded(w)
    \/ /\ worker[w].result = "error"
       /\ ~worker[w].wasCancelled
       /\ worker[w].attempts < MaxAttempts

\* Mutant: a status of its own for cancelled claims.
CancelledStatus(w) == IF worker[w].wasCancelled THEN "cancelled"
                      ELSE IF Retried(w) THEN "pending" ELSE "completed"

FinalStatus(w) ==
    IF worker[w].wasCancelled \/ Retried(w) THEN "pending"
    ELSE CASE worker[w].result = "ok" -> "completed"
           [] worker[w].result = "filtered" -> "skipped"
           [] OTHER -> "failed"

\* Mutants: Finish matches the generation in its WHERE clause and so leaves an edited
\* row alone; it acknowledges whatever generation is there; it empties the body of
\* every row it ends.
FinishedUnlessEdited(r, w) ==
    IF r.gen # worker[w].gen THEN r
    ELSE [r EXCEPT !.status = FinalStatus(w), !.backoff = Retried(w), !.claim = 0]

FinishedAnyGeneration(r, w) ==
    [r EXCEPT !.status = FinalStatus(w), !.backoff = Retried(w), !.claim = 0]

FinishedAndEmptied(r, w) ==
    [r EXCEPT !.status = IF r.gen # worker[w].gen THEN "pending" ELSE FinalStatus(w),
              !.body = @ /\ (r.gen # worker[w].gen \/ FinalStatus(w) = "pending"), !.claim = 0]

\* Only the claim that still owns the row changes it, and it cannot acknowledge
\* a generation that arrived after it.
FinishedRow(r, w) ==
    IF r.gen # worker[w].gen
    THEN [r EXCEPT !.status = "pending", !.backoff = FALSE, !.claim = 0]
    ELSE [r EXCEPT !.status = FinalStatus(w),
                   !.backoff = Retried(w),
                   !.body = @ /\ FinalStatus(w) \notin {"completed", "skipped"},
                   !.attempts = IF worker[w].wasCancelled \/ Flooded(w)
                                THEN IF @ = 0 THEN 0 ELSE @ - 1
                                ELSE @,
                   !.claim = 0]

Finish(w) ==
    /\ worker[w].phase = "finishing"
    /\ rows' = IF HoldsClaim(w)
               THEN [rows EXCEPT ![worker[w].key] = FinishedRow(@, w)]
               ELSE rows
    /\ worker' = [worker EXCEPT ![w] = IdleWorker]
    /\ UNCHANGED <<nextId, queuePaused, runVars, active, signals, ghostVars>>

\* retry_at passes; the flood wait of an account ends.
BackoffEnds(k) ==
    /\ rows[k].backoff
    /\ rows' = [rows EXCEPT ![k].backoff = FALSE]
    /\ UNCHANGED <<nextId, queuePaused, runVars, worker, active, signals, ghostVars>>

FloodWaitEnds(a) ==
    /\ a \in gated
    /\ gated' = gated \ {a}
    /\ UNCHANGED <<queueVars, run, observing, worker, active, signals, ghostVars>>

-----------------------------------------------------------------------------
(* Queue operations: each needs a running engine (queueRun).               *)

SetQueuePaused(paused) ==
    /\ run = "up"
    /\ queuePaused' = paused
    /\ rows' = [k \in Keys |->
                  IF ~paused /\ rows[k].status \in {"pending", "processing"}
                  THEN [rows[k] EXCEPT !.paused = FALSE] ELSE rows[k]]
    /\ UNCHANGED <<nextId, runVars, worker, active, signals, ghostVars>>

PauseJob(k, paused) ==
    /\ run = "up"
    /\ rows[k].status \in {"pending", "processing"}
    /\ rows' = [rows EXCEPT ![k].paused = paused]
    /\ UNCHANGED <<nextId, queuePaused, runVars, worker, active, signals, ghostVars>>

CancelledRow(r) ==
    [r EXCEPT !.status = "skipped", !.paused = FALSE, !.claim = 0, !.body = FALSE]

CancelAllQueued ==
    /\ run = "up"
    /\ rows' = [k \in Keys |-> IF rows[k].status = "pending" THEN CancelledRow(rows[k]) ELSE rows[k]]
    /\ UNCHANGED <<nextId, queuePaused, runVars, worker, active, signals, ghostVars>>

CancelJob(k) ==
    /\ run = "up"
    /\ rows[k].status \in {"pending", "processing"}
    /\ rows' = [rows EXCEPT ![k] = CancelledRow(@)]
    /\ signals' = signals \cup {<<"key", k>>}
    /\ UNCHANGED <<nextId, queuePaused, runVars, worker, active, ghostVars>>

\* Mutant: a running job may be retried too.
RetryableRunning(k) == rows[k].status \in {"failed", "processing"} /\ rows[k].body

Retryable(k) == rows[k].status = "failed" /\ rows[k].body

RetriedRow(r) ==
    [r EXCEPT !.status = "pending", !.paused = FALSE, !.claim = 0,
              !.attempts = 0, !.backoff = FALSE]

\* RetryJob for one key, RetryAll for every key.
RetryJobs(ks) ==
    /\ run = "up"
    /\ \E k \in ks : Retryable(k)
    /\ rows' = [k \in Keys |-> IF k \in ks /\ Retryable(k) THEN RetriedRow(rows[k]) ELSE rows[k]]
    /\ UNCHANGED <<nextId, queuePaused, runVars, worker, active, signals, ghostVars>>

\* DismissJob for one key; ClearFinished, for every key, works on a stopped engine too.
DeleteFinished(ks) ==
    /\ run = "up" \/ ks = Keys
    /\ \E k \in ks : Exists(k) /\ rows[k].status \in Terminal
    /\ rows' = [k \in Keys |-> IF k \in ks /\ rows[k].status \in Terminal THEN NoRow ELSE rows[k]]
    /\ UNCHANGED <<nextId, queuePaused, runVars, worker, active, signals, ghostVars>>

-----------------------------------------------------------------------------
(* The lifetime of the run.                                                *)

CancelWorkers(ws) ==
    worker' = [w \in Workers |->
                 IF w \in ws /\ worker[w].phase \notin {"idle", "polled", "claimed"}
                 THEN [worker[w] EXCEPT !.cancelled = TRUE] ELSE worker[w]]

\* start(): Recover runs under the engine lock before any worker exists.
Start(obs) ==
    /\ run = "down"
    /\ run' = "up"
    /\ observing' = obs
    /\ gated' = {}
    /\ rows' = [k \in Keys |->
                  IF rows[k].status = "processing"
                  THEN [rows[k] EXCEPT !.status = "pending", !.claim = 0] ELSE rows[k]]
    /\ UNCHANGED <<nextId, queuePaused, worker, active, signals, ghostVars>>

\* Start on a jobs-only run promotes it to observation.
Promote ==
    /\ run = "up"
    /\ ~observing
    /\ observing' = TRUE
    /\ UNCHANGED <<queueVars, run, gated, worker, active, signals, ghostVars>>

\* StopObserving with explicit work or a job user left: only transfers whose
\* registered origin is live are cancelled.
StopObserving ==
    /\ run = "up"
    /\ observing
    /\ observing' = FALSE
    /\ CancelWorkers({active[i] : i \in {j \in Ids : /\ active[j] # None
                                                     /\ worker[active[j]].origin = "live"}})
    /\ UNCHANGED <<queueVars, run, gated, active, signals, ghostVars>>

\* Stop, a fatal engine error, or shutdown: every attempt's context is cancelled.
Stop ==
    /\ run = "up"
    /\ run' = "stopping"
    /\ CancelWorkers(Workers)
    /\ UNCHANGED <<queueVars, observing, gated, active, signals, ghostVars>>

\* The coordinator has joined every worker.
Stopped ==
    /\ run = "stopping"
    /\ \A w \in Workers : worker[w].phase = "idle"
    /\ run' = "down"
    /\ active' = [i \in Ids |-> None]
    /\ signals' = {}
    /\ UNCHANGED <<queueVars, observing, gated, worker, ghostVars>>

Crash ==
    /\ run # "down"
    /\ crashes < MaxCrashes
    /\ crashes' = crashes + 1
    /\ run' = "down"
    /\ worker' = [w \in Workers |-> IdleWorker]
    /\ active' = [i \in Ids |-> None]
    /\ signals' = {}
    /\ UNCHANGED <<queueVars, observing, gated, stored, floods>>

\* ReassignGroup, on a stopped engine: another account takes the retained work
\* and must refresh every payload before use.
Reassign(k, a) ==
    LET r == rows[k] IN
    /\ run = "down"
    /\ r.body
    /\ r.status \in {"pending", "processing", "failed"}
    /\ r.gen < MaxGen
    /\ rows' = [rows EXCEPT ![k] =
         [r EXCEPT !.account = a, !.refresh = TRUE,
                   !.pts = IF k \in ChannelKeys THEN @ ELSE 0,
                   !.gen = @ + 1, !.claim = 0, !.status = "pending",
                   !.attempts = 0, !.backoff = FALSE]]
    /\ UNCHANGED <<nextId, queuePaused, runVars, worker, active, signals, ghostVars>>

-----------------------------------------------------------------------------
WorkerProgress(w) ==
    \/ Poll(w) \/ Claim(w) \/ ClaimNothing(w)
    \/ Register(w) \/ CheckCurrent(w) \/ StartTransfer(w)
    \/ \E res \in {"ok", "error", "flood", "filtered"} :
         RefreshFailed(w, res) \/ EndTransfer(w, res)
    \/ \E m \in Messages : Refresh(w, m.version, m.identity)
    \/ Unregister(w) \/ Finish(w)

WorkerStep(w) == WorkerProgress(w) \/ ClaimLost(w)

Operator ==
    \/ \E paused \in BOOLEAN : SetQueuePaused(paused) \/ \E k \in Keys : PauseJob(k, paused)
    \/ CancelAllQueued
    \/ \E k \in Keys : CancelJob(k)
    \/ \E ks \in {{k} : k \in Keys} \cup {Keys} : RetryJobs(ks) \/ DeleteFinished(ks)

Lifecycle ==
    \/ \E obs \in BOOLEAN : Start(obs)
    \/ Promote \/ StopObserving \/ Stop \/ Stopped \/ Crash
    \/ \E k \in Keys, a \in Accounts : Reassign(k, a)

Next ==
    \/ \E w \in Workers : WorkerStep(w)
    \/ \E k \in Keys, m \in Messages : Enqueue(k, m)
    \/ \E s \in signals : Signal(s)
    \/ \E k \in Keys : BackoffEnds(k)
    \/ \E a \in Accounts : FloodWaitEnds(a)
    \/ Operator
    \/ Lifecycle

Spec == Init /\ [][Next]_vars
-----------------------------------------------------------------------------
(* Fairness: workers poll on a ticker, timers fire, and a queue operation   *)
(* that committed reaches its active lookup. Operators promise nothing.     *)
Fairness ==
    /\ \A w \in Workers : WF_vars(WorkerProgress(w))
    /\ \A k \in Keys : WF_vars(BackoffEnds(k))
    /\ \A a \in Accounts : WF_vars(FloodWaitEnds(a))
    /\ WF_vars(\E s \in signals : Signal(s))

FairSpec == Spec /\ Fairness

-----------------------------------------------------------------------------
(* Properties.                                                             *)

Row == [id : 0..MaxId, status : Statuses, gen : Nat, claim : Nat, version : Nat, pts : Nat,
        identity : Identities \cup {None}, account : Accounts \cup {None},
        origin : Origins, ttl : BOOLEAN, body : BOOLEAN, paused : BOOLEAN,
        refresh : BOOLEAN, attempts : Nat, backoff : BOOLEAN]

\* NoRow alone has id 0.
TypedRow == {r \in Row : r.status # "completed" => r.id # 0}

Phases == {"idle", "polled", "claimed", "registered", "checked", "transfer", "ending", "finishing"}
Results == {"none", "ok", "error", "flood", "filtered"}

WorkerState ==
    [phase : Phases,
     key : Keys \cup {None}, id : 0..MaxId, gen : Nat, attempts : Nat,
     account : Accounts \cup {None}, origin : Origins, force : BOOLEAN,
     manual : BOOLEAN, cancelled : BOOLEAN, wasCancelled : BOOLEAN,
     result : Results]

\* A worker past its claim knows the row it works for.
TypedWorker ==
    {s \in WorkerState : s.phase \notin {"idle", "polled"} => s.key \in Keys /\ s.id \in Ids}

\* The state has the types the schema and the Go declarations give it.
TypeOK ==
    /\ rows \in [Keys -> TypedRow]
    /\ nextId \in 1..(MaxId + 1)
    /\ queuePaused \in BOOLEAN
    /\ run \in {"down", "up", "stopping"}
    /\ observing \in BOOLEAN
    /\ gated \subseteq Accounts \cup {None}
    /\ worker \in [Workers -> TypedWorker]
    /\ active \in [Ids -> Workers \cup {None}]
    /\ signals \subseteq ({"id"} \X Ids) \cup ({"key"} \X Keys)
    /\ stored \subseteq Ids \X Nat
    /\ crashes \in Nat /\ floods \in Nat

\* Two workers never hold the claim of one row (Claim, Finish, Recover): a row
\* cannot be downloaded twice under one generation.
OneClaimOwner ==
    \A w, v \in Workers :
        Busy(w) /\ Busy(v) /\ HoldsClaim(w) /\ HoldsClaim(v)
        /\ worker[w].key = worker[v].key => w = v

\* While the engine runs, a processing row belongs to a worker that will finish
\* it: no cancel, edit, refresh or retry orphans a claim (Recover runs only at Start).
NoOrphanClaim ==
    run = "up" => \A k \in Keys : rows[k].status = "processing" =>
                     \E w \in Workers : Busy(w) /\ worker[w].key = k /\ HoldsClaim(w)

\* A row is completed only if the sink finished the very generation the row now
\* describes: an edit accepted during a transfer is never acknowledged by it.
CompletedIsStored ==
    \A k \in Keys : Exists(k) /\ rows[k].status = "completed" => <<rows[k].id, rows[k].gen>> \in stored

\* Work that can still be claimed or retried keeps its message body (Finish and
\* the cancel operations empty bodies of rows they end).
LiveRowsHaveBodies ==
    \A k \in Keys : rows[k].status \in {"pending", "processing", "failed"} => rows[k].body

\* A job is failed only once its attempts are spent: flood waits, edits and
\* cancellations do not cost it the retries it is owed.
FailedIsExhausted ==
    \A k \in Keys : rows[k].status = "failed" => rows[k].attempts >= MaxAttempts

\* A registered transfer of live work is cancelled when observation stops, also
\* when its claim was selected before StopObserving and registered after it.
RegisteredLiveIsObserved ==
    \A i \in Ids : active[i] # None =>
        LET w == active[i] IN
        worker[w].origin = "live" /\ ~worker[w].cancelled /\ worker[w].phase # "ending" => observing

Stale(w) ==
    /\ worker[w].phase = "transfer"
    /\ ~worker[w].cancelled
    /\ rows[worker[w].key].id = worker[w].id
    /\ ~OwnsCurrent(w)

\* Once no queue operation is between its statement and its lookup, a transfer
\* that is still registered works for the current generation of its row: IsCurrent
\* closes the interval before Register, the active map covers everything after it.
NoStaleTransfer ==
    signals = {} => \A w \in Workers : Stale(w) => active[worker[w].id] # w

\* "Cancelling a processing row must stop the in-flight media transport"
\* (controller.go, CancelJob): no transfer of a cancelled row runs on.
CancelStopsTransfer ==
    signals = {} => \A w \in Workers : Stale(w) => rows[worker[w].key].status # "skipped"

\* Accepted work is settled eventually unless an operator holds it back, the
\* engine stops, or live work waits for observation to resume.
HeldBack(k) ==
    \/ rows[k].paused \/ queuePaused
    \/ run # "up"
    \/ rows[k].origin = "live" /\ ~observing

AcceptedIsSettled ==
    \A k \in Keys : rows[k].status \in {"pending", "processing"} ~>
                       (rows[k].status \in Terminal \/ HeldBack(k))

-----------------------------------------------------------------------------
(* The inductive strengthening of OneClaimOwner, NoOrphanClaim and          *)
(* CompletedIsStored.                                                       *)

ClaimOf(w) == <<worker[w].key, worker[w].id, worker[w].gen>>

\* A claim never runs ahead of its row, and a row that still describes the
\* claimed generation is the claim's or has been cancelled.
ClaimFits(w) ==
    LET r == rows[worker[w].key] IN
    r.id = worker[w].id =>
        /\ worker[w].gen <= r.gen
        /\ worker[w].gen = r.gen => \/ r.status = "processing" /\ r.claim = r.gen
                                   \/ r.status = "skipped"

ClaimInv ==
    /\ run = "down" => \A w \in Workers : worker[w].phase = "idle"
    /\ \A k \in Keys : rows[k].id < nextId
    /\ \A w \in Workers : Busy(w) => worker[w].id < nextId /\ ClaimFits(w)
    /\ \A w, v \in Workers : Busy(w) /\ Busy(v) /\ ClaimOf(w) = ClaimOf(v) => w = v
    /\ NoOrphanClaim

\* What a worker reports as finished, the sink has finished.
StoredInv ==
    /\ CompletedIsStored
    /\ \A w \in Workers : worker[w].phase \in {"ending", "finishing"} /\ worker[w].result = "ok"
                            => <<worker[w].id, worker[w].gen>> \in stored

\* What runs is what the row asks for, and live work runs only while it is observed.
TransfersAreWanted == NoStaleTransfer /\ RegisteredLiveIsObserved

\* A row that may be tried again has its message, and only real failures used its attempts up.
RetriesAreOwed == FailedIsExhausted /\ LiveRowsHaveBodies
=============================================================================
