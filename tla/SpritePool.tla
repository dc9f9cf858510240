----------------------------- MODULE SpritePool -----------------------------
(***************************************************************************)
(* The stand-alone sprite service (seekbar-service: api/server.go,         *)
(* worker/pool.go): jobs submitted by path or with an upload sent in       *)
(* chunks, the queue with realtime jobs ahead of backfill, the workers,    *)
(* cancellation, and what a restart leaves of the uploads.  Jobs and queue *)
(* live in memory, uploads and sprites on disk.                            *)
(***************************************************************************)
EXTENDS Naturals, Sequences, SequencesExt, FiniteSets

CONSTANTS
  PoolJobs,     \* jobs ever submitted
  Uploads,      \* upload ids
  PoolVideos,
  PoolWorkers,
  NoUpload,
  \* Bounds of the model only.
  MaxPoolStarts

ASSUME PoolAssumption ==
  PoolJobs \subseteq Nat \ {0} /\ NoUpload \notin Uploads /\ MaxPoolStarts \in Nat

VARIABLES
  poolJob,    \* Job -> its row
  poolQueue,  \* jobs in the queue, in order
  busyWith,   \* Worker -> the job it works on and how far it is
  partial,    \* Upload -> "none", "open" (no chunk in flight) or "busy": the .part file
  claimed,    \* uploads whose .job file is there
  out,        \* Video -> the jobs that wrote its sprite and its metadata
  ran,        \* history: jobs ffmpeg was started for
  poolStarts  \* bound used

poolVars == <<poolJob, poolQueue, busyWith, partial, claimed, out, ran, poolStarts>>

FreeWorker == [job |-> 0, pc |-> "free"]
NoPoolJob == [status |-> "none", video |-> NoUpload, upload |-> NoUpload, priority |-> 0, answered |-> FALSE]

PoolInit ==
  /\ poolJob = [j \in PoolJobs |-> NoPoolJob] /\ poolQueue = <<>>
  /\ busyWith = [w \in PoolWorkers |-> FreeWorker]
  /\ partial = [u \in Uploads |-> "none"] /\ claimed = {}
  /\ out = [v \in PoolVideos |-> [sprite |-> 0, meta |-> 0]]
  /\ ran = {} /\ poolStarts = 0
-----------------------------------------------------------------------------
(* Uploads.                                                                *)

\* handleUploadChunk: one chunk of an upload at a time.
StartChunk(u) ==
  /\ partial[u] # "busy"
  /\ partial' = [partial EXCEPT ![u] = "busy"]
  /\ UNCHANGED <<poolJob, poolQueue, busyWith, claimed, out, ran, poolStarts>>

EndChunk(u) ==
  /\ partial[u] = "busy"
  /\ partial' = [partial EXCEPT ![u] = "open"]
  /\ UNCHANGED <<poolJob, poolQueue, busyWith, claimed, out, ran, poolStarts>>

\* handleDeleteUpload and sweepUploads: not while a chunk is in flight.
DropUpload(u) ==
  /\ partial[u] = "open"
  /\ partial' = [partial EXCEPT ![u] = "none"]
  /\ UNCHANGED <<poolJob, poolQueue, busyWith, claimed, out, ran, poolStarts>>
-----------------------------------------------------------------------------
(* Jobs.                                                                   *)

FreshJob(j) == poolJob[j] = NoPoolJob /\ \A i \in PoolJobs : i < j => poolJob[i] # NoPoolJob


\* Mutant: the jobs behind the insertion point are not moved.
Overwritten(j, priority) ==
  LET ahead == {i \in DOMAIN poolQueue : priority = 0 /\ poolJob[poolQueue[i]].priority > 0}
  IN  IF ahead = {} THEN Append(poolQueue, j)
      ELSE [poolQueue EXCEPT ![CHOOSE i \in ahead : \A k \in ahead : i <= k] = j]

\* Submit: a realtime job goes before the first backfill job.
Inserted(j, priority) ==
  LET ahead == {i \in DOMAIN poolQueue : priority = 0 /\ poolJob[poolQueue[i]].priority > 0}
      at == IF ahead = {} THEN Len(poolQueue) + 1 ELSE CHOOSE i \in ahead : \A k \in ahead : i <= k
  IN  InsertAt(poolQueue, at, j)

\* buildJob claims the upload by renaming it; then trackJob and Submit.  Upload ids are
\* the client's: it takes a new one for every video.
Submit(j, v, u, priority) ==
  /\ FreshJob(j)
  /\ u # NoUpload => partial[u] = "open" /\ \A i \in PoolJobs : poolJob[i].upload # u
  /\ IF u = NoUpload THEN UNCHANGED <<partial, claimed>>
     ELSE partial' = [partial EXCEPT ![u] = "none"] /\ claimed' = claimed \cup {u}
  /\ poolJob' = [poolJob EXCEPT ![j] = [status |-> "pending", video |-> v, upload |-> u,
                                priority |-> priority, answered |-> FALSE]]
  /\ poolQueue' = Inserted(j, priority)
  /\ UNCHANGED <<busyWith, out, ran, poolStarts>>

\* handleCancelJob: only a queued job; it stays in the queue.
Cancel(j) ==
  /\ poolJob[j].status = "pending"
  /\ poolJob' = [poolJob EXCEPT ![j].status = "cancelled", ![j].answered = TRUE]
  /\ UNCHANGED <<poolQueue, busyWith, partial, claimed, out, ran, poolStarts>>

\* Mutant: the worker takes whatever is next in the queue.
AnyJob(j) == TRUE

Runnable(j) == poolJob[j].status # "cancelled"

\* Mutant: the source of a cancelled job stays.
SourceKept(j) == claimed

\* cleanupUpload: the source goes when the job is settled.
WithoutSource(j) == claimed \ {poolJob[j].upload}

\* next and the worker's look at the job: a cancelled one is only cleaned up.
Take(w) ==
  LET j == Head(poolQueue) IN
  /\ busyWith[w] = FreeWorker /\ poolQueue # <<>>
  /\ poolQueue' = Tail(poolQueue)
  /\ IF Runnable(j)
     THEN /\ poolJob' = [poolJob EXCEPT ![j].status = "running"] /\ busyWith' = [busyWith EXCEPT ![w] = [job |-> j, pc |-> "started"]]
          /\ UNCHANGED claimed
     ELSE claimed' = WithoutSource(j) /\ UNCHANGED <<poolJob, busyWith>>
  /\ UNCHANGED <<partial, out, ran, poolStarts>>

\* The job is settled: its result is published after its source is removed.
Settle(w, status) ==
  LET j == busyWith[w].job IN
  /\ poolJob' = [poolJob EXCEPT ![j].status = status]
  /\ claimed' = WithoutSource(j)
  /\ busyWith' = [busyWith EXCEPT ![w] = FreeWorker]
  /\ UNCHANGED <<poolQueue, partial, poolStarts>>

\* processJob: a failing probe, or a sprite that is there already; ffmpeg is not started.
Skip(w) ==
  LET v == poolJob[busyWith[w].job].video IN
  /\ busyWith[w].pc = "started"
  /\ \/ Settle(w, "failed")
     \/ /\ poolJob[busyWith[w].job].upload = NoUpload /\ out[v].sprite # 0 /\ out[v].meta # 0
        /\ Settle(w, "done")
  /\ UNCHANGED <<out, ran>>

\* ffmpeg runs, with its retries, and the sprite is renamed into place ...
Encode(w) ==
  LET j == busyWith[w].job IN
  /\ busyWith[w].pc = "started"
  /\ ran' = ran \cup {j}
  /\ \/ Settle(w, "failed") /\ UNCHANGED out
     \/ /\ out' = [out EXCEPT ![poolJob[j].video].sprite = j]
        /\ busyWith' = [busyWith EXCEPT ![w].pc = "renamed"]
        /\ UNCHANGED <<poolJob, poolQueue, partial, claimed, poolStarts>>

\* ... and then its metadata.
WriteMeta(w) ==
  LET j == busyWith[w].job IN
  /\ busyWith[w].pc = "renamed"
  /\ out' = [out EXCEPT ![poolJob[j].video].meta = j]
  /\ Settle(w, "done")
  /\ UNCHANGED ran

DeleteSprite(v) ==
  /\ out[v] # [sprite |-> 0, meta |-> 0]
  /\ out' = [out EXCEPT ![v] = [sprite |-> 0, meta |-> 0]]
  /\ UNCHANGED <<poolJob, poolQueue, busyWith, partial, claimed, ran, poolStarts>>

\* StartUploadGC: nothing claims the .job files of the last life.
ClaimedAtStart == {}

\* The process ends and starts again: jobs and queue are gone.
PoolRestart ==
  /\ poolStarts < MaxPoolStarts
  /\ poolJob' = [j \in PoolJobs |-> IF poolJob[j].status \in {"pending", "running"} THEN [poolJob[j] EXCEPT !.status = "lost"] ELSE poolJob[j]]
  /\ poolQueue' = <<>> /\ busyWith' = [w \in PoolWorkers |-> FreeWorker]
  /\ partial' = [u \in Uploads |-> IF partial[u] = "busy" THEN "open" ELSE partial[u]]
  /\ claimed' = ClaimedAtStart
  /\ poolStarts' = poolStarts + 1
  /\ UNCHANGED <<out, ran>>

PoolStep == \E w \in PoolWorkers : Take(w) \/ Skip(w) \/ Encode(w) \/ WriteMeta(w)

PoolNext ==
  \/ \E u \in Uploads : StartChunk(u) \/ EndChunk(u) \/ DropUpload(u)
  \/ \E j \in PoolJobs, v \in PoolVideos, u \in Uploads \cup {NoUpload}, priority \in {0, 1} : Submit(j, v, u, priority)
  \/ \E j \in PoolJobs : Cancel(j)
  \/ PoolStep \/ PoolRestart
  \/ \E v \in PoolVideos : DeleteSprite(v)

PoolSpec == PoolInit /\ [][PoolNext]_poolVars /\ WF_poolVars(PoolStep)
-----------------------------------------------------------------------------
(* Properties.                                                             *)

\* A job whose cancellation was answered is never encoded, whichever worker takes it from
\* the queue it still stands in.
CancelledNeverRuns == \A j \in PoolJobs : poolJob[j].answered => j \notin ran

\* A claimed upload is the source of a job that will remove it; no end of a job, and no
\* restart, leaves one behind.
ClaimedHaveJobs ==
  \A u \in claimed : \E j \in PoolJobs :
    /\ poolJob[j].upload = u
    /\ (\E i \in DOMAIN poolQueue : poolQueue[i] = j) \/ (\E w \in PoolWorkers : busyWith[w].job = j)

\* No realtime job waits behind a backfill job.
RealtimeFirst ==
  \A i, k \in DOMAIN poolQueue : i < k => poolJob[poolQueue[i]].priority <= poolJob[poolQueue[k]].priority

\* The metadata of a video describes its sprite when nobody is working on it: two jobs of
\* one video interleave their two renames.
MetaDescribesSprite ==
  \A v \in PoolVideos :
    (\A w \in PoolWorkers : busyWith[w] # FreeWorker => poolJob[busyWith[w].job].video # v) => out[v].meta = out[v].sprite

\* Every submitted job is settled, if only the process goes on.
JobsSettle == \A j \in PoolJobs : poolJob[j].status = "pending" ~> poolJob[j].status \in {"done", "failed", "cancelled", "lost"}

\* Jobs run as they were submitted and cancelled, and take their uploads with them.
PoolIsOrderly == CancelledNeverRuns /\ ClaimedHaveJobs /\ RealtimeFirst
=============================================================================
