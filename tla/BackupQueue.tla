----------------------------- MODULE BackupQueue -----------------------------
(***************************************************************************)
(* The jobs of one backup destination (internal/backup queue.go,           *)
(* manager.go, schedule.go).  Destinations run independently: each has its *)
(* own worker, and only the commands of the operator share a lock.         *)
(*                                                                         *)
(* SQL triggers of the library ask for the upload of a file in the         *)
(* transaction that saves or changes its row; a worker claims the due job  *)
(* with the smallest id, reads the file after the claim, uploads it, and   *)
(* records the result only for the revision it claimed.  A command of the  *)
(* operator stops the worker and waits for it before it writes.            *)
(***************************************************************************)
EXTENDS FiniteSets, Integers

CONSTANTS
  Files,          \* downloads that are mirrored, by the id of their job
  Archives,       \* snapshot archives, by the id of their job: created in this order
  MaxAttempts,    \* max_attempts of a job
  Retain,         \* retain_count of the destination
  MaxRevisions,   \* revisions a file goes through
  MaxFailures,    \* uploads that fail
  MaxCommands,    \* commands of the operator
  MaxCrashes      \* process exits

ASSUME BackupAssumption ==
  /\ IsFiniteSet(Files) /\ IsFiniteSet(Archives)
  /\ Files \subseteq Nat \ {0} /\ Archives \subseteq Nat \ {0} /\ Files \cap Archives = {}
  /\ MaxAttempts \in Nat \ {0} /\ Retain \in Nat \ {0}
  /\ {MaxRevisions, MaxFailures, MaxCommands, MaxCrashes} \subseteq Nat

VARIABLES
  dest,        \* the destination: enabled, mode, encrypted (rows), paused, and unlocked (memory)
  revision,    \* revision of a file, 0 before it is downloaded
  job,         \* backup_jobs: status, attempts, version; due is next_retry_at in the past
  remote,      \* what the destination holds: the revision of an object and whether it is clear
  unpruned,    \* native_backup_retention: archives whose retention has not run
  uploader,    \* the worker: its step, the job it holds and what it knows of it
  command,     \* the command that holds Manager.op, or NoCommand
  wanted,      \* history: the revision of a file last asked of this destination
  uploadedArchives,  \* history: archives the destination ever got
  backupCount  \* failures, commands and crashes so far: the bounds

backupVars == <<dest, revision, job, remote, unpruned, uploader, command, wanted,
                uploadedArchives, backupCount>>

BackupJobs == Files \cup Archives
NoJob == [status |-> "none", attempts |-> 0, version |-> 0, due |-> TRUE]
NewJob == [NoJob EXCEPT !.status = "pending"]
NoObject == [revision |-> 0, clear |-> FALSE]
NoCommand == [name |-> "none"]
NoWorker == [step |-> "none", job |-> 0, version |-> 0, revision |-> 0, encrypted |-> FALSE,
 result |-> "none", cancelled |-> FALSE]
Idle == [NoWorker EXCEPT !.step = "idle"]

BackupInit ==
  /\ dest = [enabled |-> TRUE, mode |-> "mirror", encrypted |-> FALSE, paused |-> FALSE,
             unlocked |-> FALSE]
  /\ revision = [f \in Files |-> 0]
  /\ job = [j \in BackupJobs |-> NoJob]
  /\ remote = [j \in BackupJobs |-> NoObject]
  /\ unpruned = {}
  /\ uploader = Idle
  /\ command = NoCommand
  /\ wanted = [f \in Files |-> 0]
  /\ uploadedArchives = {}
  /\ backupCount = [failures |-> 0, commands |-> 0, crashes |-> 0]

Counted(what) == backupCount' = [backupCount EXCEPT ![what] = @ + 1]

-----------------------------------------------------------------------------
(* The library                                                             *)

Mirrors == dest.enabled /\ dest.mode = "mirror"

\* native_backup_download_update: the running upload keeps its claim, but not its revision
Changed(j) ==
  IF j.status = "none" THEN NewJob
  ELSE IF j.status = "uploading" THEN [j EXCEPT !.version = @ + 1, !.due = TRUE]
  ELSE [NewJob EXCEPT !.version = j.version + 1]

\* A file is downloaded, or its path or content changes: the triggers are part of the
\* transaction.  A destination that does not mirror at that time is not asked.
SaveFile(f) ==
  /\ revision[f] < MaxRevisions
  /\ revision' = [revision EXCEPT ![f] = @ + 1]
  /\ IF Mirrors
       THEN /\ job' = [job EXCEPT ![f] = Changed(@)]
            /\ wanted' = [wanted EXCEPT ![f] = revision[f] + 1]
       ELSE UNCHANGED <<job, wanted>>
  /\ UNCHANGED <<dest, remote, unpruned, uploader, command, uploadedArchives, backupCount>>

\* One archive at a time is pending or uploading, and a new one gets the next id.
NextArchive(a) ==
  /\ job[a].status = "none"
  /\ \A b \in Archives : b < a => job[b].status \in {"done", "failed"}
  /\ \A b \in Archives : b > a => job[b].status = "none"

RequestArchive ==
  job' = [j \in BackupJobs |-> IF j \in Archives /\ NextArchive(j) THEN NewJob ELSE job[j]]

\* Manager.Run: a mirror catches up with the files that have no job
RunBackup ==
  /\ command = NoCommand /\ dest.enabled
  /\ IF dest.mode = "mirror"
       THEN LET missing == {f \in Files : revision[f] > 0 /\ job[f].status = "none"} IN
            /\ job' = [j \in BackupJobs |-> IF j \in missing THEN NewJob ELSE job[j]]
            /\ wanted' = [f \in Files |-> IF f \in missing THEN revision[f] ELSE wanted[f]]
       ELSE RequestArchive /\ UNCHANGED wanted
  /\ UNCHANGED <<dest, revision, remote, unpruned, uploader, command, uploadedArchives,
                 backupCount>>

\* Manager.scheduleAt: the minute that matches is taken once and not while paused
ScheduleArchive ==
  /\ command = NoCommand /\ dest.enabled /\ ~dest.paused /\ dest.mode = "snapshot"
  /\ RequestArchive
  /\ UNCHANGED <<dest, revision, remote, unpruned, uploader, command, wanted,
                 uploadedArchives, backupCount>>

-----------------------------------------------------------------------------
(* The worker                                                              *)

Pending == {j \in BackupJobs : job[j].status = "pending"}
Due == {j \in Pending : job[j].due}
First(S) == CHOOSE j \in S : \A k \in S : j <= k

\* What the worker looks at before it takes work: a paused or locked destination
\* keeps its jobs pending, without spending an attempt.
MayWork ==
  /\ uploader.step = "idle" /\ ~uploader.cancelled
  /\ dest.enabled /\ ~dest.paused
  /\ dest.encrypted /\ Pending # {} => dest.unlocked

Claimed(j) == [j EXCEPT !.status = "uploading", !.attempts = @ + 1]

ClaimJob ==
  /\ MayWork /\ Due # {}
  /\ LET j == First(Due) IN
     /\ job' = [job EXCEPT ![j] = Claimed(@)]
     /\ uploader' = [Idle EXCEPT !.step = "claimed", !.job = j, !.version = job[j].version,
                                 !.encrypted = dest.encrypted]
  /\ UNCHANGED <<dest, revision, remote, unpruned, command, wanted, uploadedArchives,
                 backupCount>>

\* transfer opens the file, or builds the archive, after the claim; a source that is
\* missing, or is no regular file, fails for good
ReadSource ==
  /\ uploader.step = "claimed"
  /\ \/ /\ uploader' = [uploader EXCEPT !.step = "read",
                           !.revision = IF uploader.job \in Files THEN revision[uploader.job] ELSE 1]
        /\ UNCHANGED backupCount
     \/ /\ backupCount.failures < MaxFailures /\ Counted("failures")
        /\ uploader' = [uploader EXCEPT !.step = "sent", !.result = "permanent"]
  /\ UNCHANGED <<dest, revision, job, remote, unpruned, command, wanted, uploadedArchives>>

\* Provider.Upload publishes the whole object or nothing; a cancelled one may still do either
UploadObject ==
  /\ uploader.step = "read"
  /\ \/ /\ remote' = [remote EXCEPT ![uploader.job] =
                        [revision |-> uploader.revision, clear |-> ~uploader.encrypted]]
        /\ uploadedArchives' = uploadedArchives \cup ({uploader.job} \cap Archives)
        /\ uploader' = [uploader EXCEPT !.step = "sent", !.result = "sent"]
        /\ UNCHANGED backupCount
     \/ /\ uploader' = [uploader EXCEPT !.step = "sent", !.result = "failed"]
        /\ \/ uploader.cancelled /\ UNCHANGED backupCount
           \/ backupCount.failures < MaxFailures /\ Counted("failures")
        /\ UNCHANGED <<remote, uploadedArchives>>
  /\ UNCHANGED <<dest, revision, job, unpruned, command, wanted>>

Released(j) ==
  IF j.status = "uploading"
    THEN [j EXCEPT !.status = "pending", !.attempts = IF @ = 0 THEN 0 ELSE @ - 1]
    ELSE j

\* ctx.Err() is looked at once, after the upload
CheckCancelled ==
  /\ uploader.step = "sent"
  /\ IF uploader.cancelled
       THEN /\ job' = [job EXCEPT ![uploader.job] = Released(@)]
            /\ uploader' = [Idle EXCEPT !.cancelled = TRUE]
       ELSE /\ uploader' = [uploader EXCEPT !.step = "save"]
            /\ UNCHANGED job
  /\ UNCHANGED <<dest, revision, remote, unpruned, command, wanted, uploadedArchives,
                 backupCount>>

\* Mutant: A job that failed is retried without limit.
FailureForNow(j) ==
  IF uploader.result # "permanent"
    THEN [j EXCEPT !.status = "pending", !.due = FALSE]
    ELSE [j EXCEPT !.status = "failed"]

\* Manager.failed
Failure(j) ==
  IF uploader.result # "permanent" /\ j.attempts < MaxAttempts
    THEN [j EXCEPT !.status = "pending", !.due = FALSE]
    ELSE [j EXCEPT !.status = "failed"]

\* Mutant: The result is recorded whatever revision was claimed.
RecordedAnyRevision(j) ==
  IF uploader.result = "sent" THEN [j EXCEPT !.status = "done"] ELSE Failure(j)

\* requeueChanged, Manager.failed and the commit of a success, each for the claimed revision
Recorded(j) ==
  IF j.version # uploader.version THEN [j EXCEPT !.status = "pending", !.attempts = 0]
  ELSE IF uploader.result = "sent" THEN [j EXCEPT !.status = "done"]
  ELSE Failure(j)

\* The writes use the context of the worker: cancelled since the check, none of them
\* happens, and the job stays "uploading".
SaveResult ==
  /\ uploader.step = "save"
  /\ IF uploader.cancelled
       THEN UNCHANGED <<job, unpruned>>
       ELSE LET saved == Recorded(job[uploader.job]) IN
            /\ job' = [job EXCEPT ![uploader.job] = saved]
            /\ unpruned' = IF saved.status = "done" THEN unpruned \cup ({uploader.job} \cap Archives)
                           ELSE unpruned
  /\ uploader' = [Idle EXCEPT !.cancelled = uploader.cancelled]
  /\ UNCHANGED <<dest, revision, remote, command, wanted, uploadedArchives, backupCount>>

\* Time passes: next_retry_at comes
RetryDue(j) ==
  /\ job[j].status = "pending" /\ ~job[j].due
  /\ job' = [job EXCEPT ![j].due = TRUE]
  /\ UNCHANGED <<dest, revision, remote, unpruned, uploader, command, wanted,
                 uploadedArchives, backupCount>>

RemoteArchives == {a \in Archives : remote[a] # NoObject}

\* Mutant: The archives are sorted the other way round.
PrunedNewest(S) == {a \in S : Cardinality({b \in S : b < a}) >= Retain}

\* The archives beyond the newest retain_count
Pruned(S) == {a \in S : Cardinality({b \in S : b > a}) >= Retain}

\* Manager.retention, before new work: only a snapshot destination prunes
PruneArchives ==
  /\ MayWork /\ unpruned # {}
  /\ \/ /\ remote' = [j \in BackupJobs |->
                        IF dest.mode = "snapshot" /\ j \in Pruned(RemoteArchives) THEN NoObject
                        ELSE remote[j]]
        /\ unpruned' = unpruned \ {First(unpruned)}
        /\ UNCHANGED backupCount
     \/ /\ backupCount.failures < MaxFailures /\ Counted("failures")
        /\ UNCHANGED <<remote, unpruned>>
  /\ UNCHANGED <<dest, revision, job, uploader, command, wanted, uploadedArchives>>

WorkerEnds ==
  /\ uploader.step = "idle" /\ uploader.cancelled
  /\ uploader' = NoWorker
  /\ UNCHANGED <<dest, revision, job, remote, unpruned, command, wanted, uploadedArchives,
                 backupCount>>

-----------------------------------------------------------------------------
(* The operator                                                            *)

Commands ==
  [name : {"pause"}, paused : BOOLEAN]
    \cup [name : {"update"}, enabled : BOOLEAN, mode : {"mirror", "snapshot", "manual"}]
    \cup [name : {"encryption"}, encrypted : BOOLEAN]
    \cup [name : {"retry"}, job : BackupJobs]

\* Commands that change nothing are left out, and a retry names a job that exists.
Applicable(c) ==
  CASE c.name = "pause" -> c.paused # dest.paused
    [] c.name = "update" -> <<c.enabled, c.mode>> # <<dest.enabled, dest.mode>>
    [] c.name = "encryption" -> c.encrypted # dest.encrypted \/ (c.encrypted /\ ~dest.unlocked)
    [] c.name = "retry" -> job[c.job].status # "none"

\* Manager.stop: the worker leaves the map and its context is cancelled
StopWorker(c) ==
  /\ command = NoCommand /\ backupCount.commands < MaxCommands /\ Applicable(c)
  /\ command' = c
  /\ uploader' = IF uploader.step = "none" THEN uploader ELSE [uploader EXCEPT !.cancelled = TRUE]
  /\ Counted("commands")
  /\ UNCHANGED <<dest, revision, job, remote, unpruned, wanted, uploadedArchives>>

\* Mutant: A command does not wait for the worker it stopped.
NobodyAwaited == TRUE

\* <-w.done: the command goes on when the worker has ended
WorkerJoined == uploader.step = "none"

Applied(c) ==
  CASE c.name = "pause" -> [dest EXCEPT !.paused = c.paused]
    [] c.name = "update" -> [dest EXCEPT !.enabled = c.enabled, !.mode = c.mode]
    [] c.name = "encryption" -> [dest EXCEPT !.encrypted = c.encrypted, !.unlocked = c.encrypted]
    [] c.name = "retry" -> dest

ApplyCommand ==
  /\ command # NoCommand /\ WorkerJoined
  /\ dest' = Applied(command)
  /\ job' = IF command.name = "retry"
              THEN [job EXCEPT ![command.job] = [NewJob EXCEPT !.version = job[command.job].version]]
              ELSE job
  /\ uploader' = IF uploader.step # "none" THEN uploader
                 ELSE IF dest'.enabled THEN Idle ELSE NoWorker
  /\ command' = NoCommand
  /\ UNCHANGED <<revision, remote, unpruned, wanted, uploadedArchives, backupCount>>

\* Mutant: A new process leaves interrupted jobs as they are.
RecoveredNothing(j) == j

Recovered(j) == IF j.status = "uploading" THEN [j EXCEPT !.status = "pending"] ELSE j

\* NewManager: keys are gone, interrupted jobs are pending and keep their attempts
RestartBackups ==
  /\ backupCount.crashes < MaxCrashes /\ Counted("crashes")
  /\ job' = [j \in BackupJobs |-> Recovered(job[j])]
  /\ dest' = [dest EXCEPT !.unlocked = FALSE]
  /\ uploader' = IF dest.enabled THEN Idle ELSE NoWorker
  /\ command' = NoCommand
  /\ UNCHANGED <<revision, remote, unpruned, wanted, uploadedArchives>>

-----------------------------------------------------------------------------
WorkerStep ==
  \/ ClaimJob \/ ReadSource \/ UploadObject \/ CheckCancelled \/ SaveResult
  \/ PruneArchives \/ WorkerEnds

BackupNext ==
  \/ \E f \in Files : SaveFile(f)
  \/ RunBackup \/ ScheduleArchive
  \/ WorkerStep
  \/ \E j \in BackupJobs : RetryDue(j)
  \/ \E c \in Commands : StopWorker(c)
  \/ ApplyCommand
  \/ RestartBackups

\* The worker's goroutine runs, time passes, and a command that has the lock goes on.
BackupFairness ==
  /\ WF_backupVars(WorkerStep)
  /\ \A j \in BackupJobs : WF_backupVars(RetryDue(j))
  /\ WF_backupVars(ApplyCommand)

BackupSpec == BackupInit /\ [][BackupNext]_backupVars

-----------------------------------------------------------------------------
BackupTypeOK ==
  /\ dest \in [enabled : BOOLEAN, mode : {"mirror", "snapshot", "manual"}, encrypted : BOOLEAN,
               paused : BOOLEAN, unlocked : BOOLEAN]
  /\ revision \in [Files -> 0..MaxRevisions]
  /\ job \in [BackupJobs -> [status : {"none", "pending", "uploading", "done", "failed"},
                             attempts : 0..MaxAttempts + backupCount.crashes, version : 0..MaxRevisions, due : BOOLEAN]]
  /\ remote \in [BackupJobs -> [revision : 0..MaxRevisions, clear : BOOLEAN]]
  /\ unpruned \subseteq Archives /\ uploadedArchives \subseteq Archives
  /\ uploader \in [step : {"none", "idle", "claimed", "read", "sent", "save"},
                   job : BackupJobs \cup {0}, version : 0..MaxRevisions, revision : 0..MaxRevisions,
                   encrypted : BOOLEAN,
                   result : {"none", "sent", "failed", "permanent"}, cancelled : BOOLEAN]
  /\ command \in Commands \cup {NoCommand}
  /\ wanted \in [Files -> 0..MaxRevisions]

\* A job that is done means that the destination holds the revision it was last asked for,
\* whatever happened to the file between the claim, the read of the file and the end of
\* the upload (queue.go:436, the version in claim and in the commit).
DoneIsCurrent ==
  \A f \in Files : job[f].status = "done" => remote[f].revision >= wanted[f]

\* An upload that a command of the operator overtook never lands under the new settings:
\* nothing reaches a paused destination, and nothing clear an encrypted one, because the
\* command waits for the worker it cancels (manager.go:537, :596).
UploadsObeySettings ==
  [][\A j \in BackupJobs :
       remote'[j] # remote[j] /\ remote'[j] # NoObject =>
         ~dest.paused /\ (dest.encrypted => ~remote'[j].clear)]_backupVars

\* Pruning never takes one of the newest archives, retried, interrupted and repeated
\* archives included (queue.go:483).
NewestArchivesAreKept ==
  \A a \in uploadedArchives :
    Cardinality({b \in uploadedArchives : b > a}) < Retain => a \in RemoteArchives

\* Once the operator leaves the destination able to work, every job is done or has failed in
\* the end: after a crash, a failed upload or a change of its file (queue.go:184).  The one
\* exception is a job whose upload a command cancelled too late (UploadingIsHeld).
Workable == dest.enabled /\ ~dest.paused /\ (dest.encrypted => dest.unlocked)

Stranded(j) == job[j].status = "uploading" /\ uploader.job # j

JobsAreSettled ==
  <>[]Workable =>
    \A j \in BackupJobs :
      job[j].status = "pending" ~>
        \/ job[j].status \in {"done", "failed"}
        \/ Stranded(j) /\ backupCount.commands > 0

\* "cancels/joins the active transfer before returning" (docs/GO-BACKUP.md): a job that is
\* uploading is held by the worker.
UploadingIsHeld ==
  \A j \in BackupJobs : ~Stranded(j)

\* What is recorded as backed up is, retention takes the oldest, and nothing is uploaded
\* against the settings.
BackupsAreTrue == [](DoneIsCurrent /\ NewestArchivesAreKept) /\ UploadsObeySettings
=============================================================================
