----------------------------- MODULE MCReplicas -----------------------------
(***************************************************************************)
(* What is copied to or from another place, for TLC: the parts of the      *)
(* backups and the catalog of a cluster peer.  They share no state: a      *)
(* behaviour is of the part its first state names, so that their state     *)
(* spaces add instead of multiplying.  The queue is explored twice: with   *)
(* files only ("mirror") and with archives only ("archives").              *)
(***************************************************************************)
EXTENDS BackupQueue, BackupTransfers, FullRestore, ClusterSync

CONSTANTS Parts, t1, t2, t3

VARIABLE part

mcVars == <<backupVars, transferVars, restoreVars, part>>

MCKind == [t \in {t1, t2, t3} |->
             CASE t = t1 -> "temp" [] t = t2 -> "multipart" [] t = t3 -> "stage"]

MCInit ==
  /\ part \in Parts
  /\ BackupInit /\ TransfersInit /\ RestoreInit
  /\ part # "restore" => ~external

Queue == part \in {"mirror", "archives"}

MCNext ==
  /\ \/ /\ Queue /\ BackupNext
        /\ part = "mirror" => \A a \in Archives : job'[a] = NoJob
        /\ part = "archives" => UNCHANGED revision
        /\ UNCHANGED <<transferVars, restoreVars>>
     \/ part = "transfers" /\ TransfersNext /\ UNCHANGED <<backupVars, restoreVars>>
     \/ part = "restore" /\ RestoreNext /\ UNCHANGED <<backupVars, transferVars>>
  /\ UNCHANGED part

\* The fairness of each part, for the behaviours of that part
MCFairness ==
  /\ WF_backupVars(Queue /\ WorkerStep) /\ WF_backupVars(Queue /\ ApplyCommand)
  /\ \A j \in BackupJobs : WF_backupVars(Queue /\ RetryDue(j))
  /\ \A t \in Transfers :
       /\ WF_transferVars(part = "transfers" /\ TransferStep(t))
       /\ WF_transferVars(part = "transfers" /\ ReclaimComesDue(t))
  /\ \A c \in Cleaners : WF_transferVars(part = "transfers" /\ CleanerStep(c))
  /\ WF_restoreVars(part = "restore" /\ RestoreStep)

backupsVars == <<backupVars, transferVars, restoreVars>>

ReplicaInit == MCInit /\ SyncInit

ReplicaNext ==
  \/ MCNext /\ UNCHANGED syncVars
  \/ part = "sync" /\ SyncNext /\ UNCHANGED <<backupsVars, part>>

\* The fairness of each part, for the behaviours of that part
ReplicaFairness == MCFairness /\ WF_syncVars(part = "sync" /\ PassStep)

ReplicaSpec == ReplicaInit /\ [][ReplicaNext]_<<mcVars, syncVars>> /\ ReplicaFairness

\* Once failures stop, uploads are settled, leftovers reclaimed, restores ended, and the copy
\* of a peer's catalog becomes that catalog.
ReplicasSettle == JobsAreSettled /\ LeftoversAreReclaimed /\ RestoreEnds /\ CatalogConverges
=============================================================================
