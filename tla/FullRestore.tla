----------------------------- MODULE FullRestore -----------------------------
(***************************************************************************)
(* The restore of a full backup (internal/backup full_restore.go,          *)
(* app/backup_full_api.go, cmd/tgdl-server/main.go): the new library is    *)
(* staged while the server runs, an intent file is published, and the      *)
(* server stops; directories are then renamed one by one, and whatever     *)
(* interrupts that is completed by the next start, before the database is  *)
(* opened.  Every step is one change of the file system, and the process   *)
(* may exit before each.                                                   *)
(*                                                                         *)
(* The content of a directory is the generation of the library it holds.   *)
(***************************************************************************)
EXTENDS Integers

CONSTANTS
  MaxRestores,   \* restores the operator asks for
  MaxFaults      \* steps that fail or exits of the process

ASSUME RestoreAssumption == {MaxRestores, MaxFaults} \subseteq Nat

VARIABLES
  external,     \* the media are kept outside the data directory
  dir,          \* the generation in each directory, Absent, or Partial
  ready,        \* the marker .tgdl-restore-ready is in the staged media
  intent,       \* .tgdl-full-restore-pending.json exists
  archives,     \* the directory that holds backups/, with the rollback package
  step,         \* what the process does next
  restoreCount  \* restores and faults so far: the bounds

restoreVars == <<external, dir, ready, intent, archives, step, restoreCount>>

Absent == -1
Partial == -2
Dirs == {"data", "stage", "dataRollback", "downloads", "downloadsStage", "downloadsRollback"}

RestoreInit ==
  /\ external \in BOOLEAN
  /\ dir = [d \in Dirs |-> IF d \in {"data", "downloads"} THEN 0 ELSE Absent]
  /\ ready = FALSE /\ intent = FALSE
  /\ archives = "data"
  /\ step = "serve"
  /\ restoreCount = [restores |-> 0, faults |-> 0]

Goto(s) == step' = s

\* Media inside the data directory move with it
Moved(from, to) == [dir EXCEPT ![to] = dir[from], ![from] = Absent]

-----------------------------------------------------------------------------
(* The server prepares the restore                                         *)

\* beginFullOperation admits one; the rollback package is written into backups/
BeginRestore ==
  /\ step = "serve" /\ restoreCount.restores < MaxRestores
  /\ restoreCount' = [restoreCount EXCEPT !.restores = @ + 1]
  /\ Goto("extract")
  /\ UNCHANGED <<external, dir, ready, intent, archives>>

\* RestoreSnapshot publishes the extracted archive at once, under a fresh name
Extract ==
  /\ step = "extract"
  /\ dir' = [dir EXCEPT !["stage"] = restoreCount.restores, !["dataRollback"] = Absent,
                        !["downloadsStage"] = Absent, !["downloadsRollback"] = Absent]
  /\ Goto(IF external THEN "copy" ELSE "link")
  /\ UNCHANGED <<external, ready, intent, archives, restoreCount>>

\* Mutant: A copy that failed half way is taken for complete.
CopiedPartly == Partial

Copied == dir["stage"]

\* prepareExternalRestore: the media are copied beside their target, taken out of the stage,
\* and marked complete
CopyMedia ==
  /\ step = "copy"
  /\ dir' = [dir EXCEPT !["downloadsStage"] = IF @ = Absent THEN Partial ELSE Copied]
  /\ IF dir["downloadsStage"] = Absent THEN UNCHANGED step ELSE Goto("mark")
  /\ UNCHANGED <<external, ready, intent, archives, restoreCount>>

MarkReady ==
  /\ step = "mark" /\ ready' = TRUE /\ Goto("link")
  /\ UNCHANGED <<external, dir, intent, archives, restoreCount>>

\* os.Link publishes the intent; the server is then told to stop
PublishIntent ==
  /\ step = "link" /\ intent' = TRUE /\ Goto("stop")
  /\ UNCHANGED <<external, dir, ready, archives, restoreCount>>

\* Preparation fails: the staged directories are removed and the server goes on
PrepareRestoreFails ==
  /\ step \in {"extract", "copy", "mark", "link"} /\ restoreCount.faults < MaxFaults
  /\ restoreCount' = [restoreCount EXCEPT !.faults = @ + 1]
  /\ dir' = [dir EXCEPT !["stage"] = Absent, !["downloadsStage"] = Absent]
  /\ ready' = FALSE /\ Goto("serve")
  /\ UNCHANGED <<external, intent, archives>>

\* The server is closed before the swap begins
StopServer ==
  /\ step = "stop" /\ Goto("activate")
  /\ UNCHANGED <<external, dir, ready, intent, archives, restoreCount>>

-----------------------------------------------------------------------------
(* ActivatePendingFullRestore: after the server has stopped, and at each start *)

Activate ==
  /\ step = "activate"
  /\ Goto(IF ~intent THEN "serve" ELSE IF external THEN "media" ELSE "data")
  /\ UNCHANGED <<external, dir, ready, intent, archives, restoreCount>>

\* Mutant: Media whose marker is gone are taken for swapped.
WithoutMarkerGoOn == "data"

\* The error of os.Remove ends the process
WithoutMarker == "exited"

\* The marker is removed first
TakeMarker ==
  /\ step = "media"
  /\ IF dir["downloadsStage"] # Absent
       THEN /\ ready' = FALSE
            /\ Goto(IF ready THEN "mediaAside" ELSE WithoutMarker)
       ELSE /\ Goto(IF dir["downloads"] # Absent THEN "data" ELSE "exited")
            /\ UNCHANGED ready
  /\ UNCHANGED <<external, dir, intent, archives, restoreCount>>

MediaAside ==
  /\ step = "mediaAside"
  /\ dir' = IF dir["downloadsRollback"] = Absent /\ dir["downloads"] # Absent
              THEN Moved("downloads", "downloadsRollback") ELSE dir
  /\ Goto("mediaIn")
  /\ UNCHANGED <<external, ready, intent, archives, restoreCount>>

MediaIn ==
  /\ step = "mediaIn"
  /\ dir' = IF dir["downloads"] = Absent THEN Moved("downloadsStage", "downloads") ELSE dir
  /\ Goto("data")
  /\ UNCHANGED <<external, ready, intent, archives, restoreCount>>

\* A rollback directory is the data directory of an earlier attempt
FirstAttempt == dir["dataRollback"] = Absent

DataAside ==
  /\ step = "data"
  /\ IF dir["stage"] = Absent
       THEN Goto(IF dir["data"] # Absent THEN "done" ELSE "exited") /\ UNCHANGED <<dir, archives>>
       ELSE /\ IF FirstAttempt /\ dir["data"] # Absent
                 THEN /\ dir' = Moved("data", "dataRollback")
                      /\ archives' = IF archives = "data" THEN "dataRollback" ELSE archives
                 ELSE UNCHANGED <<dir, archives>>
            /\ Goto("preserve")
  /\ UNCHANGED <<external, ready, intent, restoreCount>>

\* Mutant: The backups are left in the directory that is moved away.
PreservedNowhere == "dataRollback"

\* preserveBackupDirectory
PreservedIn == "stage"

\* Mutant: Backups that are in the stage already are an error.
PreservedTwiceFails == IF archives = "stage" THEN "exited" ELSE "dataIn"

\* Backups an earlier attempt has moved are not looked for in the stage
AfterPreserve == "dataIn"

PreserveBackups ==
  /\ step = "preserve"
  /\ archives' = IF archives = "dataRollback" THEN PreservedIn ELSE archives
  /\ Goto(AfterPreserve)
  /\ UNCHANGED <<external, dir, ready, intent, restoreCount>>

\* The rename refuses a data directory that is there
DataIn ==
  /\ step = "dataIn"
  /\ IF dir["data"] = Absent
       THEN /\ dir' = Moved("stage", "data")
            /\ archives' = IF archives = "stage" THEN "data" ELSE archives
            /\ Goto("done")
       ELSE Goto("exited") /\ UNCHANGED <<dir, archives>>
  /\ UNCHANGED <<external, ready, intent, restoreCount>>

RemoveIntent ==
  /\ step = "done" /\ intent' = FALSE /\ Goto("clean")
  /\ UNCHANGED <<external, dir, ready, archives, restoreCount>>

\* The old library is removed, file by file
CleanRollback ==
  /\ step = "clean"
  /\ LET left == {d \in {"downloadsRollback", "dataRollback"} : dir[d] # Absent} IN
     IF left = {} THEN Goto("serve") /\ UNCHANGED <<dir, archives>>
     ELSE \E d \in left :
            /\ (d = "dataRollback" => left = {d})
            /\ dir' = [dir EXCEPT ![d] = IF @ = Partial THEN Absent ELSE Partial]
            /\ archives' = IF archives = d THEN "lost" ELSE archives
            /\ UNCHANGED step
  /\ UNCHANGED <<external, ready, intent, restoreCount>>

\* The process is killed, or a step of the swap fails and ends it; it is started again
Exit ==
  /\ restoreCount.faults < MaxFaults
  /\ restoreCount' = [restoreCount EXCEPT !.faults = @ + 1]
  /\ Goto("activate")
  /\ UNCHANGED <<external, dir, ready, intent, archives>>

\* A start that failed is repeated by the supervisor
StartAgain ==
  /\ step = "exited" /\ Goto("activate")
  /\ UNCHANGED <<external, dir, ready, intent, archives, restoreCount>>

RestoreStep ==
  \/ Extract \/ CopyMedia \/ MarkReady \/ PublishIntent \/ StopServer
  \/ Activate \/ TakeMarker \/ MediaAside \/ MediaIn
  \/ DataAside \/ PreserveBackups \/ DataIn \/ RemoveIntent \/ CleanRollback
  \/ StartAgain

RestoreNext == BeginRestore \/ RestoreStep \/ PrepareRestoreFails \/ Exit

RestoreFairness == WF_restoreVars(RestoreStep)

RestoreSpec == RestoreInit /\ [][RestoreNext]_restoreVars

-----------------------------------------------------------------------------
RestoreTypeOK ==
  /\ external \in BOOLEAN /\ ready \in BOOLEAN /\ intent \in BOOLEAN
  /\ dir \in [Dirs -> {Absent, Partial} \cup 0..MaxRestores]
  /\ \A d \in {"data", "stage", "downloads"} : dir[d] # Partial
  /\ archives \in {"data", "dataRollback", "stage", "lost"}
  /\ step \in {"serve", "extract", "copy", "mark", "link", "stop", "activate", "media",
               "mediaAside", "mediaIn", "data", "preserve", "dataIn", "done", "clean", "exited"}

\* A library somewhere on the disk is whole: its database and, when they are kept apart, its
\* media
Whole(g) ==
  /\ \E d \in {"data", "dataRollback", "stage"} : dir[d] = g
  /\ external => \E d \in {"downloads", "downloadsRollback", "downloadsStage"} : dir[d] = g

\* The server never opens a database beside the media of another library, wherever the swap was
\* interrupted (main.go:61, full_restore.go:104).
ServesOneLibrary ==
  step = "serve" => dir["data"] \in Nat /\ (external => dir["downloads"] = dir["data"])

\* At every point of a restore a whole library is on the disk: the old one is not given up before
\* the new one is complete (full_restore.go:210).
ALibraryIsWhole ==
  \E g \in 0..MaxRestores : Whole(g)

\* The backups, with the rollback package of this restore, outlive the swap (full_restore.go:304).
BackupsAreKept ==
  /\ archives # "lost"
  /\ step = "serve" => archives = "data"

\* An interrupted swap of media that are kept apart cannot find its marker again.
MarkerIsLost == external /\ intent /\ ~ready /\ dir["downloadsStage"] # Absent

\* A restore that was accepted is completed, however often it is interrupted, but for a lost
\* marker (full_restore.go:104).
RestoreEnds == intent ~> (step = "serve" /\ ~intent) \/ MarkerIsLost

\* "completes an interrupted swap before opening the database on startup"
\* (docs/BACKUP-RESTORE-DESIGN.md:40)
SwapIsCompleted == intent ~> ~intent

\* Whatever step a restore is cut off at, the server serves one library, and whole, and the
\* backups made before it are still there.
RestoreIsSafe == ServesOneLibrary /\ ALibraryIsWhole /\ BackupsAreKept
=============================================================================
