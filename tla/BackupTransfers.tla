--------------------------- MODULE BackupTransfers ---------------------------
(***************************************************************************)
(* The journal of unfinished remote objects (internal/backup               *)
(* transfer_journal.go), its cleanup workers, and the local staging of     *)
(* encrypted uploads (staging.go).                                         *)
(*                                                                         *)
(* A transfer writes a temporary object under a name of its own, publishes *)
(* it, and has to leave nothing behind.  Its journal row is written before *)
(* the object is created ("temp": FTP and SFTP, and the local "stage"), or *)
(* just after the server has named it ("multipart": S3).  Whatever a crash *)
(* or a failed removal leaves is reclaimed from the row: by the cleanup    *)
(* workers, or, for a stage, by the next start.                            *)
(***************************************************************************)
EXTENDS Naturals

CONSTANTS
  Transfers,        \* uploads, each with one temporary object
  Kind,             \* [Transfers -> {"temp", "multipart", "stage"}]
  Cleaners,         \* cleanup workers
  MaxRefusals,      \* requests to the remote that fail
  MaxOutages,       \* writes to the database that fail
  MaxExits          \* process exits

NoRecord == "none"

ASSUME TransfersAssumption ==
  /\ NoRecord \notin Transfers /\ Kind \in [Transfers -> {"temp", "multipart", "stage"}]
  /\ {MaxRefusals, MaxOutages, MaxExits} \subseteq Nat

VARIABLES
  transfer,     \* what the upload of this process has done: its step
  temporary,    \* transfers whose temporary object, or part of it, exists
  journal,      \* native_backup_transfers and native_backup_staging: the state of a row, or "none"
  reclaimDue,   \* rows whose next_retry_at is in the past
  cleaner,      \* what a cleanup worker does: its step and the row it claimed
  stranded,     \* Manager.strandedTransfers: rows whose outcome could not be written
  transferCount \* refusals, outages and exits so far: the bounds

transferVars == <<transfer, temporary, journal, reclaimDue, cleaner, stranded, transferCount>>

Resting == [step |-> "rest", of |-> NoRecord]

TransfersInit ==
  /\ transfer = [t \in Transfers |-> "new"]
  /\ temporary = {}
  /\ journal = [t \in Transfers |-> NoRecord]
  /\ reclaimDue = {}
  /\ cleaner = [c \in Cleaners |-> Resting]
  /\ stranded = {}
  /\ transferCount = [refusals |-> 0, outages |-> 0, exits |-> 0]

Spent(what, limit) ==
  /\ transferCount[what] < limit
  /\ transferCount' = [transferCount EXCEPT ![what] = @ + 1]

TransferRefused == Spent("refusals", MaxRefusals)
Outage == Spent("outages", MaxOutages)

-----------------------------------------------------------------------------
(* A transfer                                                              *)

\* Mutant: The row of every kind is written when the object exists.
CreatedAnyFirst(t) == TRUE

CreatedFirst(t) == Kind[t] = "multipart"

\* CreateMultipartUpload: the server reserves the upload before the journal knows it
CreateMultipart(t) ==
  /\ transfer[t] = "new" /\ CreatedFirst(t)
  /\ transfer' = [transfer EXCEPT ![t] = "created"]
  /\ temporary' = temporary \cup {t}
  /\ UNCHANGED <<journal, reclaimDue, cleaner, stranded, transferCount>>

\* The step before which the row is written
BeforeTrack(t) == transfer[t] = IF CreatedFirst(t) THEN "created" ELSE "new"

\* track, and the insert of stagePayload: an outage ends the transfer; a multipart upload is
\* aborted then, if the server answers
Track(t) ==
  /\ BeforeTrack(t)
  /\ \/ /\ journal' = [journal EXCEPT ![t] = "active"]
        /\ transfer' = [transfer EXCEPT ![t] = "tracked"]
        /\ UNCHANGED <<temporary, transferCount>>
     \/ /\ Outage
        /\ transfer' = [transfer EXCEPT ![t] = "ended"]
        /\ temporary' \in {temporary, temporary \ {t}}
        /\ UNCHANGED journal
  /\ UNCHANGED <<reclaimDue, cleaner, stranded>>

\* The temporary object is written: OpenFile or MKD and STOR, or the parts; a request that
\* fails may have been carried out
WriteTemporary(t) ==
  /\ transfer[t] = "tracked"
  /\ \/ /\ temporary' = temporary \cup {t}
        /\ transfer' = [transfer EXCEPT ![t] = "written"]
        /\ UNCHANGED transferCount
     \/ /\ TransferRefused
        /\ temporary' \in {temporary, temporary \cup {t}}
        /\ transfer' = [transfer EXCEPT ![t] = "refused"]
  /\ UNCHANGED <<journal, reclaimDue, cleaner, stranded>>

\* RNTO, rename or CompleteMultipartUpload: the temporary object becomes the published one.
\* A stage is only read.
Publish(t) ==
  /\ transfer[t] = "written"
  /\ \/ /\ temporary' = IF Kind[t] = "stage" THEN temporary ELSE temporary \ {t}
        /\ transfer' = [transfer EXCEPT ![t] = IF Kind[t] = "stage" THEN "refused" ELSE "removed"]
        /\ UNCHANGED transferCount
     \/ /\ TransferRefused
        /\ transfer' = [transfer EXCEPT ![t] = "refused"]
        /\ UNCHANGED temporary
  /\ UNCHANGED <<journal, reclaimDue, cleaner, stranded>>

\* The transfer removes what it could not publish, with a context of its own
RemoveTemporary(t) ==
  /\ transfer[t] = "refused"
  /\ \/ /\ temporary' = temporary \ {t}
        /\ transfer' = [transfer EXCEPT ![t] = "removed"]
        /\ UNCHANGED transferCount
     \/ /\ TransferRefused
        /\ transfer' = [transfer EXCEPT ![t] = "left"]
        /\ UNCHANGED temporary
  /\ UNCHANGED <<journal, reclaimDue, cleaner, stranded>>

\* Mutant: An outcome that was not written is forgotten.
StrandedForgotten(t) == stranded

\* transferLease.finish marks a row it could not write; payloadStage.Close does not
StrandedWith(t) == IF Kind[t] = "stage" THEN stranded ELSE stranded \cup {t}

\* Mutant: The row of a stage is left to the cleanup workers.
LeftPending(t) == "pending"

\* What becomes of the row of an object that could not be removed
LeftState(t) == IF Kind[t] = "stage" THEN journal[t] ELSE "pending"

\* finish and Close: the row goes with the object; else it is pending, with a first delay. A
\* stage that could not be removed keeps its row.
Finish(t) ==
  /\ transfer[t] \in {"removed", "left"}
  /\ transfer' = [transfer EXCEPT ![t] = "ended"]
  /\ \/ /\ journal' = [journal EXCEPT ![t] =
                         IF transfer[t] = "removed" THEN NoRecord
                         ELSE LeftState(t)]
        /\ UNCHANGED <<stranded, transferCount>>
     \/ /\ Outage
        /\ stranded' = StrandedWith(t)
        /\ UNCHANGED journal
  /\ reclaimDue' = reclaimDue \ {t}
  /\ UNCHANGED <<temporary, cleaner>>

-----------------------------------------------------------------------------
(* The cleanup workers                                                     *)

\* A resting worker first takes the stranded rows: each is taken by one worker, and put back
\* if its state cannot be written
Unstrand(c, t) ==
  /\ cleaner[c] = Resting /\ t \in stranded
  /\ \/ /\ journal' = [journal EXCEPT ![t] = IF @ = NoRecord THEN @ ELSE "pending"]
        /\ reclaimDue' = reclaimDue \cup {t}
        /\ stranded' = stranded \ {t}
        /\ UNCHANGED transferCount
     \/ /\ Outage /\ UNCHANGED <<journal, reclaimDue, stranded>>
  /\ UNCHANGED <<transfer, temporary, cleaner>>

\* Mutant: Rows of transfers that still run are claimed too.
ClaimableAny(t) == journal[t] \in {"pending", "active"}

Claimable(t) == journal[t] = "pending"

\* claimCleanup
ClaimCleanup(c, t) ==
  /\ cleaner[c] = Resting /\ Kind[t] # "stage"
  /\ Claimable(t) /\ (journal[t] = "pending" => t \in reclaimDue)
  /\ journal' = [journal EXCEPT ![t] = "cleaning"]
  /\ cleaner' = [cleaner EXCEPT ![c] = [step |-> "reclaim", of |-> t]]
  /\ UNCHANGED <<transfer, temporary, reclaimDue, stranded, transferCount>>

\* reclaimTransfer: the object is removed at the destination it was recorded for; an object
\* that is not there is no error
Reclaim(c) ==
  /\ cleaner[c].step = "reclaim"
  /\ \/ /\ temporary' = temporary \ {cleaner[c].of}
        /\ cleaner' = [cleaner EXCEPT ![c].step = "reclaimed"]
        /\ UNCHANGED transferCount
     \/ /\ TransferRefused
        /\ cleaner' = [cleaner EXCEPT ![c].step = "kept"]
        /\ UNCHANGED temporary
  /\ UNCHANGED <<transfer, journal, reclaimDue, stranded>>

\* The row is deleted, or pending again after a delay; an outage strands it
SaveCleanup(c) ==
  LET t == cleaner[c].of IN
  /\ cleaner[c].step \in {"reclaimed", "kept"}
  /\ \/ /\ journal' = [journal EXCEPT ![t] = IF cleaner[c].step = "reclaimed" THEN NoRecord ELSE "pending"]
        /\ UNCHANGED <<stranded, transferCount>>
     \/ /\ Outage
        /\ stranded' = StrandedWith(t)
        /\ UNCHANGED journal
  /\ reclaimDue' = reclaimDue \ {t}
  /\ cleaner' = [cleaner EXCEPT ![c] = Resting]
  /\ UNCHANGED <<transfer, temporary>>

\* Time passes
ReclaimComesDue(t) ==
  /\ journal[t] = "pending" /\ t \notin reclaimDue
  /\ reclaimDue' = reclaimDue \cup {t}
  /\ UNCHANGED <<transfer, temporary, journal, cleaner, stranded, transferCount>>

\* NewManager: every row of a process that is gone is pending, and every stage is removed with
\* its row
RestartTransfers ==
  /\ Spent("exits", MaxExits)
  /\ transfer' = [t \in Transfers |-> IF transfer[t] = "new" THEN "new" ELSE "ended"]
  /\ journal' = [t \in Transfers |->
                   IF Kind[t] = "stage" THEN NoRecord
                   ELSE IF journal[t] \in {"active", "cleaning"} THEN "pending" ELSE journal[t]]
  /\ temporary' = {t \in temporary : ~(Kind[t] = "stage" /\ journal[t] # NoRecord)}
  /\ reclaimDue' = reclaimDue \cup {t \in Transfers : journal[t] \in {"active", "cleaning"}}
  /\ cleaner' = [c \in Cleaners |-> Resting]
  /\ stranded' = {}

-----------------------------------------------------------------------------
TransferStep(t) ==
  Track(t) \/ WriteTemporary(t) \/ Publish(t) \/ RemoveTemporary(t) \/ Finish(t)

CleanerStep(c) ==
  \/ \E t \in Transfers : Unstrand(c, t) \/ ClaimCleanup(c, t)
  \/ Reclaim(c) \/ SaveCleanup(c)

TransfersNext ==
  \/ \E t \in Transfers : CreateMultipart(t) \/ TransferStep(t) \/ ReclaimComesDue(t)
  \/ \E c \in Cleaners : CleanerStep(c)
  \/ RestartTransfers

\* A transfer that has begun goes on, the cleanup workers tick, and time passes.
TransfersFairness ==
  /\ \A t \in Transfers : WF_transferVars(TransferStep(t)) /\ WF_transferVars(ReclaimComesDue(t))
  /\ \A c \in Cleaners : WF_transferVars(CleanerStep(c))

TransfersSpec == TransfersInit /\ [][TransfersNext]_transferVars

-----------------------------------------------------------------------------
TransfersTypeOK ==
  /\ transfer \in [Transfers -> {"new", "created", "tracked", "written", "refused", "removed",
                                 "left", "ended"}]
  /\ temporary \subseteq Transfers /\ reclaimDue \subseteq Transfers /\ stranded \subseteq Transfers
  /\ \A t \in Transfers :
       journal[t] \in {NoRecord, "active"}
                       \cup IF Kind[t] = "stage" THEN {} ELSE {"pending", "cleaning"}
  /\ \A c \in Cleaners :
       \/ cleaner[c] = Resting
       \/ cleaner[c] \in [step : {"reclaim", "reclaimed", "kept"}, of : Transfers]

\* A temporary object always has a row that says where it is, at every point a crash can come
\* (transfer_journal.go:27, staging.go:24 "Ownership precedes creation").
LeftoversAreOwned ==
  \A t \in temporary : Kind[t] # "multipart" => journal[t] # NoRecord

\* A cleanup worker never touches the object of a transfer that still runs, and no two clean
\* the same one (transfer_journal.go:126).
OneOwnerOfTemporary ==
  \A c \in Cleaners :
    cleaner[c] # Resting =>
      /\ transfer[cleaner[c].of] = "ended"
      /\ \A d \in Cleaners \ {c} : cleaner[d].of # cleaner[c].of

\* What a transfer leaves at a destination is removed in the end, and its row with it, whichever
\* removal or database write failed (transfer_journal.go:78).
LeftoversAreReclaimed ==
  \A t \in Transfers :
    Kind[t] # "stage" /\ journal[t] # NoRecord ~> journal[t] = NoRecord /\ t \notin temporary

\* Every leftover of an upload has a record that leads to its removal, and one owner.
LeftoversAreHeld == LeftoversAreOwned /\ OneOwnerOfTemporary
=============================================================================
