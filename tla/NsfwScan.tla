------------------------------ MODULE NsfwScan ------------------------------
(***************************************************************************)
(* The NSFW classifier (app/nsfw_scan.go, nsfw_bulk.go, nsfw_api.go): the  *)
(* batch scan with its workers, the queue of new downloads with the hash   *)
(* blocklist, the bulk operations and the operator's single ones.  All     *)
(* downloads here have the same content, so that one deletion blocks the   *)
(* next ones.                                                              *)
(***************************************************************************)
EXTENDS Naturals, Sequences, FiniteSets

CONSTANTS
  Items,        \* ids of downloads
  Spriteless,   \* those of videos that have no sprite yet
  NsfwQueueCap, \* capacity of nsfwRuntime.queue
  NsfwBatch,    \* batchSize
  NsfwWorkers,
  \* Bounds of the model only.
  MaxNsfwEvents \* scans, bulk operations, edits and failures

ASSUME NsfwAssumption ==
  /\ Items \subseteq Nat \ {0} /\ Spriteless \subseteq Items
  /\ {NsfwQueueCap, NsfwBatch, NsfwWorkers, MaxNsfwEvents} \subseteq Nat \ {0}

VARIABLES
  item,       \* Item -> "absent", "here" or "gone"
  mark,       \* Item -> "none", "scored" or "unreadable" (nsfw_checked_at, nsfw_score)
  white,      \* whitelisted items
  blocklisted,    \* the content is on the hash blocklist
  queued,     \* the channel of new downloads
  sending,    \* items sent to it whose sender has not looked at the flag yet
  drainFlag,   \* the flag
  drainer,    \* the goroutine: where it is, and the item it looks at
  batchScan,      \* the batch scan
  bulk,       \* the bulk operation
  stopping,   \* the program is stopping
  answered,   \* history: items the sidecar (or the unreadable file) answered for
  removed,    \* history: an item was deleted as NSFW and the blocklist not cleared since
  listedAt,   \* history: items that arrived with their content on the blocklist
  nsfwEvents  \* bound used

nsfwVars == <<item, mark, white, blocklisted, queued, sending, drainFlag, drainer, batchScan, bulk, stopping,
              answered, removed, listedAt, nsfwEvents>>
table == <<item, mark, white, blocklisted>>
channel == <<queued, sending, drainFlag, drainer>>
memory == <<answered, removed, listedAt>>

NoSweep == [pc |-> "off", cursor |-> 0, batch |-> {}, working |-> {}]
NoDrainer == [pc |-> "none", id |-> 0]
NoBulk == [pc |-> "off", op |-> "none", ids |-> {}, cleared |-> FALSE]

NsfwInit ==
  /\ item = [d \in Items |-> "absent"] /\ mark = [d \in Items |-> "none"] /\ white = {} /\ blocklisted = FALSE
  /\ queued = <<>> /\ sending = {} /\ drainFlag = FALSE /\ drainer = NoDrainer
  /\ batchScan = NoSweep /\ bulk = NoBulk /\ stopping = FALSE
  /\ answered = {} /\ removed = FALSE /\ listedAt = {} /\ nsfwEvents = 0

NsfwEvent == nsfwEvents < MaxNsfwEvents /\ nsfwEvents' = nsfwEvents + 1
Here(d) == item[d] = "here"

\* The sidecar answers with a score, or the file cannot be read.
Scored(d) ==
  /\ mark' \in {IF Here(d) THEN [mark EXCEPT ![d] = m] ELSE mark : m \in {"scored", "unreadable"}}
  /\ answered' = answered \cup {d}
-----------------------------------------------------------------------------
(* New downloads.                                                          *)

\* queueNSFW: the send, which a full channel drops ...
NsfwSend(d) ==
  /\ item[d] = "absent" /\ \A e \in Items : e < d => item[e] # "absent"
  /\ item' = [item EXCEPT ![d] = "here"]
  /\ listedAt' = IF blocklisted THEN listedAt \cup {d} ELSE listedAt
  /\ IF Len(queued) < NsfwQueueCap
     THEN queued' = Append(queued, d) /\ sending' = sending \cup {d}
     ELSE UNCHANGED <<queued, sending>>
  /\ UNCHANGED <<mark, white, blocklisted, drainFlag, drainer, batchScan, bulk, stopping, answered, removed, nsfwEvents>>

\* ... and then, under the lock, the goroutine, unless one is there or the program is stopping.
NsfwLaunch(d) ==
  /\ d \in sending /\ sending' = sending \ {d}
  /\ IF drainFlag THEN UNCHANGED <<drainFlag, drainer>>
     ELSE drainFlag' = ~stopping /\ drainer' = IF stopping THEN drainer ELSE [NoDrainer EXCEPT !.pc = "loop"]
  /\ UNCHANGED <<table, queued, batchScan, bulk, stopping, memory, nsfwEvents>>

DrainPop ==
  /\ drainer.pc = "loop" /\ ~stopping
  /\ IF queued = <<>> THEN drainer' = [NoDrainer EXCEPT !.pc = "empty"] /\ UNCHANGED queued
     ELSE drainer' = [pc |-> "look", id |-> Head(queued)] /\ queued' = Tail(queued)
  /\ UNCHANGED <<table, sending, drainFlag, batchScan, bulk, stopping, memory, nsfwEvents>>

\* Mutant: the goroutine ends without looking at the channel again.
SeenEmpty == TRUE

StillEmpty == queued = <<>>

\* Nothing was there: the flag is cleared under the lock if that is still so.
DrainLeave ==
  /\ drainer.pc = "empty"
  /\ IF StillEmpty THEN drainFlag' = FALSE /\ drainer' = NoDrainer
     ELSE drainer' = [NoDrainer EXCEPT !.pc = "loop"] /\ UNCHANGED drainFlag
  /\ UNCHANGED <<table, queued, sending, batchScan, bulk, stopping, memory, nsfwEvents>>

DrainStops ==
  /\ stopping /\ drainer.pc = "loop" /\ drainFlag' = FALSE /\ drainer' = NoDrainer
  /\ UNCHANGED <<table, queued, sending, batchScan, bulk, stopping, memory, nsfwEvents>>

\* nsfwAutoScan: a row that is gone or checked is passed over, a blocklisted one deleted; the
\* others are classified.  A failure of the sidecar empties the channel.
AutoScan ==
  LET d == drainer.id IN
  /\ drainer.pc = "look" /\ drainer' = [NoDrainer EXCEPT !.pc = "loop"]
  /\ IF ~Here(d) \/ mark[d] # "none" THEN UNCHANGED <<table, queued, answered, nsfwEvents>>
     ELSE IF blocklisted
     THEN item' = [item EXCEPT ![d] = "gone"] /\ UNCHANGED <<mark, white, blocklisted, queued, answered, nsfwEvents>>
     ELSE \/ d \in Spriteless /\ UNCHANGED <<table, queued, answered, nsfwEvents>>
          \/ d \notin Spriteless /\ Scored(d) /\ UNCHANGED <<item, white, blocklisted, queued, nsfwEvents>>
          \/ NsfwEvent /\ queued' = <<>> /\ UNCHANGED <<table, answered>>
  /\ UNCHANGED <<sending, drainFlag, batchScan, bulk, stopping, removed, listedAt>>
-----------------------------------------------------------------------------
(* The batch scan.                                                         *)

StartSweep ==
  /\ ~stopping /\ batchScan.pc = "off" /\ NsfwEvent /\ batchScan' = [NoSweep EXCEPT !.pc = "batch"]
  /\ UNCHANGED <<table, channel, bulk, stopping, memory>>

\* Mutant: the cursor stays where it was.
SameCursor(found) == batchScan.cursor

NextCursor(found) == IF found = {} THEN batchScan.cursor ELSE CHOOSE d \in found : \A e \in found : e <= d

\* nsfwBatch: the next unchecked rows by id.
SweepBatch ==
  LET left == {d \in Items : Here(d) /\ mark[d] = "none" /\ d \notin white /\ d > batchScan.cursor}
      found == {d \in left : Cardinality({e \in left : e < d}) < NsfwBatch} IN
  /\ batchScan.pc = "batch"
  /\ batchScan' = [batchScan EXCEPT !.pc = IF found = {} THEN "end" ELSE "work", !.cursor = NextCursor(found), !.batch = found]
  /\ UNCHANGED <<table, channel, bulk, stopping, memory, nsfwEvents>>

SweepTake(d) ==
  /\ batchScan.pc = "work" /\ d \in batchScan.batch /\ Cardinality(batchScan.working) < NsfwWorkers
  /\ batchScan' = [batchScan EXCEPT !.batch = @ \ {d}, !.working = @ \cup {d}]
  /\ UNCHANGED <<table, channel, bulk, stopping, memory, nsfwEvents>>

\* Mutant: a row whose classification failed is stamped like an unreadable file.
StampFailed(d) == [mark EXCEPT ![d] = "unreadable"]

Unstamped(d) == mark

\* A worker's row: without a sprite, answered, or given up because the sidecar failed or the
\* scan was stopped, which stops the others too.
SweepAnswer(d) ==
  /\ d \in batchScan.working
  /\ \/ /\ d \in Spriteless /\ batchScan' = [batchScan EXCEPT !.working = @ \ {d}]
        /\ UNCHANGED <<mark, answered, nsfwEvents>>
     \/ /\ d \notin Spriteless /\ Scored(d) /\ batchScan' = [batchScan EXCEPT !.working = @ \ {d}]
        /\ UNCHANGED nsfwEvents
     \/ /\ IF batchScan.pc = "failing" THEN UNCHANGED nsfwEvents ELSE NsfwEvent
        /\ batchScan' = [batchScan EXCEPT !.pc = "failing", !.batch = {}, !.working = @ \ {d}]
        /\ mark' = Unstamped(d) /\ UNCHANGED answered
  /\ UNCHANGED <<item, white, blocklisted, channel, bulk, stopping, removed, listedAt>>

SweepBatchEnds ==
  /\ batchScan.pc \in {"work", "failing"} /\ batchScan.batch = {} /\ batchScan.working = {}
  /\ batchScan' = [batchScan EXCEPT !.pc = IF @ = "work" THEN "batch" ELSE "end"]
  /\ UNCHANGED <<table, channel, bulk, stopping, memory, nsfwEvents>>

\* handleNSFWScanCancel, or the end of the program.
SweepStops ==
  /\ batchScan.pc \in {"batch", "work"}
  /\ IF stopping THEN UNCHANGED nsfwEvents ELSE NsfwEvent
  /\ batchScan' = [batchScan EXCEPT !.pc = IF @ = "batch" THEN "end" ELSE "failing", !.batch = {}]
  /\ UNCHANGED <<table, channel, bulk, stopping, memory>>

SweepEnds ==
  /\ batchScan.pc = "end" /\ batchScan' = NoSweep
  /\ UNCHANGED <<table, channel, bulk, stopping, memory, nsfwEvents>>
-----------------------------------------------------------------------------
(* Bulk operations and single ones.                                        *)

\* resolveNSFWBulk: the scored rows, without the whitelisted ones unless those are meant.
StartBulk(op) ==
  /\ ~stopping /\ bulk.pc = "off" /\ NsfwEvent
  /\ bulk' = [pc |-> IF op = "delete" THEN "block" ELSE "change", op |-> op,
              ids |-> {d \in Items : Here(d) /\ mark[d] = "scored" /\ (d \in white => op = "unwhitelist")},
              cleared |-> FALSE]
  /\ UNCHANGED <<table, channel, batchScan, stopping, memory>>

\* Mutant: the rows are deleted before their hashes are read for the blocklist.
AfterDelete(ids) == blocklisted

\* nsfwBlocklistAdd: the hashes of the rows that are still there.
BlocklistAdd(ids) == blocklisted \/ \E d \in ids : Here(d)

BulkBlock ==
  /\ bulk.pc = "block" /\ bulk' = [bulk EXCEPT !.pc = "change"]
  /\ blocklisted' = BlocklistAdd(bulk.ids)
  /\ UNCHANGED <<item, mark, white, channel, batchScan, stopping, memory, nsfwEvents>>

\* One row at a time (nsfwUpdateChunk, nsfwDeleteChunk).
BulkChange(d) ==
  /\ bulk.pc = "change" /\ d \in bulk.ids /\ bulk' = [bulk EXCEPT !.ids = @ \ {d}]
  /\ CASE bulk.op = "delete" ->
            /\ item' = [item EXCEPT ![d] = "gone"] /\ removed' = (removed \/ (Here(d) /\ ~bulk.cleared)) /\ white' = white \ {d}
            /\ UNCHANGED <<mark, answered>>
       [] bulk.op = "whitelist" -> white' = (IF Here(d) THEN white \cup {d} ELSE white) /\ UNCHANGED <<item, mark, removed, answered>>
       [] bulk.op = "unwhitelist" -> white' = white \ {d} /\ UNCHANGED <<item, mark, removed, answered>>
       [] bulk.op = "reclassify" ->
            mark' = [mark EXCEPT ![d] = "none"] /\ answered' = answered \ {d} /\ UNCHANGED <<item, white, removed>>
  /\ UNCHANGED <<blocklisted, channel, batchScan, stopping, listedAt, nsfwEvents>>

BulkEnds ==
  /\ bulk.pc = "change" /\ bulk.ids = {} /\ bulk' = NoBulk
  /\ UNCHANGED <<table, channel, batchScan, stopping, memory, nsfwEvents>>

\* handleNSFWWhitelist
WhitelistItem(d) ==
  /\ Here(d) /\ d \notin white /\ NsfwEvent /\ white' = white \cup {d}
  /\ UNCHANGED <<item, mark, blocklisted, channel, batchScan, bulk, stopping, memory>>

\* handleNSFWDelete
DeleteItem(d) ==
  /\ Here(d) /\ NsfwEvent
  /\ blocklisted' = BlocklistAdd({d}) /\ item' = [item EXCEPT ![d] = "gone"] /\ removed' = TRUE /\ white' = white \ {d}
  /\ UNCHANGED <<mark, channel, batchScan, bulk, stopping, answered, listedAt>>

\* handleNSFWBlocklistClear
ClearBlocklist ==
  /\ blocklisted /\ NsfwEvent
  /\ blocklisted' = FALSE /\ removed' = FALSE /\ listedAt' = {} /\ bulk' = [bulk EXCEPT !.cleared = TRUE]
  /\ UNCHANGED <<item, mark, white, channel, batchScan, stopping, answered>>

NsfwStop ==
  /\ ~stopping /\ NsfwEvent /\ stopping' = TRUE
  /\ UNCHANGED <<table, channel, batchScan, bulk, memory>>
-----------------------------------------------------------------------------
SweepStep ==
  \/ SweepBatch \/ SweepBatchEnds \/ SweepEnds
  \/ \E d \in Items : SweepTake(d) \/ SweepAnswer(d)

NsfwNext ==
  \/ \E d \in Items : NsfwSend(d) \/ NsfwLaunch(d) \/ BulkChange(d) \/ WhitelistItem(d) \/ DeleteItem(d)
  \/ DrainPop \/ DrainLeave \/ DrainStops \/ AutoScan
  \/ StartSweep \/ SweepStep \/ SweepStops
  \/ (\E op \in {"delete", "whitelist", "unwhitelist", "reclassify"} : StartBulk(op))
  \/ BulkBlock \/ BulkEnds \/ ClearBlocklist \/ NsfwStop

NsfwSpec == NsfwInit /\ [][NsfwNext]_nsfwVars /\ WF_nsfwVars(SweepStep)
-----------------------------------------------------------------------------
(* Properties.                                                             *)

\* A queued download has a goroutine that will come to it, once its sender is done: the send
\* is outside the lock that guards the flag.
NsfwIsDrained == queued # <<>> /\ sending = {} => drainFlag \/ stopping

\* A row that no scan will look at again was answered for; the rows that a failing sidecar
\* left are not marked.
MarkedIsAnswered == \A d \in Items : mark[d] # "none" => d \in answered

\* The content of a download that was deleted as NSFW is on the blocklist.
RemovedIsBlocked == removed => blocklisted

\* A scan ends, whatever rows it cannot score.
SweepSettles == (batchScan.pc # "off") ~> (batchScan.pc = "off")

\* docs/AI.md: with the blocklist on, a download whose content was deleted as NSFW is deleted
\* automatically.  One that the full or the emptied channel dropped is not, and the batch
\* scan does not look at the blocklist.
ListedIsDeleted ==
  queued = <<>> /\ ~drainFlag /\ sending = {} /\ ~stopping => \A d \in listedAt : ~Here(d)

\* A bulk deletion takes no whitelisted row: it takes those whitelisted since it resolved its ids.
WhitelistedIsSpared ==
  [][\A d \in Items : BulkChange(d) /\ bulk.op = "delete" => d \notin white]_nsfwVars

\* Nothing queued is left behind, nothing is marked unseen, and what was removed is blocked.
VerdictsAreKept == NsfwIsDrained /\ MarkedIsAnswered /\ RemovedIsBlocked
=============================================================================
