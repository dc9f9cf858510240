----------------------------- MODULE LiveForward -----------------------------
(***************************************************************************)
(* A monitored message that is forwarded while it is downloaded            *)
(* (ingest.go; forward.go: reserveForward, directForwardNow, forward;      *)
(* telegram/forward.go).  Telegram forwards the message itself; a caption  *)
(* the operator wrote is put on the copy by an edit, and a copy that       *)
(* cannot be edited is removed again.  What fails is left to the queue's   *)
(* workers, who have the downloaded file; when every destination has its   *)
(* copy, the download is deleted.  The queue's claims and retries among    *)
(* several workers are in ForwardQueue; here a worker's attempt matters    *)
(* for what it sends.                                                      *)
(***************************************************************************)
EXTENDS Naturals, FiniteSets

CONSTANTS
  Routes,      \* destinations, 1..n, in order
  AutoRetries, \* attempts before a job stays failed
  \* Bounds of the model only.
  MaxLiveIngests, MaxLiveFaults, MaxLiveCrashes, MaxOrders

ASSUME LiveForwardAssumption ==
  /\ IsFiniteSet(Routes) /\ Routes = 1..Cardinality(Routes)
  /\ {AutoRetries, MaxLiveIngests, MaxLiveFaults, MaxLiveCrashes, MaxOrders} \subseteq Nat

VARIABLES
  custom,    \* the routes with a caption of the operator's
  message,   \* the message in the download queue: its step, and how often it was taken in
  entry,     \* the ingestion that made its entry in the library, 0 for none
  job,       \* ingestion -> its row in tgdl_forward_queue
  post,      \* ingestion -> who posts for its row, and how far it is
  settler,   \* ingestion -> the goroutine that waits for the direct forward
  bare,      \* <<ingestion, route>> -> copies at the destination with the caption of the source
  right,     \* <<ingestion, route>> -> copies as the route wants them
  vouched,   \* <<ingestion, route>>: the operator said it is there
  excused,   \* history: a second copy was risked: the operator asked, or the queue uploaded in doubt
  deletedFor,   \* history: ingestions whose entry was deleted because the message was forwarded
  liveFaults, liveCrashes, orders

liveVars == <<custom, message, entry, job, post, settler, bare, right, vouched, excused, deletedFor,
              liveFaults, liveCrashes, orders>>
shown == <<bare, right>>
record == <<vouched, deletedFor>>
budget == <<liveFaults, liveCrashes, orders>>

Ingestions == 1..MaxLiveIngests
Posts == Ingestions \X Routes
LastRoute == Cardinality(Routes)
NoJob == [status |-> "none", stage |-> "none", path |-> FALSE, tries |-> 0,
           dest |-> [d \in Routes |-> "pending"], id |-> [d \in Routes |-> "none"]]
Silent == [pc |-> "off", by |-> "none", at |-> 0, error |-> "none", id |-> "none", upload |-> FALSE]

LiveInit ==
  /\ custom \in SUBSET Routes
  /\ message = [pc |-> "queued", count |-> 0, forward |-> FALSE] /\ entry = 0
  /\ job = [r \in Ingestions |-> NoJob] /\ post = [r \in Ingestions |-> Silent]
  /\ settler = [r \in Ingestions |-> "off"]
  /\ bare = [p \in Posts |-> 0] /\ right = [p \in Posts |-> 0]
  /\ vouched = {} /\ excused = {} /\ deletedFor = {}
  /\ liveFaults = 0 /\ liveCrashes = 0 /\ orders = 0

LiveFault == liveFaults < MaxLiveFaults /\ liveFaults' = liveFaults + 1 /\ UNCHANGED <<liveCrashes, orders>>
More(f, p) == f' = [f EXCEPT ![p] = IF @ = 2 THEN 2 ELSE @ + 1]
Fewer(f, p) == f' = [f EXCEPT ![p] = IF @ = 0 THEN 0 ELSE @ - 1]
Excuse(p) == excused' = excused \cup {p}
-----------------------------------------------------------------------------
(* Taking the message in.                                                  *)

\* Forwarded unless the library has it.  The row is reserved before the download starts; captions
\* that need the file, or a full queue, leave the forward for later.
BeginIngest(direct) ==
  /\ message.pc = "queued" /\ message.count < MaxLiveIngests
  /\ LET r == message.count + 1
         forward == entry = 0
     IN  /\ message' = [pc |-> "ingest", count |-> r, forward |-> forward]
         /\ IF forward /\ direct
            THEN /\ job' = [job EXCEPT ![r].status = "processing", ![r].stage = "native_forward"]
                 /\ post' = [post EXCEPT ![r] = [Silent EXCEPT !.pc = "next", !.by = "direct", !.at = 1]]
            ELSE UNCHANGED <<job, post>>
  /\ UNCHANGED <<custom, entry, settler, shown, record, excused, budget>>

Reserved(r) == post[r].by = "direct"

\* The download is in the library.  (The row keeps its record and path only when it is settled.)
IngestDone ==
  /\ message.pc = "ingest"
  /\ LET r == message.count IN
     /\ entry' = IF entry = 0 THEN r ELSE entry
     /\ settler' = [settler EXCEPT ![r] = IF Reserved(r) THEN "finish" ELSE "off"]
     /\ job' = IF Reserved(r) \/ ~message.forward THEN job
               ELSE [job EXCEPT ![r].status = "pending", ![r].stage = "metadata", ![r].path = TRUE]
  /\ message' = [message EXCEPT !.pc = "drain"]
  /\ UNCHANGED <<custom, post, shown, record, excused, budget>>

\* What the attempt came to cannot be saved: nobody waits for the direct forward.
IngestUnrecorded ==
  /\ message.pc = "ingest" /\ LiveFault
  /\ entry' = IF entry = 0 THEN message.count ELSE entry
  /\ message' = [message EXCEPT !.pc = "queued"]
  /\ UNCHANGED <<custom, job, post, settler, shown, record, excused>>

IngestFails ==
  /\ message.pc = "ingest" /\ LiveFault
  /\ settler' = [settler EXCEPT ![message.count] = IF Reserved(message.count) THEN "fail" ELSE "off"]
  /\ message' = [message EXCEPT !.pc = "queued"]
  /\ UNCHANGED <<custom, entry, job, post, shown, record, excused>>

\* The deletion outbox is drained last; an error there fails an ingestion that has done its work.
EndIngest ==
  /\ message.pc = "drain"
  /\ \/ message' = [message EXCEPT !.pc = "done"] /\ UNCHANGED budget
     \/ message' = [message EXCEPT !.pc = "queued"] /\ LiveFault
  /\ UNCHANGED <<custom, entry, job, post, settler, shown, record, excused>>
-----------------------------------------------------------------------------
(* A post: the message forwarded, its caption edited, the copy removed, or *)
(* the file uploaded.                                                      *)

Target(r) == <<r, post[r].at>>
GoPost(r, pc) == post' = [post EXCEPT ![r].pc = pc]
AnswerPost(r, error) == post' = [post EXCEPT ![r].pc = "answered", ![r].error = error]
AnswerWith(r, error, id) == post' = [post EXCEPT ![r].pc = "answered", ![r].error = error, ![r].id = id]
Edits(r) == post[r].at \in custom

\* A row with the file is uploaded, unless only the caption of its copy is left to do.
Native(r) == ~job[r].path \/ job[r].stage = "caption_edit_failed"

\* The route at hand: those that have a copy, or may have one, are passed over.
NextRoute(r) ==
  /\ post[r].pc = "next"
  /\ LET d == post[r].at IN
     IF d > LastRoute THEN GoPost(r, "posted") /\ UNCHANGED job
     ELSE IF job[r].dest[d] \in {"forwarded", "uncertain"}
     THEN post' = [post EXCEPT ![r].at = d + 1] /\ UNCHANGED job
     ELSE /\ job' = [job EXCEPT ![r].dest[d] = "processing"]
          /\ \E known \in {Edits(r) /\ job[r].id[d] # "none"} :
               post' = [post EXCEPT ![r].error = "none", ![r].upload = FALSE,
                          ![r].id = IF known THEN job[r].id[d] ELSE "none",
                          ![r].pc = IF post[r].by = "direct" THEN "send" ELSE IF ~Native(r) THEN "upload"
                                    ELSE IF known THEN "edit" ELSE "send"]
  /\ UNCHANGED <<custom, message, entry, settler, shown, record, excused, budget>>

\* messages.forwardMessages: done, and for a caption the answer names the copy or does not; refused;
\* or the answer is lost.
SendNative(r) ==
  /\ post[r].pc = "send"
  /\ \/ /\ Edits(r) /\ More(bare, Target(r)) /\ UNCHANGED <<right, budget>>
        /\ post' = [post EXCEPT ![r].pc = "edit", ![r].id = "live"]
     \/ ~Edits(r) /\ More(right, Target(r)) /\ AnswerPost(r, "none") /\ UNCHANGED <<bare, budget>>
     \/ Edits(r) /\ LiveFault /\ More(bare, Target(r)) /\ AnswerPost(r, "unresolved") /\ UNCHANGED right
     \/ \E error \in {"refused", "lost"} : LiveFault /\ AnswerPost(r, error) /\ UNCHANGED shown
     \/ Edits(r) /\ LiveFault /\ AnswerPost(r, "lost") /\ More(bare, Target(r)) /\ UNCHANGED right
     \/ ~Edits(r) /\ LiveFault /\ AnswerPost(r, "lost") /\ More(right, Target(r)) /\ UNCHANGED bare
  /\ UNCHANGED <<custom, message, entry, job, settler, record, excused>>

Captioned(p) == bare[p] > 0 /\ Fewer(bare, p) /\ More(right, p)

\* messages.editMessage.  A copy that is gone cannot be edited; one edited before is "not modified".
EditCaption(r) ==
  /\ post[r].pc = "edit"
  /\ \/ /\ post[r].id = "live" /\ AnswerPost(r, "none") /\ UNCHANGED budget
        /\ Captioned(Target(r)) \/ (bare[Target(r)] = 0 /\ UNCHANGED shown)
     \/ /\ post' = [post EXCEPT ![r].pc = "clean", ![r].error = "refused"] /\ UNCHANGED shown
        /\ IF post[r].id = "gone" THEN UNCHANGED budget ELSE LiveFault
     \/ /\ post' = [post EXCEPT ![r].pc = "clean", ![r].error = "lost"] /\ LiveFault
        /\ UNCHANGED shown \/ (post[r].id = "live" /\ Captioned(Target(r)))
  /\ UNCHANGED <<custom, message, entry, job, settler, record, excused>>

CopyGone(r) ==
  /\ IF post[r].id = "gone" THEN UNCHANGED shown
     ELSE IF bare[Target(r)] > 0 THEN Fewer(bare, Target(r)) /\ UNCHANGED right
     ELSE Fewer(right, Target(r)) /\ UNCHANGED bare
  /\ job' = [job EXCEPT ![r].id[post[r].at] = IF @ = "live" THEN "gone" ELSE @]

\* deleteForwarded, and the answer: the copy is gone and the error that of the edit, or nobody knows.
TakeBack(r) ==
  /\ post[r].pc = "clean"
  /\ \/ CopyGone(r) /\ AnswerWith(r, post[r].error, "none") /\ UNCHANGED budget
     \/ CopyGone(r) /\ AnswerWith(r, "unresolved", "gone") /\ LiveFault
     \/ AnswerPost(r, "unresolved") /\ LiveFault /\ UNCHANGED <<shown, job>>
  /\ UNCHANGED <<custom, message, entry, settler, record, excused>>

\* The file of this ingestion is sent.
UploadFile(r) ==
  /\ post[r].pc = "upload"
  /\ \E error \in {"none", "refused", "lost"}, arrived \in BOOLEAN :
       /\ post' = [post EXCEPT ![r].pc = "answered", ![r].error = error, ![r].upload = TRUE]
       /\ error = "none" => arrived
       /\ error = "refused" => ~arrived
       /\ error # "refused" => entry = r
       /\ IF arrived THEN More(right, Target(r)) ELSE UNCHANGED right
       /\ IF error = "none" \/ entry # r THEN UNCHANGED budget ELSE LiveFault
  /\ UNCHANGED <<custom, message, entry, job, settler, bare, record, excused>>
-----------------------------------------------------------------------------
(* The direct forward and what follows it.                                 *)

\* Mutant: a lost answer is a refusal.
NeverLost(r) == FALSE

\* ambiguousDeliveryError: the copy may be there.
Lost(r) == post[r].error = "lost"

\* Mutant: an unresolved caption is uploaded like any other failure.
NeverUnresolved(r) == FALSE

\* ErrForwardCaptionUnresolved: a copy may be there without its caption.
Unresolved(r) == post[r].error = "unresolved"

\* directForwardNow: on to the next route, or the end.
DirectAnswered(r) ==
  /\ post[r].pc = "answered" /\ post[r].by = "direct"
  /\ LET d == post[r].at IN
     IF post[r].error = "none"
     THEN /\ job' = [job EXCEPT ![r].dest[d] = "forwarded", ![r].id[d] = post[r].id]
          /\ post' = [post EXCEPT ![r].pc = "next", ![r].at = d + 1]
     ELSE /\ job' = [job EXCEPT ![r].dest[d] = IF Lost(r) THEN "uncertain" ELSE @, ![r].id[d] = post[r].id,
                       ![r].stage = IF Unresolved(r) THEN "caption_edit_failed" ELSE "fallback_download"]
          /\ GoPost(r, "posted")
  /\ UNCHANGED <<custom, message, entry, settler, shown, record, excused, budget>>

Doubtful(r) == \E d \in Routes : job[r].dest[d] = "uncertain"
Through(r) == post[r].pc = "posted" /\ post[r].at > LastRoute
SetJob(r, status) == job' = [job EXCEPT ![r].status = status]
Leave(r) == post' = [post EXCEPT ![r] = Silent]
Settled(r) == settler' = [settler EXCEPT ![r] = "off"]

\* The download failed: the row says what the direct forward came to.
SettleFailed(r) ==
  /\ settler[r] = "fail" /\ post[r].pc = "posted" /\ Settled(r) /\ Leave(r)
  /\ SetJob(r, IF Through(r) THEN "forwarded" ELSE IF Doubtful(r) THEN "uncertain" ELSE "failed")
  /\ UNCHANGED <<custom, message, entry, shown, record, excused, budget>>

\* The download is there.  Doubt and an unresolved caption wait for the operator, other failures for
\* the queue.
SettleUnsent(r) ==
  /\ settler[r] = "finish" /\ post[r].pc = "posted" /\ ~Through(r) /\ Settled(r) /\ Leave(r)
  /\ job' = [job EXCEPT ![r].path = TRUE,
               ![r].stage = IF Doubtful(r) \/ Unresolved(r) THEN @ ELSE "fallback_upload",
               ![r].status = IF Doubtful(r) THEN "uncertain" ELSE IF Unresolved(r) THEN "failed" ELSE "pending"]
  /\ UNCHANGED <<custom, message, entry, shown, record, excused, budget>>

\* All is forwarded.  The row is finished before the download is deleted; nothing is done when the
\* attempt cannot be saved.
SettleSent(r) ==
  /\ settler[r] = "finish" /\ Through(r) /\ Leave(r)
  /\ \/ /\ job' = [job EXCEPT ![r].status = "forwarded", ![r].path = TRUE]
        /\ settler' = [settler EXCEPT ![r] = "delete"] /\ UNCHANGED budget
     \/ Settled(r) /\ LiveFault /\ UNCHANGED job
  /\ UNCHANGED <<custom, message, entry, shown, record, excused>>

\* deleteForwarded, by id and path.
DeleteEntry(r) == entry' = (IF entry = r THEN 0 ELSE entry) /\ deletedFor' = deletedFor \cup ({r} \cap {entry})

SettleDelete(r) ==
  /\ settler[r] = "delete" /\ DeleteEntry(r) /\ Settled(r)
  /\ UNCHANGED <<custom, message, job, post, shown, vouched, excused, budget>>
-----------------------------------------------------------------------------
(* A worker of the queue.                                                  *)

ClaimJob(r) ==
  /\ job[r].status = "pending"
  /\ job' = [job EXCEPT ![r].status = "processing", ![r].tries = @ + 1]
  /\ post' = [post EXCEPT ![r] = [Silent EXCEPT !.pc = "prepare", !.by = "queue", !.at = 1]]
  /\ UNCHANGED <<custom, message, entry, settler, shown, record, excused, budget>>

\* A caption cannot be edited on a copy nobody knows.
CopyUnknown(r) == job[r].stage = "caption_edit_failed"
  /\ \E d \in custom : job[r].dest[d] # "forwarded" /\ job[r].id[d] = "none"

PrepareJob(r) ==
  /\ post[r].pc = "prepare"
  /\ IF CopyUnknown(r) THEN GoPost(r, "failed") /\ UNCHANGED job
     ELSE /\ GoPost(r, "next")
          /\ job' = [job EXCEPT ![r].stage = IF @ = "caption_edit_failed" THEN @
                                             ELSE IF job[r].path THEN "upload" ELSE "native_forward"]
  /\ UNCHANGED <<custom, message, entry, settler, shown, record, excused, budget>>

QueueHasAnswer(r) == post[r].pc = "answered" /\ post[r].by = "queue"

\* Mutant: any upload deletes the download.
AnyIsLast(r) == TRUE

\* deleteAfter: the last of the routes.
IsLastRoute(r) == post[r].at = LastRoute

\* The upload to the last route deletes the download; a native forward there does not.
Deletes(r) == post[r].upload /\ post[r].error = "none" /\ IsLastRoute(r)

DeleteServed(r) ==
  /\ QueueHasAnswer(r) /\ Deletes(r) /\ DeleteEntry(r) /\ GoPost(r, "served")
  /\ UNCHANGED <<custom, message, job, settler, shown, vouched, excused, budget>>

\* forwardToRoute is through with the route, or it uploads what could not be forwarded: whatever the
\* answer was, if the file is there; a row reserved for a direct forward cannot fetch it.
QueueAnswered(r) ==
  /\ (QueueHasAnswer(r) /\ ~Deletes(r)) \/ post[r].pc = "served"
  /\ LET d == post[r].at
         doubt == job[r].dest[d] = "uncertain" \/ Lost(r)
         again == ~post[r].upload /\ job[r].path
         known == IF post[r].id = "none" THEN job[r].id[d] ELSE post[r].id
     IN  IF post[r].error = "none"
         THEN /\ job' = [job EXCEPT ![r].dest[d] = "forwarded", ![r].id[d] = known]
              /\ post' = [post EXCEPT ![r].pc = "next", ![r].at = d + 1] /\ UNCHANGED excused
         ELSE /\ job' = [job EXCEPT ![r].id[d] = known, ![r].stage = IF again THEN "fallback_upload" ELSE @,
                           ![r].dest[d] = IF doubt THEN "uncertain" ELSE IF again THEN @ ELSE "failed"]
              /\ GoPost(r, IF again THEN "upload" ELSE "failed")
              /\ IF (again /\ Lost(r)) \/ (~post[r].upload /\ Unresolved(r)) THEN Excuse(Target(r)) ELSE UNCHANGED excused
  /\ UNCHANGED <<custom, message, entry, settler, shown, record, budget>>

\* The deferred end of forward: doubt waits for the operator, a failure is retried for a while
\* unless the destination refused for good.
FinishJob(r) ==
  /\ post[r].by = "queue" /\ post[r].pc \in {"posted", "failed"} /\ Leave(r)
  /\ \E forGood \in {FALSE} \cup {post[r].error = "refused"} :
       SetJob(r, IF Doubtful(r) THEN "uncertain" ELSE IF post[r].pc = "posted" THEN "forwarded"
                 ELSE IF job[r].tries < AutoRetries /\ ~forGood THEN "pending" ELSE "failed")
  /\ UNCHANGED <<custom, message, entry, settler, shown, record, excused, budget>>
-----------------------------------------------------------------------------
(* The operator, and crashes.                                              *)

Order == orders < MaxOrders /\ orders' = orders + 1 /\ UNCHANGED <<liveFaults, liveCrashes>>

RetryJob(r) ==
  /\ job[r].status = "failed" /\ Order /\ SetJob(r, "pending")
  /\ UNCHANGED <<custom, message, entry, post, settler, shown, record, excused>>

\* The operator says of one route or of all that the copy is there, or asks to send it again.  What
\* was never tried counts as doubtful.
ReconcileJob(r, sent, scope) ==
  /\ job[r].status = "uncertain" /\ Order
  /\ LET doubt == {d \in Routes : job[r].dest[d] \in {"pending", "processing", "uncertain"}}
         chosen == IF doubt = {} /\ scope = Routes /\ ~sent THEN {d \in Routes : job[r].dest[d] # "forwarded"}
                   ELSE doubt \cap scope
         dest == [d \in Routes |-> IF d \in chosen THEN IF sent THEN "forwarded" ELSE "pending"
                                   ELSE IF d \in doubt THEN "uncertain" ELSE job[r].dest[d]]
     IN  /\ chosen # {}
         /\ job' = [job EXCEPT ![r].dest = dest, ![r].status =
                      IF \E d \in Routes : dest[d] = "uncertain" THEN "uncertain"
                      ELSE IF \A d \in Routes : dest[d] = "forwarded" THEN "forwarded" ELSE "pending"]
         /\ vouched' = IF sent THEN vouched \cup ({r} \X chosen) ELSE vouched
         /\ excused' = IF sent THEN excused ELSE excused \cup ({r} \X chosen)
  /\ UNCHANGED <<custom, message, entry, post, settler, shown, deletedFor>>

\* Rows in progress become uncertain; the message is taken in again unless it was done.
LiveCrash ==
  /\ liveCrashes < MaxLiveCrashes /\ liveCrashes' = liveCrashes + 1
  /\ job' = [r \in Ingestions |-> IF job[r].status = "processing" THEN [job[r] EXCEPT !.status = "uncertain"] ELSE job[r]]
  /\ post' = [r \in Ingestions |-> Silent] /\ settler' = [r \in Ingestions |-> "off"]
  /\ message' = IF message.pc = "done" THEN message ELSE [message EXCEPT !.pc = "queued"]
  /\ UNCHANGED <<custom, entry, shown, record, excused, liveFaults, orders>>

LiveNext ==
  \/ \E direct \in BOOLEAN : BeginIngest(direct)
  \/ IngestDone \/ IngestUnrecorded \/ IngestFails \/ EndIngest \/ LiveCrash
  \/ \E r \in Ingestions :
       \/ NextRoute(r) \/ SendNative(r) \/ EditCaption(r) \/ TakeBack(r) \/ UploadFile(r)
       \/ DirectAnswered(r) \/ SettleFailed(r) \/ SettleUnsent(r) \/ SettleSent(r) \/ SettleDelete(r)
       \/ ClaimJob(r) \/ PrepareJob(r) \/ DeleteServed(r) \/ QueueAnswered(r) \/ FinishJob(r)
       \/ RetryJob(r)
       \/ \E sent \in BOOLEAN, scope \in {Routes} \cup {{d} : d \in Routes} : ReconcileJob(r, sent, scope)

LiveSpec == LiveInit /\ [][LiveNext]_liveVars
-----------------------------------------------------------------------------
(* Properties.                                                             *)

\* A download is deleted only when every destination has its copy, or the operator said so:
\* deleteAfterForward never leaves neither the file nor the copy.
DeletedIsDelivered == \A r \in deletedFor, d \in Routes : right[<<r, d>>] > 0 \/ <<r, d>> \in vouched

\* A route that the row calls forwarded shows the copy it wants, caption and all.
ForwardedIsShown == \A r \in Ingestions, d \in Routes :
  job[r].dest[d] = "forwarded" => right[<<r, d>>] > 0 \/ <<r, d>> \in vouched

\* One row puts no second copy at a destination unless the operator asked for it, or the queue uploaded
\* the file after a native forward in doubt.
OneCopyPerRow == \A p \in Posts : bare[p] + right[p] > 1 => p \in excused

LiveForwardIsSound == DeletedIsDelivered /\ ForwardedIsShown /\ OneCopyPerRow

\* Refuted: a download that fails, or whose outbox cannot be drained, is taken in and forwarded again
\* although its first direct forward succeeded.
NoSecondForward == \A d \in Routes :
  (\A r \in Ingestions : <<r, d>> \notin excused) => Cardinality({r \in Ingestions : right[<<r, d>>] > 0}) <= 1

\* Refuted: a row whose ingestion or whose settling could not be saved stays in progress until the
\* next start.
ProgressIsHeld == \A r \in Ingestions : job[r].status = "processing" =>
  post[r].pc \notin {"off", "posted"} \/ settler[r] # "off" \/ message.pc = "ingest"
=============================================================================
