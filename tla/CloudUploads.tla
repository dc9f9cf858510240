---------------------------- MODULE CloudUploads ----------------------------
(***************************************************************************)
(* The backup destinations in a cloud (backup/gdrive.go, dropbox.go and    *)
(* the requests of cloud_http.go): one object of a destination is uploaded *)
(* in chunks over requests whose answer, or which themselves, get lost,    *)
(* and is compared, replaced, deleted and read back.                       *)
(*                                                                         *)
(* Sizes are counted in units; a request that cloudAPI.do repeats by       *)
(* itself is one step when a repetition changes nothing, and a step for    *)
(* each attempt when it does.  Nothing bounds how many requests get lost.  *)
(***************************************************************************)
EXTENDS Integers, FiniteSets, Sequences

CONSTANTS
  Services,       \* subset of {"drive", "dropbox"}
  Contents,       \* what a source file may hold
  LargeContents,  \* those that take more than one chunk
  LargeSize, Chunk,  \* in units; other contents have one unit
  CloudAttempts,  \* cloudAttempts (5)
  NoContent,
  \* Bounds of the model only.
  MaxUploads, MaxRemoteChanges, MaxCloudCrashes

ASSUME CloudAssumption ==
  /\ Services \subseteq {"drive", "dropbox"} /\ LargeContents \subseteq Contents /\ NoContent \notin Contents
  /\ {LargeSize, Chunk, CloudAttempts} \subseteq Nat \ {0} /\ Chunk < LargeSize
  /\ {MaxUploads, MaxRemoteChanges, MaxCloudCrashes} \subseteq Nat

VARIABLES
  service,    \* which of the two
  folders,    \* Drive: folders with the name of the object's directory, oldest first
  rootFolder,      \* the folder id the provider remembers, or 0
  objects,    \* files with the object's name, oldest revision first: [id, folder, content, intact]
  upSession,    \* the upload session at the service: [state, target, folder, len, intact]
  transfer,       \* the operation in hand
  verdict,    \* how the last operation ended: [op, content], NoVerdict when something came after
  \* History of the model only.
  strangers,  \* somebody else changed the destination
  cloudSpent  \* [uploads, changes, crashes]

cloudVars == <<service, folders, rootFolder, objects, upSession, transfer, verdict, strangers, cloudSpent>>

Size(c) == IF c \in LargeContents THEN LargeSize ELSE 1
NoSession == [state |-> "none", target |-> 0, folder |-> 0, len |-> 0, intact |-> TRUE]
NoTransfer == [pc |-> "idle", content |-> NoContent, folder |-> 0, offset |-> 0, failures |-> 0, restarts |-> 0, target |-> 0]
NoVerdict == [op |-> "none", content |-> NoContent]

CloudInit ==
  /\ service \in Services /\ folders = <<>> /\ rootFolder = 0 /\ objects = <<>>
  /\ upSession = NoSession /\ transfer = NoTransfer /\ verdict = NoVerdict
  /\ strangers = FALSE /\ cloudSpent = [uploads |-> 0, changes |-> 0, crashes |-> 0]

NewId == CHOOSE x \in 1..Len(objects) + 1 : \A i \in 1..Len(objects) : objects[i].id # x
FolderThere(f) == service = "dropbox" \/ \E i \in 1..Len(folders) : folders[i] = f
Oldest == Head(folders)
InFolder(f) == SelectSeq(objects, LAMBDA o : o.folder = f)
Newest(s) == s[Len(s)]
Without(id) == SelectSeq(objects, LAMBDA o : o.id # id)

Drive(pc) == service = "drive" /\ transfer.pc = pc
Dropbox(pc) == service = "dropbox" /\ transfer.pc = pc

\* The operation ends with an error, or well.
Fail == transfer' = NoTransfer /\ verdict' = NoVerdict
Done(op, c) == transfer' = NoTransfer /\ verdict' = [op |-> op, content |-> c]
GoTo(pc) == transfer' = [transfer EXCEPT !.pc = pc] /\ UNCHANGED verdict
-----------------------------------------------------------------------------
(* Beginning, and the folder of the object (Drive).                        *)

\* Upload: the source has been hashed whole; Dropbox addresses files by path.
BeginUpload(c) ==
  /\ transfer.pc = "idle" /\ cloudSpent.uploads < MaxUploads
  /\ cloudSpent' = [cloudSpent EXCEPT !.uploads = @ + 1] /\ verdict' = NoVerdict
  /\ transfer' = [NoTransfer EXCEPT !.pc = IF service = "drive" THEN "folder" ELSE "find", !.content = c]
  /\ UNCHANGED <<service, folders, rootFolder, objects, upSession, strangers>>

\* root, folder, childFolder: the oldest of the folders is taken and remembered.
FindFolder ==
  /\ Drive("folder")
  /\ \/ /\ rootFolder # 0 \/ folders # <<>>
        /\ rootFolder' = IF rootFolder # 0 THEN rootFolder ELSE Oldest
        /\ transfer' = [transfer EXCEPT !.pc = "find", !.folder = rootFolder'] /\ UNCHANGED verdict
     \/ rootFolder = 0 /\ folders = <<>> /\ GoTo("create") /\ UNCHANGED rootFolder
     \/ rootFolder = 0 /\ Fail /\ UNCHANGED rootFolder
  /\ UNCHANGED <<service, folders, objects, upSession, strangers, cloudSpent>>

\* Mutant: a creation whose answer was lost is sent again.
CreateAgain == "create"

\* A lost reply: the name is looked up again before another attempt.
AfterLostCreate == "folder"

\* createFolder: the folder and its answer, only the folder, or neither.
CreateFolder ==
  /\ Drive("create")
  /\ \/ /\ folders' = Append(folders, Len(folders) + 1) /\ rootFolder' = Len(folders) + 1
        /\ transfer' = [transfer EXCEPT !.pc = "find", !.folder = Len(folders) + 1, !.failures = 0] /\ UNCHANGED verdict
     \/ /\ folders' \in {folders, Append(folders, Len(folders) + 1)} /\ UNCHANGED rootFolder
        /\ IF transfer.failures + 1 < CloudAttempts
           THEN transfer' = [transfer EXCEPT !.pc = AfterLostCreate, !.failures = @ + 1] /\ UNCHANGED verdict
           ELSE Fail
     \/ Fail /\ UNCHANGED <<folders, rootFolder>>
  /\ UNCHANGED <<service, objects, upSession, strangers, cloudSpent>>

\* Mutant: the size proves that a file is the one to upload.
SameSize(o, c) == Size(o.content) = Size(c)

\* "size alone never proves equality"
SameContent(o, c) == o.content = c /\ o.intact

\* files, metadata: nothing to do, or the newest file is replaced, or a new one begun.
FindObject ==
  /\ transfer.pc = "find"
  /\ LET found == InFolder(transfer.folder) IN
     \/ (\E i \in 1..Len(found) : SameContent(found[i], transfer.content)) /\ Done("upload", transfer.content)
     \/ /\ \A i \in 1..Len(found) : ~SameContent(found[i], transfer.content)
        /\ transfer' = [transfer EXCEPT !.pc = IF service = "dropbox" /\ transfer.content \notin LargeContents THEN "put" ELSE "start",
                                !.target = IF found = <<>> THEN 0 ELSE Newest(found).id]
        /\ UNCHANGED verdict
     \/ Fail
  /\ UNCHANGED <<service, folders, rootFolder, objects, upSession, strangers, cloudSpent>>
-----------------------------------------------------------------------------
(* The service's side: a file is published whole when its last unit is in. *)

Publish(s, intact) ==
  LET o == [id |-> IF s.target = 0 THEN NewId ELSE s.target, folder |-> s.folder, content |-> transfer.content, intact |-> intact] IN
  objects' = Append(Without(o.id), o)

\* Dropbox overwrites by path, and refuses bytes that do not have the hash of the request.
Overwrite == objects' = <<[id |-> 1, folder |-> 0, content |-> transfer.content, intact |-> TRUE]>>
-----------------------------------------------------------------------------
(* Drive: a resumable session.                                             *)

StartSession ==
  /\ Drive("start")
  /\ \/ /\ FolderThere(transfer.folder) /\ transfer.target # 0 => \E i \in 1..Len(objects) : objects[i].id = transfer.target
        /\ upSession' = [NoSession EXCEPT !.state = "open", !.target = transfer.target, !.folder = transfer.folder]
        /\ transfer' = [transfer EXCEPT !.pc = "send", !.offset = 0, !.failures = 0] /\ UNCHANGED verdict
     \/ Fail /\ UNCHANGED upSession
  /\ UNCHANGED <<service, folders, rootFolder, objects, strangers, cloudSpent>>

\* What the service stores of a chunk: a prefix of it, when it begins where the session ends.
Stored(len) ==
  upSession' = [upSession EXCEPT !.len = len, !.state = IF len = Size(transfer.content) THEN "done" ELSE @]

ChunkArrives ==
  /\ upSession.state = "open" /\ transfer.offset = upSession.len
  /\ \E len \in upSession.len..Size(transfer.content) :
       /\ len <= upSession.len + Chunk /\ Stored(len)
       /\ IF len = Size(transfer.content) THEN \E intact \in BOOLEAN : Publish(upSession, intact) ELSE UNCHANGED objects


\* The failures in a row without a new unit
FailuresAfter(next) == IF next > transfer.offset THEN 0 ELSE transfer.failures + 1

\* The answer of the session, to a chunk or to a question.
ServiceAnswers(s) ==
  \/ s.state = "done" /\ GoTo("verify")
  \/ /\ s.state = "gone"
     /\ IF transfer.restarts < 2 THEN transfer' = [transfer EXCEPT !.pc = "start", !.restarts = @ + 1] /\ UNCHANGED verdict ELSE Fail
  \/ /\ s.state = "open"
     /\ IF FailuresAfter(s.len) < CloudAttempts
        THEN transfer' = [transfer EXCEPT !.pc = "send", !.offset = s.len, !.failures = FailuresAfter(s.len)] /\ UNCHANGED verdict
        ELSE Fail

\* send: the chunk and its answer; the chunk, or nothing, and no answer.
SendChunk ==
  /\ Drive("send")
  /\ \/ ChunkArrives /\ ServiceAnswers(upSession')
     \/ upSession.state # "open" /\ UNCHANGED <<upSession, objects>> /\ ServiceAnswers(upSession)
     \/ /\ ChunkArrives \/ UNCHANGED <<upSession, objects>>
        /\ IF transfer.failures + 1 < CloudAttempts
           THEN transfer' = [transfer EXCEPT !.pc = "ask", !.failures = @ + 1] /\ UNCHANGED verdict ELSE Fail
     \/ Fail /\ UNCHANGED <<upSession, objects>>
  /\ UNCHANGED <<service, folders, rootFolder, strangers, cloudSpent>>

\* After an interrupted chunk the service is asked how much it stored.
AskStatus ==
  /\ Drive("ask") /\ (ServiceAnswers(upSession) \/ Fail)
  /\ UNCHANGED <<service, folders, rootFolder, objects, upSession, strangers, cloudSpent>>

\* An abandoned session expires, and with it what was sent.
SessionExpires ==
  /\ upSession.state = "open" /\ upSession' = [upSession EXCEPT !.state = "gone"]
  /\ UNCHANGED <<service, folders, rootFolder, objects, transfer, verdict, strangers, cloudSpent>>

\* Mutant: the file the service reports is taken as it is.
AnyFile(o) == TRUE

\* The size and checksum the service reports are those of the source.
Verified(o) == o.intact

\* A new file that is not what was sent is deleted again, if that succeeds.
VerifyUpload ==
  /\ Drive("verify") /\ upSession' = NoSession
  /\ \E i \in 1..Len(objects) : objects[i] = Newest(InFolder(transfer.folder)) /\
       IF Verified(objects[i]) THEN Done("upload", transfer.content) /\ UNCHANGED objects
       ELSE Fail /\ objects' \in {objects} \cup (IF transfer.target = 0 THEN {Without(objects[i].id)} ELSE {})
  /\ UNCHANGED <<service, folders, rootFolder, strangers, cloudSpent>>
-----------------------------------------------------------------------------
(* Dropbox: one request, or a session of whole chunks.                     *)

\* Another attempt of the same request, or the end of the attempts.
TryAgain == IF transfer.failures + 1 < CloudAttempts THEN transfer' = [transfer EXCEPT !.failures = @ + 1] /\ UNCHANGED verdict ELSE Fail

PutObject ==
  /\ Dropbox("put")
  /\ \/ Overwrite /\ Done("upload", transfer.content)
     \/ (Overwrite \/ UNCHANGED objects) /\ TryAgain
  /\ UNCHANGED <<service, folders, rootFolder, upSession, strangers, cloudSpent>>

OpenSession ==
  /\ Dropbox("start")
  /\ \/ /\ upSession' = [NoSession EXCEPT !.state = "open", !.len = Chunk]
        /\ transfer' = [transfer EXCEPT !.pc = "append", !.offset = Chunk, !.failures = 0] /\ UNCHANGED verdict
     \/ TryAgain /\ UNCHANGED upSession
  /\ UNCHANGED <<service, folders, rootFolder, objects, strangers, cloudSpent>>

IsLast == transfer.offset + Chunk >= Size(transfer.content)

\* dropboxCorrectOffset, and the tests of session: an offset further on, at a chunk.
Corrects(len) == len > transfer.offset /\ len <= Size(transfer.content) /\ len % Chunk = 0

\* append_v2: a repeated append that had been stored is told the correct offset.
AppendChunk ==
  /\ Dropbox("append") /\ ~IsLast
  /\ \/ /\ upSession.state = "open" /\ upSession.len = transfer.offset
        /\ upSession' = [upSession EXCEPT !.len = @ + Chunk]
        /\ \/ transfer' = [transfer EXCEPT !.offset = @ + Chunk, !.failures = 0] /\ UNCHANGED verdict
           \/ TryAgain
     \/ /\ upSession.state = "open" /\ upSession.len # transfer.offset /\ UNCHANGED upSession
        /\ IF Corrects(upSession.len) THEN transfer' = [transfer EXCEPT !.offset = upSession.len, !.failures = 0] /\ UNCHANGED verdict ELSE Fail
     \/ upSession.state # "open" /\ Fail /\ UNCHANGED upSession
     \/ TryAgain /\ UNCHANGED upSession
  /\ UNCHANGED <<service, folders, rootFolder, objects, strangers, cloudSpent>>

\* Mutant: a session that is closed is taken for one that was finished.
ClosedIsFinished == TRUE

\* The committed file proves success only if its content hash matches.
CommittedBefore == \E i \in 1..Len(objects) : SameContent(objects[i], transfer.content)

\* upload_session/finish: the last chunk and the commit.
FinishSession ==
  /\ Dropbox("append") /\ IsLast
  /\ \/ /\ upSession.state = "open" /\ upSession' = [upSession EXCEPT !.state = "done"] /\ Overwrite
        /\ Done("upload", transfer.content) \/ TryAgain
     \/ /\ upSession.state # "open" /\ UNCHANGED <<upSession, objects>>
        /\ IF CommittedBefore THEN Done("upload", transfer.content) \/ Fail ELSE Fail
     \/ TryAgain /\ UNCHANGED <<upSession, objects>>
  /\ UNCHANGED <<service, folders, rootFolder, strangers, cloudSpent>>
-----------------------------------------------------------------------------
(* Deletion, and everything around.                                        *)

BeginDelete ==
  /\ transfer.pc = "idle" /\ objects # <<>>
  /\ LET f == IF service = "dropbox" THEN 0 ELSE IF rootFolder # 0 THEN rootFolder ELSE IF folders = <<>> THEN 0 ELSE Oldest IN
     transfer' = [NoTransfer EXCEPT !.pc = "delete", !.folder = f]
  /\ verdict' = NoVerdict
  /\ UNCHANGED <<service, folders, rootFolder, objects, upSession, strangers, cloudSpent>>

\* Mutant: one file of the name is deleted.
NewestOnly(f) == {Newest(InFolder(f)).id}

\* Every file of the name goes.
Doomed(f) == {o.id : o \in {InFolder(f)[i] : i \in 1..Len(InFolder(f))}}

DeleteObject ==
  /\ transfer.pc = "delete"
  /\ \/ objects' = SelectSeq(objects, LAMBDA o : o.id \notin Doomed(transfer.folder)) /\ Done("delete", NoContent)
     \/ \E gone \in SUBSET Doomed(transfer.folder) : objects' = SelectSeq(objects, LAMBDA o : o.id \notin gone) /\ Fail
  /\ UNCHANGED <<service, folders, rootFolder, upSession, strangers, cloudSpent>>

\* Somebody else at the account: another file of the name (Drive has no unique names) or
\* the folder, or the file, thrown away.
RemoteChange ==
  /\ cloudSpent.changes < MaxRemoteChanges /\ transfer.pc = "idle"
  /\ cloudSpent' = [cloudSpent EXCEPT !.changes = @ + 1] /\ strangers' = TRUE /\ verdict' = NoVerdict
  /\ \/ \E c \in Contents, i \in 1..Len(folders) :
          /\ service = "drive" /\ UNCHANGED folders
          /\ objects' = Append(objects, [id |-> NewId, folder |-> folders[i], content |-> c, intact |-> TRUE])
     \/ folders # <<>> /\ folders' = Tail(folders) /\ objects' = SelectSeq(objects, LAMBDA o : o.folder # Head(folders))
     \/ service = "dropbox" /\ objects' = <<>> /\ UNCHANGED folders
  /\ UNCHANGED <<service, rootFolder, upSession, transfer>>

\* The process ends, or the destination's worker is replaced: the provider is made anew.
CloudCrash ==
  /\ cloudSpent.crashes < MaxCloudCrashes /\ cloudSpent' = [cloudSpent EXCEPT !.crashes = @ + 1]
  /\ transfer' = NoTransfer /\ rootFolder' = 0 /\ verdict' = IF transfer.pc = "idle" THEN verdict ELSE NoVerdict
  /\ UNCHANGED <<service, folders, objects, upSession, strangers>>

CloudStep ==
  \/ FindFolder \/ CreateFolder \/ FindObject \/ StartSession \/ SendChunk \/ AskStatus \/ VerifyUpload
  \/ PutObject \/ OpenSession \/ AppendChunk \/ FinishSession \/ DeleteObject

CloudNext ==
  \/ \E c \in Contents : BeginUpload(c)
  \/ CloudStep \/ BeginDelete \/ RemoteChange \/ SessionExpires \/ CloudCrash

\* Every request has a deadline.
CloudSpec == CloudInit /\ [][CloudNext]_cloudVars /\ WF_cloudVars(CloudStep)
-----------------------------------------------------------------------------
(* Properties.                                                             *)

\* Download: the newest file of the name in the folder the provider would look in.
ServedFolder == IF service = "dropbox" THEN 0 ELSE IF rootFolder # 0 THEN rootFolder ELSE IF folders = <<>> THEN 0 ELSE Oldest
Served == LET found == InFolder(ServedFolder) IN IF found = <<>> THEN NoContent ELSE Newest(found).content

\* What was reported as uploaded, or as there already, is what a download gets, and after a
\* deletion there is nothing to get; whichever requests and answers were lost.
ReportIsTrue ==
  /\ verdict.op = "upload" /\ ~strangers => Served = verdict.content /\ Newest(InFolder(ServedFolder)).intact
  /\ verdict.op = "delete" => InFolder(ServedFolder) = <<>>

\* "Not retried blindly: a lost reply would create a duplicate folder": nobody but a stranger
\* makes a second folder, or a second file of the name.
OneOfEach == ~strangers => Len(folders) <= 1 /\ Len(objects) <= 1

\* Cloud destinations hold what the jobs say.
CloudCopiesAreTrue == ReportIsTrue /\ OneOfEach

\* An upload or a deletion ends, whatever is lost on its way.
UploadsEnd == (transfer.pc # "idle") ~> (transfer.pc = "idle")

\* "existing" is any file with the content, but a download takes the newest of the name.
SkippedIsServed == verdict.op = "upload" => Served = verdict.content

\* The folder the provider remembers is there: somebody who throws it away stops every upload
\* until the provider is made anew.
KnownFolderIsThere == rootFolder # 0 => FolderThere(rootFolder)
=============================================================================
