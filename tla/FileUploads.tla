---------------------------- MODULE FileUploads -----------------------------
(***************************************************************************)
(* The backup destinations that are files or objects (backup/local.go,     *)
(* sftp.go, ftp.go, s3.go): an upload compares, writes beside the object,  *)
(* verifies, publishes and cleans up, and may lose its connection or its   *)
(* process between any two of these steps.  The journal of what is left    *)
(* beside the object is BackupTransfers.                                   *)
(***************************************************************************)
EXTENDS Integers, FiniteSets

CONSTANTS
  Stores,        \* subset of {"local", "sftp", "ftp", "s3"}
  Bodies,     \* what a source file may hold; all of the same size
  Blocks,        \* the parts of a payload: blocks of a stream, or parts of a multipart upload
  Parallel,      \* parts of S3 in flight (s3Parallel)
  Nothing,
  \* Bounds of the model only.
  MaxPuts, MaxPutCrashes

ASSUME FileUploadsAssumption ==
  /\ Stores \subseteq {"local", "sftp", "ftp", "s3"} /\ Nothing \notin Bodies
  /\ Parallel \in Nat \ {0} /\ Blocks \subseteq Nat /\ {MaxPuts, MaxPutCrashes} \subseteq Nat

VARIABLES
  store,      \* which of the four
  canReplace, \* SFTP: the server has posix-rename@openssh.com
  object,     \* what the name shows: [content, parts]
  staged,     \* what lies beside it: [there, parts]; an S3 multipart upload is there too
  put,        \* the upload in hand: [pc, content, sent, flying]
  putVerdict, \* what the last operation reported: [op, content]
  everStored, \* history: the object was published and not deleted since
  putSpent    \* [puts, crashes]

putVars == <<store, canReplace, object, staged, put, putVerdict, everStored, putSpent>>

Absent == [content |-> Nothing, parts |-> {}]
NoStage == [there |-> FALSE, parts |-> {}]
NoReport == [op |-> "none", content |-> Nothing]
NoPut == [pc |-> "idle", content |-> Nothing, sent |-> {}, flying |-> {}]

PutInit ==
  /\ store \in Stores /\ canReplace \in (IF store = "sftp" THEN BOOLEAN ELSE {TRUE})
  /\ object = Absent /\ staged = NoStage /\ put = NoPut
  /\ putVerdict = NoReport /\ everStored = FALSE /\ putSpent = [puts |-> 0, crashes |-> 0]

PutAt(pc) == put.pc = pc
PutGoes(pc) == put' = [put EXCEPT !.pc = pc] /\ UNCHANGED putVerdict
PutDone(c) == put' = NoPut /\ putVerdict' = [op |-> "put", content |-> c]
Broken == put' = [NoPut EXCEPT !.pc = "failed"] /\ putVerdict' = NoReport

\* Upload: the source is hashed whole first.
BeginPut(c) ==
  /\ PutAt("idle") /\ putSpent.puts < MaxPuts /\ putSpent' = [putSpent EXCEPT !.puts = @ + 1]
  /\ put' = [NoPut EXCEPT !.pc = "compare", !.content = c] /\ putVerdict' = NoReport
  /\ UNCHANGED <<store, canReplace, object, staged, everStored>>

\* Mutant: an object of the same size is taken for the same.
OfSameSize(c) == object # Absent

\* Its bytes are read back and compared.
IsStored(c) == object.content = c /\ object.parts = Blocks

\* The object is there already, cannot be replaced, or is written anew.
Compare ==
  /\ PutAt("compare")
  /\ \/ IsStored(put.content) /\ PutDone(put.content)
     \/ ~IsStored(put.content) /\ (object = Absent \/ canReplace) /\ PutGoes("stage")
     \/ put' = NoPut /\ putVerdict' = NoReport
  /\ UNCHANGED <<store, canReplace, object, staged, everStored, putSpent>>

\* temporary, OpenFile with O_EXCL, MKD, CreateMultipartUpload: it may be there although the
\* answer was lost.  What an earlier upload left has another name and is not touched.
MakeStage ==
  /\ PutAt("stage")
  /\ \/ staged' = [NoStage EXCEPT !.there = TRUE] /\ PutGoes("write")
     \/ staged' \in {NoStage, [NoStage EXCEPT !.there = TRUE]} /\ Broken
  /\ UNCHANGED <<store, canReplace, object, everStored, putSpent>>

\* The parts that may be on their way next: in order, or as many as the group allows.
Sendable ==
  LET left == Blocks \ (put.sent \cup put.flying) IN
  IF store = "s3" THEN IF Cardinality(put.flying) < Parallel THEN left ELSE {}
  ELSE IF put.flying = {} THEN {p \in left : \A q \in left : p <= q} ELSE {}

SendPart(p) ==
  /\ PutAt("write") /\ p \in Sendable /\ put' = [put EXCEPT !.flying = @ \cup {p}]
  /\ UNCHANGED <<store, canReplace, object, staged, putVerdict, everStored, putSpent>>

\* Whether the store may answer that it has a part, and not have it: S3 checks its Content-MD5,
\* and the local file system reports what it could not write.
MayDrop == store \in {"ftp", "sftp"}

PartEnds(p) ==
  /\ PutAt("write") /\ p \in put.flying
  /\ \/ /\ \/ staged' = [staged EXCEPT !.parts = @ \cup {p}]
           \/ MayDrop /\ UNCHANGED staged
        /\ put' = [put EXCEPT !.flying = @ \ {p}, !.sent = @ \cup {p}] /\ UNCHANGED putVerdict
     \/ staged' \in {staged, [staged EXCEPT !.parts = @ \cup {p}]} /\ Broken
  /\ UNCHANGED <<store, canReplace, object, everStored, putSpent>>

\* Mutant: the parts that are in flight are not waited for.
NoneFails == TRUE

\* The whole stream is written; group.Wait
AllSent == put.sent = Blocks

Written ==
  /\ PutAt("write") /\ AllSent /\ PutGoes("verify")
  /\ UNCHANGED <<store, canReplace, object, staged, everStored, putSpent>>


\* SFTP asks for the size, FTP reads everything back, S3 and the local file were checked part by part.
StageVerified == staged.parts = Blocks \/ ~MayDrop

Verify ==
  /\ PutAt("verify")
  /\ \/ StageVerified /\ PutGoes("publish")
     \/ Broken
  /\ UNCHANGED <<store, canReplace, object, staged, everStored, putSpent>>

\* One rename, RNFR and RNTO, or CompleteMultipartUpload; the directory of FTP stays.
Swap ==
  /\ object' = [content |-> put.content, parts |-> staged.parts]
  /\ staged' = [NoStage EXCEPT !.there = store = "ftp"]

\* Published, published without an answer, or not.
PublishObject ==
  /\ PutAt("publish")
  /\ \/ Swap /\ (PutGoes("clean") \/ Broken) /\ everStored' = TRUE
     \/ Broken /\ UNCHANGED <<object, staged, everStored>>
  /\ UNCHANGED <<store, canReplace, putSpent>>

\* The end of an upload that is published: FTP removes its directory, S3 asks for the object's
\* length and ETag.
Clean ==
  /\ PutAt("clean")
  /\ \/ staged' = NoStage /\ PutDone(put.content)
     \/ store \in {"ftp", "s3"} /\ Broken /\ UNCHANGED staged
  /\ UNCHANGED <<store, canReplace, object, everStored, putSpent>>

\* The end of one that is not: what it staged is removed or aborted, or stays for the journal.
GiveUp ==
  /\ PutAt("failed") /\ put' = NoPut
  /\ staged' = NoStage \/ (store # "local" /\ UNCHANGED staged)
  /\ UNCHANGED <<store, canReplace, object, putVerdict, everStored, putSpent>>

\* Delete: FTP looks again, the others trust the answer.
DeletePut ==
  /\ PutAt("idle")
  /\ \/ object' = Absent /\ putVerdict' \in {[op |-> "delete", content |-> Nothing], NoReport} /\ everStored' = FALSE
     \/ putVerdict' = NoReport /\ UNCHANGED <<object, everStored>>
  /\ UNCHANGED <<store, canReplace, staged, put, putSpent>>

PutCrash ==
  /\ putSpent.crashes < MaxPutCrashes /\ putSpent' = [putSpent EXCEPT !.crashes = @ + 1]
  /\ put' = NoPut /\ UNCHANGED <<store, canReplace, object, staged, putVerdict, everStored>>

\* List: SFTP and FTP pass over the names of their own staging, S3 does not list uploads.
Listed ==
  (IF object = Absent THEN {} ELSE {"object"}) \cup (IF store = "local" /\ staged.there THEN {"stage"} ELSE {})

PutNext ==
  \/ \E c \in Bodies : BeginPut(c)
  \/ \E p \in Blocks : SendPart(p) \/ PartEnds(p)
  \/ Compare \/ MakeStage \/ Written \/ Verify \/ PublishObject \/ Clean \/ GiveUp \/ DeletePut \/ PutCrash

PutSpec == PutInit /\ [][PutNext]_putVars
-----------------------------------------------------------------------------
(* Properties.                                                             *)

\* Whatever breaks off, the name shows a whole content or nothing, and what the last operation
\* reported.
NameShowsWhole ==
  /\ object = Absent \/ object.parts = Blocks
  /\ putVerdict.op = "put" => object.content = putVerdict.content
  /\ putVerdict.op = "delete" => object = Absent

\* An object that is being replaced is there all the time.
NeverWithout == everStored => object # Absent

\* Destinations show whole objects, and those the jobs say.
FileCopiesAreTrue == NameShowsWhole /\ NeverWithout

\* A listing shows no file that is half written: the local destination lists its temporary files too,
\* and keeps those of a crash, which no journal knows.
ListingShowsWhole == Listed \subseteq {"object"}
=============================================================================
