------------------------------ MODULE FaceScan ------------------------------
(***************************************************************************)
(* Face detection and clustering (app/faces_scan.go, app/faces_api.go,     *)
(* app/ai_api.go): the scan that asks the sidecar about every picture it   *)
(* has not seen and then replaces the people, the background queue of new  *)
(* downloads, the operator's edits of people, reindexing, and the ends of  *)
(* the process.  Every picture here shows one face, all of one person, so  *)
(* that clustering makes one group of the faces it has loaded; faces are   *)
(* written to it one per transaction (facesClusterWrite).  The files are   *)
(* there: one that is missing is stamped without being looked at.          *)
(***************************************************************************)
EXTENDS Naturals, Sequences, FiniteSets

CONSTANTS
  Pics,             \* ids of downloads that are pictures
  FaceQueueCap,     \* facesQueueCap
  BatchSize,
  MaxItemAttempts,  \* facesMaxItemAttempts
  MaxSkipped,       \* facesMaxSkippedFiles
  Names,            \* labels people can be given
  Unnamed,          \* the NULL label
  \* Bounds of the model only.
  MaxPeople,        \* ids of people ever given
  MaxFaceEvents     \* scans, edits, refusals, deletions, reindexing and ends of the process

ASSUME FaceAssumption ==
  /\ Pics \subseteq Nat \ {0} /\ Unnamed \notin Names
  /\ {FaceQueueCap, BatchSize, MaxItemAttempts, MaxSkipped, MaxPeople, MaxFaceEvents} \subseteq Nat \ {0}

VARIABLES
  pic,        \* Pic -> "absent", "new", "stamped" (ai_indexed_at) or "gone"
  faces,      \* pictures that have a row in faces
  person,     \* Pic -> the person_id of its face; 0 is NULL
  people,     \* person id -> its row
  lastPerson, \* the highest id given (AUTOINCREMENT)
  scan,       \* the scan: where it is and what it has read
  attempts, skippedPics, \* of this scan: failed requests, pictures given up on
  faceQueue, drain,      \* the background queue and the picture being looked at
  pending,    \* pending_job_ai_faces is stored
  reindex,    \* handleFacesReindex has seen that no scan is running
  faceLife,   \* "up", "stopping" or "down"
  cut,        \* history: the last scan that had begun was cut off
  refused,    \* history: pictures the sidecar answered with an error
  named,      \* history: a clustered person is named, and no edit raced a replacement
  faceEvents  \* bound used

faceVars == <<pic, faces, person, people, lastPerson, scan, attempts, skippedPics, faceQueue, drain,
              pending, reindex, faceLife, cut, refused, named, faceEvents>>
rows == <<pic, faces, person>>
persons == <<people, lastPerson>>
background == <<faceQueue, drain>>
tallies == <<attempts, skippedPics>>
process == <<pending, reindex, faceLife, cut>>
faceHistory == <<refused, named, faceEvents>>

NoPersonRow == [there |-> FALSE, label |-> Unnamed, centred |-> FALSE]
NoScan == [pc |-> "off", work |-> {}, loaded |-> {}, labels |-> {}, top |-> 0, new |-> 0]
NoAttempts == [d \in Pics |-> 0]

FaceInit ==
  /\ pic = [d \in Pics |-> "absent"] /\ faces = {} /\ person = [d \in Pics |-> 0]
  /\ people = [p \in 1..MaxPeople |-> NoPersonRow] /\ lastPerson = 0
  /\ scan = NoScan /\ attempts = NoAttempts /\ skippedPics = {}
  /\ faceQueue = <<>> /\ drain = 0
  /\ pending = FALSE /\ reindex = FALSE /\ faceLife = "up" /\ cut = FALSE
  /\ refused = {} /\ named = FALSE /\ faceEvents = 0

FaceEvent == faceEvents < MaxFaceEvents /\ faceEvents' = faceEvents + 1
At(pc) == faceLife # "down" /\ scan.pc = pc
Go(pc) == scan' = [scan EXCEPT !.pc = pc]
Smallest(S, n) == {d \in S : Cardinality({e \in S : e < d}) < n}
Present(d) == pic[d] \in {"new", "stamped"}

\* Detected faces are new rows: the ids that a clustering has loaded are gone.
Redetected(S) ==
  /\ faces' = faces \cup S
  /\ person' = [d \in Pics |-> IF d \in S THEN 0 ELSE person[d]]
-----------------------------------------------------------------------------
(* Downloads come and go.                                                  *)

\* enqueue, after a download; a full queue drops the id.
Arrive(d) ==
  /\ faceLife = "up" /\ pic[d] = "absent" /\ \A e \in Pics : e < d => pic[e] # "absent"
  /\ pic' = [pic EXCEPT ![d] = "new"]
  /\ faceQueue' = IF Len(faceQueue) < FaceQueueCap THEN Append(faceQueue, d) ELSE faceQueue
  /\ UNCHANGED <<faces, person, persons, scan, tallies, drain, process, faceHistory>>

\* The faces go with the row (ON DELETE CASCADE).
DeletePic(d) ==
  /\ faceLife = "up" /\ Present(d) /\ FaceEvent
  /\ pic' = [pic EXCEPT ![d] = "gone"] /\ faces' = faces \ {d}
  /\ person' = [person EXCEPT ![d] = 0]
  /\ scan' = [scan EXCEPT !.loaded = @ \ {d}]
  /\ UNCHANGED <<persons, tallies, background, process, refused, named>>
-----------------------------------------------------------------------------
(* The scan, phase A: detection.                                           *)

Begin ==
  /\ scan' = [NoScan EXCEPT !.pc = "start"] /\ attempts' = NoAttempts /\ skippedPics' = {}

\* startScan; markPending follows in the job's goroutine.
StartScan ==
  /\ faceLife = "up" /\ scan.pc = "off" /\ FaceEvent /\ Begin
  /\ UNCHANGED <<rows, persons, background, process, refused, named>>

MarkPending ==
  /\ At("start") /\ pending' = TRUE /\ Go("detect")
  /\ UNCHANGED <<rows, persons, tallies, background, reindex, faceLife, cut, faceHistory>>

\* unindexed and pick: a picture that failed before goes alone.
PickBatch ==
  LET left == {d \in Pics : pic[d] = "new"} \ skippedPics
      batch == Smallest(left, BatchSize)
      again == {d \in batch : attempts[d] > 0} IN
  /\ At("detect")
  /\ scan' = IF batch = {} THEN [scan EXCEPT !.pc = "load"]
             ELSE [scan EXCEPT !.pc = "asked", !.work = IF again = {} THEN batch ELSE Smallest(again, 1)]
  /\ UNCHANGED <<rows, persons, tallies, background, process, faceHistory>>

\* Mutant: a failed request is not counted.
NotCounted(d, outcome) == 0

\* noteFailure; a timeout of a request of its own counts for all attempts.
Counted(d, outcome) == IF outcome = "timeout" THEN MaxItemAttempts ELSE attempts[d] + 1

\* Mutant: every picture of the batch is stamped, answered or not.
WholeBatch(outcomes) == scan.work

Answered(outcomes) == {d \in scan.work : outcomes[d] = "faces"}

\* The sidecar answers, and persist stores what it found; a picture deleted meanwhile fails
\* the insert, and with it the scan.  After an outage the scan waits for the sidecar or gives up.
PersistFaces(outcomes) ==
  LET found == Answered(outcomes)
      failed == {d \in scan.work : outcomes[d] # "faces"}
      tried == [d \in Pics |-> IF d \in failed THEN Counted(d, outcomes[d]) ELSE IF d \in found THEN 0 ELSE attempts[d]]
      given == {d \in failed : tried[d] >= MaxItemAttempts}
      stop == Cardinality(skippedPics \cup given) >= MaxSkipped /\ given # {} IN
  /\ At("asked")
  /\ IF \E d \in found : ~Present(d)
     THEN Go("end") /\ UNCHANGED <<rows, tallies>>
     ELSE /\ pic' = [d \in Pics |-> IF d \in found THEN "stamped" ELSE pic[d]]
          /\ Redetected({d \in found : outcomes[d] = "faces"})
          /\ attempts' = [d \in Pics |-> IF d \in given THEN 0 ELSE tried[d]]
          /\ skippedPics' = skippedPics \cup given
          /\ \E pc \in {"detect", "end"} :
               /\ pc = "end" => failed # {}
               /\ stop => pc = "end"
               /\ Go(pc)
  /\ UNCHANGED <<persons, background, process, faceHistory>>
-----------------------------------------------------------------------------
(* Phase B: clustering and the replacement of the people.                  *)

\* loadEmbeddings; without faces the people stay as they are.
LoadEmbeddings ==
  /\ At("load")
  /\ scan' = [scan EXCEPT !.pc = IF faces = {} THEN "end" ELSE "cluster", !.loaded = faces]
  /\ UNCHANGED <<rows, persons, tallies, background, process, faceHistory>>

\* labelSnapshot: the centroid of a person that split made matches nothing.
LabelSnapshot ==
  /\ At("cluster")
  /\ scan' = [scan EXCEPT !.pc = "max",
                !.labels = {people[p].label : p \in {q \in DOMAIN people : people[q].there /\ people[q].centred}} \ {Unnamed}]
  /\ UNCHANGED <<rows, persons, tallies, background, process, faceHistory>>

\* Mutant: the highest id is read after the new person is inserted.
AllPeople == IF lastPerson < MaxPeople THEN lastPerson + 1 ELSE lastPerson

OldMax ==
  LET there == {p \in DOMAIN people : people[p].there} IN
  IF there = {} THEN 0 ELSE CHOOSE p \in there : \A q \in there : q <= p

ReadOldMax ==
  /\ At("max") /\ scan' = [scan EXCEPT !.pc = "insert", !.top = OldMax]
  /\ UNCHANGED <<rows, persons, tallies, background, process, faceHistory>>

\* replacePeople: the new generation first, with the label carried over.
InsertPeople ==
  /\ At("insert") /\ lastPerson < MaxPeople
  /\ \E l \in IF scan.labels = {} THEN {Unnamed} ELSE scan.labels :
       people' = [people EXCEPT ![lastPerson + 1] = [there |-> TRUE, label |-> l, centred |-> TRUE]]
  /\ lastPerson' = lastPerson + 1
  /\ scan' = [scan EXCEPT !.pc = "assign", !.new = lastPerson + 1]
  /\ UNCHANGED <<rows, tallies, background, process, faceHistory>>

\* The loaded faces move to it; the foreign key refuses a person deleted meanwhile.
AssignFace(d) ==
  /\ At("assign") /\ d \in scan.loaded
  /\ IF people[scan.new].there
     THEN person' = [person EXCEPT ![d] = scan.new] /\ scan' = [scan EXCEPT !.loaded = @ \ {d}]
     ELSE Go("end") /\ UNCHANGED person
  /\ UNCHANGED <<pic, faces, persons, tallies, background, process, faceHistory>>

\* The previous generation is deleted, and what still points at it cleared.
ClearOld ==
  /\ At("assign") /\ scan.loaded = {}
  /\ person' = [d \in Pics |-> IF person[d] <= scan.top THEN 0 ELSE person[d]]
  /\ people' = [p \in DOMAIN people |-> IF p <= scan.top THEN NoPersonRow ELSE people[p]]
  /\ Go("end")
  /\ UNCHANGED <<pic, faces, lastPerson, tallies, background, process, faceHistory>>

\* Mutant: the mark is removed also when the program stops.
MarkDropped == FALSE

MarkKept == faceLife = "stopping"

EndScan ==
  /\ At("end") /\ scan' = NoScan /\ pending' = (pending /\ MarkKept)
  /\ cut' = (faceLife = "stopping")
  /\ UNCHANGED <<rows, persons, tallies, background, reindex, faceLife, faceHistory>>

\* Cancellation is seen before the people are replaced, not after.
StopScan ==
  /\ \/ faceLife = "up" /\ FaceEvent
     \/ faceLife = "stopping" /\ UNCHANGED faceEvents
  /\ scan.pc \in {"detect", "asked", "load", "cluster"} /\ Go("end")
  /\ UNCHANGED <<rows, persons, tallies, background, process, refused, named>>
-----------------------------------------------------------------------------
(* The background queue.                                                   *)

\* drain: a running scan will pick the rows up, and the queue is dropped.
DrainNextFace ==
  /\ faceLife = "up" /\ drain = 0 /\ faceQueue # <<>>
  /\ IF scan.pc # "off" THEN faceQueue' = <<>> /\ UNCHANGED drain
     ELSE /\ faceQueue' = Tail(faceQueue)
          /\ drain' = IF pic[Head(faceQueue)] = "new" THEN Head(faceQueue) ELSE 0
  /\ UNCHANGED <<rows, persons, scan, tallies, process, faceHistory>>

\* The faces are stored, or nothing is: the row was deleted, or the sidecar is unavailable.
DrainAnswer ==
  LET d == drain IN
  /\ faceLife = "up" /\ d # 0 /\ drain' = 0
  /\ \/ /\ Present(d) /\ pic' = [pic EXCEPT ![d] = "stamped"] /\ Redetected({d})
        /\ scan' = [scan EXCEPT !.loaded = @ \ {d}] /\ UNCHANGED <<faceQueue, refused, faceEvents>>
     \/ ~Present(d) /\ UNCHANGED <<rows, scan, faceQueue, refused, faceEvents>>
     \/ FaceEvent /\ faceQueue' = <<>> /\ UNCHANGED <<rows, scan, refused>>
     \/ /\ FaceEvent /\ Present(d) /\ pic' = [pic EXCEPT ![d] = "stamped"] /\ refused' = refused \cup {d}
        /\ UNCHANGED <<faces, person, scan, faceQueue>>
  /\ UNCHANGED <<persons, tallies, process, named>>

\* autoScanTick
AutoScanTick ==
  /\ faceLife = "up" /\ scan.pc = "off" /\ faceQueue = <<>> /\ drain = 0 /\ FaceEvent
  /\ LET d == Smallest({e \in Pics : pic[e] = "new"}, 1) IN
     d # {} /\ faceQueue' = <<CHOOSE e \in d : TRUE>>
  /\ UNCHANGED <<rows, persons, scan, tallies, drain, process, refused, named>>
-----------------------------------------------------------------------------
(* The operator.                                                           *)

\* What the faceHistory keeps of an edit: those that overlap a replacement are left out.
Edited ==
  named' = (scan.pc \notin {"max", "insert", "assign"} /\
            \E p \in DOMAIN people : people'[p].there /\ people'[p].centred /\ people'[p].label # Unnamed)

EditPeople ==
  /\ faceLife = "up" /\ FaceEvent /\ Edited
  /\ UNCHANGED <<pic, faces, scan, tallies, background, process, refused>>

NamePerson(p, l) ==
  /\ people[p].there /\ people' = [people EXCEPT ![p].label = l]
  /\ EditPeople /\ UNCHANGED <<person, lastPerson>>

DeletePerson(p) ==
  /\ people[p].there /\ people' = [people EXCEPT ![p] = NoPersonRow]
  /\ person' = [d \in Pics |-> IF person[d] = p THEN 0 ELSE person[d]]
  /\ EditPeople /\ UNCHANGED lastPerson

\* The target is not looked up: the faces of a merge into nobody belong to nobody.
MergePeople(p, other) ==
  /\ p # other /\ people[other].there
  /\ people' = [people EXCEPT ![other] = NoPersonRow]
  /\ person' = [d \in Pics |-> IF person[d] # other THEN person[d] ELSE IF people[p].there THEN p ELSE 0]
  /\ EditPeople /\ UNCHANGED lastPerson

SplitPerson(d) ==
  /\ person[d] # 0 /\ lastPerson < MaxPeople
  /\ \E l \in Names \cup {Unnamed} :
       people' = [people EXCEPT ![lastPerson + 1] = [there |-> TRUE, label |-> l, centred |-> FALSE]]
  /\ lastPerson' = lastPerson + 1 /\ person' = [person EXCEPT ![d] = lastPerson + 1]
  /\ EditPeople

Reassign(d, p) ==
  /\ d \in faces /\ p # person[d] /\ (p # 0 => people[p].there)
  /\ person' = [person EXCEPT ![d] = p] /\ UNCHANGED persons
  /\ EditPeople

\* handleFacesReindex: the check, and later the transaction.
CheckReindex ==
  /\ faceLife = "up" /\ ~reindex /\ scan.pc = "off" /\ FaceEvent /\ reindex' = TRUE
  /\ UNCHANGED <<rows, persons, scan, tallies, background, pending, faceLife, cut, refused, named>>

ReindexFaces ==
  /\ faceLife = "up" /\ reindex /\ reindex' = FALSE
  /\ pic' = [d \in Pics |-> IF pic[d] = "stamped" THEN "new" ELSE pic[d]]
  /\ faces' = {} /\ person' = [d \in Pics |-> 0]
  /\ people' = [p \in DOMAIN people |-> NoPersonRow]
  /\ scan' = [scan EXCEPT !.loaded = {}] /\ named' = FALSE /\ refused' = {}
  /\ UNCHANGED <<lastPerson, tallies, background, pending, faceLife, cut, faceEvents>>
-----------------------------------------------------------------------------
(* The process.                                                            *)

StopProcess ==
  /\ faceLife = "up" /\ FaceEvent /\ faceLife' = "stopping"
  /\ UNCHANGED <<rows, persons, scan, tallies, background, pending, reindex, cut, refused, named>>

\* A crash, or the end of a stop that waited for the scan.
EndProcess ==
  /\ \/ faceLife = "up" /\ FaceEvent
     \/ faceLife = "stopping" /\ scan.pc = "off" /\ UNCHANGED faceEvents
  /\ faceLife' = "down" /\ scan' = NoScan /\ faceQueue' = <<>> /\ drain' = 0 /\ reindex' = FALSE
  /\ cut' = (scan.pc \notin {"off", "start"} \/ (cut /\ scan.pc = "off"))
  /\ UNCHANGED <<rows, persons, tallies, pending, refused, named>>

\* The next start; the scan resumes some seconds later, if the mark is there and AI is on.
StartProcess ==
  /\ faceLife = "down" /\ faceLife' = "up"
  /\ UNCHANGED <<rows, persons, scan, tallies, background, pending, reindex, cut, faceHistory>>

ResumeScan ==
  /\ faceLife = "up" /\ pending /\ cut /\ scan.pc = "off" /\ Begin /\ cut' = FALSE
  /\ UNCHANGED <<rows, persons, background, pending, reindex, faceLife, faceHistory>>
-----------------------------------------------------------------------------
Outcomes == [scan.work -> {"faces", "failed", "timeout"}]

ScanStep ==
  \/ MarkPending \/ PickBatch \/ (\E outcomes \in Outcomes : PersistFaces(outcomes))
  \/ LoadEmbeddings \/ LabelSnapshot \/ ReadOldMax \/ InsertPeople
  \/ (\E d \in Pics : AssignFace(d)) \/ ClearOld \/ EndScan

FaceNext ==
  \/ \E d \in Pics : Arrive(d) \/ DeletePic(d) \/ SplitPerson(d) \/ (\E p \in 0..MaxPeople : Reassign(d, p))
  \/ \E p \in DOMAIN people : DeletePerson(p) \/ (\E l \in Names \cup {Unnamed} : NamePerson(p, l))
                              \/ (\E other \in DOMAIN people : MergePeople(p, other))
  \/ StartScan \/ ScanStep \/ StopScan
  \/ DrainNextFace \/ DrainAnswer \/ AutoScanTick
  \/ CheckReindex \/ ReindexFaces \/ StopProcess \/ EndProcess \/ StartProcess \/ ResumeScan

FaceSpec == FaceInit /\ [][FaceNext]_faceVars /\ WF_faceVars(ScanStep)
-----------------------------------------------------------------------------
(* Properties.                                                             *)

\* A picture that the next scans will pass over has been looked at: its face is stored, or
\* the sidecar refused the file.
StampedIsDetected == \A d \in Pics : pic[d] = "stamped" => d \in faces \cup refused

\* "labels carried over to the new cluster": a name the operator gave is not lost by a
\* clustering, its failure or a crash in it, unless an edit came between the snapshot of the
\* names and the deletion of the old people.
NameIsKept == named => \E p \in DOMAIN people : people[p].there /\ people[p].label # Unnamed

\* A scan that the end of the process cut off is remembered for the next start.
CutScanIsMarked == faceLife = "down" /\ cut => pending

\* However the sidecar fails, a scan comes to an end.
ScanSettles == (scan.pc # "off") ~> (scan.pc = "off" \/ lastPerson = MaxPeople)

\* "labels carried over to the new cluster": whoever is named when the old people are deleted,
\* somebody is afterwards.  A name given after the snapshot, or by a split, is lost.
AnyNameIsKept ==
  [][ClearOld /\ (\E p \in DOMAIN people : people[p].label # Unnamed) =>
       \E p \in DOMAIN people : people'[p].label # Unnamed]_faceVars

\* A scan forgets no picture, no name and not itself.
ScanForgetsNothing == StampedIsDetected /\ NameIsKept /\ CutScanIsMarked
=============================================================================
