----------------------------- MODULE SpriteJobs -----------------------------
(***************************************************************************)
(* Hover-preview sprites (app/seekbar_jobs.go, app/seekbar_api.go): the    *)
(* queue that follows downloads, the build and rebuild jobs and the        *)
(* operator's regeneration all make sprites; deletion of a download and    *)
(* the wipe take them away; shutdown and crash cut everything off.  A      *)
(* sprite and its metadata file are one file here.                         *)
(***************************************************************************)
EXTENDS Naturals, Sequences, FiniteSets

CONSTANTS
  Videos,       \* ids of downloads that are videos
  QueueCap,     \* seekbarQueueCap
  NoVideo,
  \* Bounds of the model only.
  MaxEvents     \* builds, wipes, stops, regenerations, replacements and failures

ASSUME SpriteAssumption ==
  /\ Videos \subseteq Nat \ {0} /\ NoVideo \notin Videos
  /\ {QueueCap, MaxEvents} \subseteq Nat

VARIABLES
  file,       \* Video -> its media file: "none", or which content
  sprite,     \* Video -> the content its sprite files show, or "none"
  row,        \* Video -> its row in seekbar_sprites: "none", "sprite" or "mark"
  cleanup,    \* videos whose sprite files the outbox will delete
  waiting,    \* ids queued after download
  draining,   \* a drain goroutine is registered
  maker,      \* Maker -> what it is doing
  marker,     \* pending_job_seekbarBuild is stored
  wipe,       \* the rebuild job's wipe: "off", or the ids whose page it has passed
  life,       \* "up", "stopping" or "down"
  unowned,    \* history: ids whose files lost or never got their row
  events      \* bound used

spriteVars == <<file, sprite, row, cleanup, waiting, draining, maker, marker, wipe, life,
                unowned, events>>

Makers == {"drain", "build", "regen"}
NotMaking == [pc |-> "off", id |-> NoVideo, stored |-> "none", left |-> {}]

SpriteInit ==
  /\ file = [v \in Videos |-> "none"] /\ sprite = [v \in Videos |-> "none"]
  /\ row = [v \in Videos |-> "none"] /\ cleanup = {}
  /\ waiting = <<>> /\ draining = FALSE
  /\ maker = [w \in Makers |-> NotMaking]
  /\ marker = FALSE /\ wipe = {NoVideo} /\ life = "up" /\ unowned = {}
  /\ events = 0

Event == events < MaxEvents
-----------------------------------------------------------------------------
(* The library.                                                            *)

IsQueued(v) == \E i \in DOMAIN waiting : waiting[i] = v

\* enqueueSeekbar, after a download is registered; a full queue drops the id.
Download(v) ==
  LET known == IsQueued(v) \/ maker["drain"].id = v
      full == Len(waiting) >= QueueCap IN
  /\ life # "down" /\ file[v] = "none" /\ sprite[v] = "none" /\ row[v] = "none" /\ v \notin unowned
  /\ file' = [file EXCEPT ![v] = "first"]
  /\ \/ (known \/ full) /\ UNCHANGED <<waiting, draining, maker>>
     \/ ~known /\ ~full /\ draining /\ waiting' = Append(waiting, v) /\ UNCHANGED <<draining, maker>>
     \/ /\ ~known /\ ~full /\ ~draining /\ life = "up"
        /\ waiting' = Append(waiting, v) /\ draining' = TRUE
        /\ maker' = [maker EXCEPT !["drain"].pc = "next"]
     \/ ~known /\ ~full /\ ~draining /\ life = "stopping" /\ waiting' = <<>> /\ UNCHANGED <<draining, maker>>
  /\ UNCHANGED <<sprite, row, cleanup, marker, wipe, life, unowned, events>>

\* The file is registered again under another path.
Replace(v) ==
  /\ life = "up" /\ file[v] = "first" /\ Event
  /\ file' = [file EXCEPT ![v] = "second"] /\ events' = events + 1
  /\ UNCHANGED <<sprite, row, cleanup, waiting, draining, maker, marker, wipe, life, unowned>>

\* A deletion takes the row along and journals the files the row names.
Delete(v) ==
  /\ life = "up" /\ file[v] # "none"
  /\ file' = [file EXCEPT ![v] = "none"] /\ row' = [row EXCEPT ![v] = "none"]
  /\ cleanup' = IF row[v] = "sprite" THEN cleanup \cup {v} ELSE cleanup
  /\ UNCHANGED <<sprite, waiting, draining, maker, marker, wipe, life, unowned, events>>

CleanUp(v) ==
  /\ life = "up" /\ v \in cleanup
  /\ sprite' = [sprite EXCEPT ![v] = "none"] /\ cleanup' = cleanup \ {v}
  /\ UNCHANGED <<file, row, waiting, draining, maker, marker, wipe, life, unowned, events>>
-----------------------------------------------------------------------------
(* Making one sprite: generateSeekbar.                                     *)

\* What a maker does after this id: the job goes on, the others end.
After(w) == IF w = "regen" THEN NotMaking ELSE [NotMaking EXCEPT !.pc = "next", !.left = maker[w].left]

\* markSeekbar: a scan records a video it cannot use.
Marked(w, v) ==
  IF w = "build" /\ file[v] # "none" /\ row[v] = "none" THEN [row EXCEPT ![v] = "mark"] ELSE row

\* The row and the file are read; a sprite that survived an interrupted run is kept.
Sample(w) ==
  LET v == maker[w].id IN
  /\ life # "down" /\ maker[w].pc = "sample"
  /\ \/ /\ file[v] # "none" /\ (w = "regen" \/ sprite[v] # file[v])
        /\ maker' = [maker EXCEPT ![w] = [@ EXCEPT !.pc = "encode", !.stored = file[v]]]
        /\ UNCHANGED row
     \/ /\ file[v] # "none" /\ w # "regen" /\ sprite[v] = file[v]
        /\ maker' = [maker EXCEPT ![w] = [@ EXCEPT !.pc = "restore", !.stored = file[v]]]
        /\ UNCHANGED row
     \/ /\ file[v] = "none"
        /\ maker' = [maker EXCEPT ![w] = After(w)] /\ row' = Marked(w, v)
  /\ UNCHANGED <<file, sprite, cleanup, waiting, draining, marker, wipe, life, unowned, events>>

\* ffmpeg runs; it may find no duration, fail, or be cancelled.
EncodeFails(w) ==
  /\ life # "down" /\ maker[w].pc = "encode"
  /\ maker' = [maker EXCEPT ![w] = After(w)]
  /\ row' \in {row, Marked(w, maker[w].id)}
  /\ UNCHANGED <<file, sprite, cleanup, waiting, draining, marker, wipe, life, unowned, events>>

\* Mutant: the commit does not look at the download again.
NotChecked(w) == TRUE

StillCurrent(w) == file[maker[w].id] = maker[w].stored /\ maker[w].stored # "none"

\* commitSeekbar: files and row in one writer transaction, if the download is still the one sampled.
Commit(w) ==
  LET v == maker[w].id IN
  /\ life # "down" /\ maker[w].pc \in {"encode", "restore"}
  /\ IF StillCurrent(w)
     THEN /\ sprite' = IF maker[w].pc = "encode" THEN [sprite EXCEPT ![v] = maker[w].stored] ELSE sprite
          /\ row' = IF file[v] # "none" THEN [row EXCEPT ![v] = "sprite"] ELSE row
     ELSE UNCHANGED sprite /\ row' = Marked(w, v)
  /\ maker' = [maker EXCEPT ![w] = After(w)]
  /\ UNCHANGED <<file, cleanup, waiting, draining, marker, wipe, life, unowned, events>>

\* The files are renamed and the transaction fails.
CommitFails(w) ==
  LET v == maker[w].id IN
  /\ life # "down" /\ maker[w].pc = "encode" /\ StillCurrent(w) /\ Event
  /\ sprite' = [sprite EXCEPT ![v] = maker[w].stored]
  /\ unowned' = unowned \cup {v} /\ events' = events + 1
  /\ maker' = [maker EXCEPT ![w] = After(w)]
  /\ UNCHANGED <<file, row, cleanup, waiting, draining, marker, wipe, life>>
-----------------------------------------------------------------------------
(* The drain goroutine.                                                    *)

\* Mutant: a drain that finds nothing leaves the flag set.
FlagKept == TRUE

FlagAtEnd == FALSE

\* next pops an id, or clears the flag under the lock that enqueues take.
DrainNext ==
  /\ life # "down" /\ maker["drain"].pc = "next"
  /\ IF waiting = <<>> \/ life = "stopping"
     THEN /\ waiting' = <<>> /\ draining' = FlagAtEnd
          /\ maker' = [maker EXCEPT !["drain"] = NotMaking]
     ELSE /\ waiting' = Tail(waiting) /\ UNCHANGED draining
          /\ maker' = [maker EXCEPT !["drain"] = [NotMaking EXCEPT !.pc = "sample", !.id = Head(waiting)]]
  /\ UNCHANGED <<file, sprite, row, cleanup, marker, wipe, life, unowned, events>>

\* The feature is switched off: the queue is dropped.
DrainDisabled ==
  /\ life = "up" /\ maker["drain"].pc = "next" /\ Event /\ events' = events + 1
  /\ waiting' = <<>> /\ draining' = FALSE /\ maker' = [maker EXCEPT !["drain"] = NotMaking]
  /\ UNCHANGED <<file, sprite, row, cleanup, marker, wipe, life, unowned>>
-----------------------------------------------------------------------------
(* The jobs and the operator's regeneration.                               *)

Candidates == {v \in Videos : file[v] # "none" /\ row[v] = "none"}

\* startSeekbarJob and runSeekbarBuild: the marker, then a scan of the videos without a row.
StartBuild ==
  /\ life = "up" /\ maker["build"].pc = "off" /\ Event
  /\ maker' = [maker EXCEPT !["build"] = [NotMaking EXCEPT !.pc = "next", !.left = Candidates]]
  /\ marker' = TRUE /\ events' = events + 1
  /\ UNCHANGED <<file, sprite, row, cleanup, waiting, draining, wipe, life, unowned>>

BuildNext(v) ==
  /\ life = "up" /\ maker["build"].pc = "next" /\ v \in maker["build"].left
  /\ \A u \in maker["build"].left : u <= v
  /\ maker' = [maker EXCEPT !["build"] = [@ EXCEPT !.pc = "sample", !.id = v, !.left = @ \ {v}]]
  /\ UNCHANGED <<file, sprite, row, cleanup, waiting, draining, marker, wipe, life, unowned, events>>

\* Mutant: the marker is deleted however the scan ended.
MarkerDropped == FALSE

MarkerAfter == life = "stopping"

\* The scan ends, was cancelled, or stops with the program, which keeps the marker.
BuildEnds ==
  /\ life # "down" /\ maker["build"].pc = "next"
  /\ maker' = [maker EXCEPT !["build"] = IF life = "stopping" /\ @.left # {} THEN [NotMaking EXCEPT !.pc = "cut"] ELSE NotMaking]
  /\ marker' = (marker /\ MarkerAfter)
  /\ UNCHANGED <<file, sprite, row, cleanup, waiting, draining, wipe, life, unowned, events>>

Regenerate(v) ==
  /\ life = "up" /\ maker["regen"].pc = "off" /\ file[v] # "none" /\ Event
  /\ maker' = [maker EXCEPT !["regen"] = [NotMaking EXCEPT !.pc = "sample", !.id = v]]
  /\ events' = events + 1
  /\ UNCHANGED <<file, sprite, row, cleanup, waiting, draining, marker, wipe, life, unowned>>

\* wipeSeekbar reads a page of rows and removes their files ...
WipeFiles ==
  /\ life = "up" /\ wipe = {NoVideo} /\ Event
  /\ wipe' = {v \in Videos : row[v] = "sprite"}
  /\ sprite' = [v \in Videos |-> IF row[v] = "sprite" THEN "none" ELSE sprite[v]]
  /\ events' = events + 1
  /\ UNCHANGED <<file, row, cleanup, waiting, draining, maker, marker, life, unowned>>

\* ... and then deletes all rows, those committed in between too.
WipeRows ==
  /\ life # "down" /\ wipe # {NoVideo}
  /\ row' = [v \in Videos |-> "none"] /\ wipe' = {NoVideo}
  /\ unowned' = unowned \cup {v \in Videos : row[v] = "sprite" /\ sprite[v] # "none"}
  /\ UNCHANGED <<file, sprite, cleanup, waiting, draining, maker, marker, life, events>>
-----------------------------------------------------------------------------
(* The process.                                                            *)

Shutdown ==
  /\ life = "up" /\ Event
  /\ life' = "stopping" /\ events' = events + 1
  /\ UNCHANGED <<file, sprite, row, cleanup, waiting, draining, maker, marker, wipe, unowned>>

\* A crash, or the end of a shutdown that waited for its maintenance jobs.
Down ==
  /\ \/ life = "up" /\ Event /\ events' = events + 1
     \/ /\ life = "stopping" /\ ~draining /\ wipe = {NoVideo} /\ UNCHANGED events
        /\ \A w \in Makers : maker[w].pc \in {"off", "cut"}
  /\ life' = "down" /\ waiting' = <<>> /\ draining' = FALSE /\ wipe' = {NoVideo}
  /\ maker' = [w \in Makers |-> IF w = "build" /\ maker[w].pc # "off" THEN [NotMaking EXCEPT !.pc = "cut"] ELSE NotMaking]
  /\ UNCHANGED <<file, sprite, row, cleanup, marker, unowned>>

\* resumeSeekbarBuild starts the build whose marker is stored.
Boot ==
  /\ life = "down"
  /\ life' = "up"
  /\ maker' = [maker EXCEPT !["build"] = IF marker THEN [NotMaking EXCEPT !.pc = "next", !.left = Candidates] ELSE NotMaking]
  /\ UNCHANGED <<file, sprite, row, cleanup, waiting, draining, marker, wipe, unowned, events>>
-----------------------------------------------------------------------------
SpriteNext ==
  \/ \E v \in Videos : Download(v) \/ Replace(v) \/ Delete(v) \/ CleanUp(v) \/ BuildNext(v) \/ Regenerate(v)
  \/ \E w \in Makers : Sample(w) \/ EncodeFails(w) \/ Commit(w) \/ CommitFails(w)
  \/ DrainNext \/ DrainDisabled \/ StartBuild \/ BuildEnds \/ WipeFiles \/ WipeRows
  \/ Shutdown \/ Down \/ Boot

SpriteSpec == SpriteInit /\ [][SpriteNext]_spriteVars
-----------------------------------------------------------------------------
(* Properties.                                                             *)

\* A queued id has a drain goroutine that will come to it: an enqueue that meets a drain on
\* its way out starts another.
QueuedIsDrained == waiting # <<>> => maker["drain"].pc # "off"

\* A sprite file outlives its download only where the outbox will delete it, or where an
\* earlier failure or a wipe had taken its row: a sprite that is finished after the deletion
\* is not published.
OrphansHaveLostTheirRow ==
  \A v \in Videos : sprite[v] # "none" /\ file[v] = "none" => v \in cleanup \cup unowned

\* A build that the end of the process cut off is remembered, so that the next start resumes it.
CutBuildIsResumed == maker["build"].pc = "cut" => marker

\* "wipeSeekbar removes every sprite file and row": none is left when the rows are deleted.
\* A sprite committed between the pages and the DELETE is, and then has no row.
WipeIsComplete == [][WipeRows => \A v \in Videos : sprite'[v] = "none"]_spriteVars

\* Nothing queued, cut off or deleted is forgotten by the sprites.
SpritesAreFollowed == QueuedIsDrained /\ OrphansHaveLostTheirRow /\ CutBuildIsResumed
=============================================================================
