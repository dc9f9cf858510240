----------------------------- MODULE Faststart ------------------------------
(***************************************************************************)
(* The rewriting of videos so that they play before they are complete      *)
(* (faststart_api.go, faststart/handler.go): ffmpeg copies a video to a    *)
(* temporary name beside it, which then takes the place of the original.   *)
(***************************************************************************)
EXTENDS Naturals, FiniteSets

CONSTANTS
  Clips,       \* downloads, each with a path of its own
  Scans,        \* requests that scan; nothing keeps two from running at once
  MaxFaststarts \* bound: files ffmpeg creates

ASSUME FaststartAssumption == MaxFaststarts \in Nat

VARIABLES
  videoAt,   \* Video -> "plain", "moved" (index in front), "part" (cut off), "over" (being
             \* written over, or left so) or "gone"
  catalogued,\* Videos with a row
  tmpOf,     \* Video -> the number of the file under its temporary name, 0 for none
  copies,    \* copies ffmpeg made, in the order it created them: "short", "near" (all but the end), "whole"
  scanner    \* Scan -> its step, its video, the copy it writes, the videos to come

faststartVars == <<videoAt, catalogued, tmpOf, copies, scanner>>

NotCopying == [pc |-> "off", video |-> 0, copy |-> 0, rows |-> {}]
FaststartInit ==
  /\ videoAt = [v \in Clips |-> "plain"] /\ catalogued = Clips /\ tmpOf = [v \in Clips |-> 0]
  /\ copies = <<>> /\ scanner = [s \in Scans |-> NotCopying]

CopyGoto(s, pc) == scanner' = [scanner EXCEPT ![s].pc = pc]
\* The next video of the scan, whatever became of this one.
NextRow(s) == CopyGoto(s, "row")

ScanVideos(s) ==
  /\ scanner[s].pc = "off"
  /\ scanner' = [scanner EXCEPT ![s] = [NotCopying EXCEPT !.pc = "row", !.rows = catalogued]]
  /\ UNCHANGED <<videoAt, catalogued, tmpOf, copies>>

\* A video whose index is in front already, or whose header cannot be read, is left alone.
TakeVideo(s, v) ==
  /\ scanner[s].pc = "row" /\ v \in scanner[s].rows
  /\ scanner' = [scanner EXCEPT ![s].rows = @ \ {v}, ![s].video = v,
                                ![s].pc = IF videoAt[v] = "plain" THEN "clean" ELSE "row"]
  /\ UNCHANGED <<videoAt, catalogued, tmpOf, copies>>

EndScanVideos(s) ==
  /\ scanner[s].pc = "row" /\ scanner[s].rows = {}
  /\ scanner' = [scanner EXCEPT ![s] = NotCopying]
  /\ UNCHANGED <<videoAt, catalogued, tmpOf, copies>>

\* os.Remove(tmp); then ffmpeg opens the name, which another scan may have taken.
CleanTmp(s) ==
  /\ scanner[s].pc = "clean" /\ tmpOf' = [tmpOf EXCEPT ![scanner[s].video] = 0] /\ CopyGoto(s, "open")
  /\ UNCHANGED <<videoAt, catalogued, copies>>

OpenCopy(s) ==
  LET v == scanner[s].video IN
  /\ scanner[s].pc = "open" /\ videoAt[v] # "gone" /\ Cardinality(DOMAIN copies) < MaxFaststarts
  /\ LET file == IF tmpOf[v] = 0 THEN Cardinality(DOMAIN copies) + 1 ELSE tmpOf[v] IN
     /\ copies' = [n \in DOMAIN copies \cup {file} |-> IF n = file THEN "short" ELSE copies[n]]
     /\ tmpOf' = [tmpOf EXCEPT ![v] = file]
     /\ scanner' = [scanner EXCEPT ![s].copy = file, ![s].pc = "write"]
  /\ UNCHANGED <<videoAt, catalogued>>

WriteCopy(s) ==
  LET c == scanner[s].copy IN
  /\ scanner[s].pc = "write" /\ copies[c] # "whole"
  /\ copies' = [copies EXCEPT ![c] = IF @ = "short" THEN "near" ELSE "whole"]
  /\ UNCHANGED <<videoAt, catalogued, tmpOf, scanner>>

\* Mutant: an error of ffmpeg is taken for success when it has written something.
EndsAnyhow(s) == copies[scanner[s].copy] \in {"near", "whole"}

\* ffmpeg ends without an error once it has written all.
Succeeds(s) == copies[scanner[s].copy] = "whole"

CopyEnds(s) ==
  /\ scanner[s].pc = "write" /\ Succeeds(s) /\ CopyGoto(s, "check")
  /\ UNCHANGED <<videoAt, catalogued, tmpOf, copies>>

\* ffmpeg fails, or the request behind the scan is given up, which ends the scan too.
CopyFails(s, givenUp) ==
  /\ scanner[s].pc \in {"open", "write"}
  /\ tmpOf' = [tmpOf EXCEPT ![scanner[s].video] = 0]
  /\ IF givenUp THEN scanner' = [scanner EXCEPT ![s] = NotCopying] ELSE NextRow(s)
  /\ UNCHANGED <<videoAt, catalogued, copies>>

\* Both files are measured: the copy under the name may be another scan's by now.
Similar(v) == tmpOf[v] # 0 /\ copies[tmpOf[v]] # "short"

CheckCopy(s) ==
  LET v == scanner[s].video IN
  /\ scanner[s].pc = "check"
  /\ IF videoAt[v] # "gone" /\ Similar(v) THEN CopyGoto(s, "rename") /\ UNCHANGED tmpOf
     ELSE NextRow(s) /\ tmpOf' = [tmpOf EXCEPT ![v] = 0]
  /\ UNCHANGED <<videoAt, catalogued, copies>>

\* What a copy makes of the video it is renamed to.
Becomes(c) == IF copies[c] = "whole" THEN "moved" ELSE "part"

\* Rename puts the copy in the place of the video, or where it was.
RenameCopy(s) ==
  LET v == scanner[s].video IN
  /\ scanner[s].pc = "rename"
  /\ videoAt' = IF tmpOf[v] = 0 THEN videoAt ELSE [videoAt EXCEPT ![v] = Becomes(tmpOf[v])]
  /\ tmpOf' = [tmpOf EXCEPT ![v] = 0] /\ NextRow(s)
  /\ UNCHANGED <<catalogued, copies>>

\* renameWithRetry, when the target stays locked by readers (Windows): it is emptied, then written.
OverwriteBegins(s) ==
  LET v == scanner[s].video IN
  /\ scanner[s].pc = "rename" /\ tmpOf[v] # 0
  /\ videoAt' = [videoAt EXCEPT ![v] = "over"] /\ CopyGoto(s, "over")
  /\ UNCHANGED <<catalogued, tmpOf, copies>>

OverwriteEnds(s, ok) ==
  LET v == scanner[s].video IN
  /\ scanner[s].pc = "over" /\ NextRow(s)
  /\ videoAt' = IF ok /\ tmpOf[v] # 0 /\ videoAt[v] # "gone" THEN [videoAt EXCEPT ![v] = Becomes(tmpOf[v])] ELSE videoAt
  /\ tmpOf' = [tmpOf EXCEPT ![v] = 0]
  /\ UNCHANGED <<catalogued, copies>>

\* A download is deleted: its row, then its file.
DropRow(v) ==
  /\ v \in catalogued /\ catalogued' = catalogued \ {v} /\ UNCHANGED <<videoAt, tmpOf, copies, scanner>>
DropVideo(v) ==
  /\ v \notin catalogued /\ videoAt[v] # "gone" /\ videoAt' = [videoAt EXCEPT ![v] = "gone"]
  /\ UNCHANGED <<catalogued, tmpOf, copies, scanner>>

\* A crash leaves the temporary names as they are.
FaststartCrash ==
  /\ scanner' = [s \in Scans |-> NotCopying] /\ UNCHANGED <<videoAt, catalogued, tmpOf, copies>>

FaststartNext ==
  \/ \E s \in Scans : \/ ScanVideos(s) \/ EndScanVideos(s) \/ CleanTmp(s) \/ OpenCopy(s) \/ WriteCopy(s)
                      \/ CopyEnds(s) \/ CheckCopy(s) \/ RenameCopy(s) \/ OverwriteBegins(s)
  \/ \E s \in Scans, b \in BOOLEAN : CopyFails(s, b) \/ OverwriteEnds(s, b)
  \/ \E s \in Scans, v \in Clips : TakeVideo(s, v)
  \/ \E v \in Clips : DropRow(v) \/ DropVideo(v)
  \/ FaststartCrash

FaststartSpec == FaststartInit /\ [][FaststartNext]_faststartVars
-----------------------------------------------------------------------------
(* Properties.                                                             *)

\* The video of a download is whole, through failures, cancelled scans and crashes, except while it
\* is written over.  Two scans at a time break it: see the constants of the runs.
VideosStayWhole == \A v \in catalogued : videoAt[v] \in {"plain", "moved", "over"}

\* Refuted: a crash or an error while a video is written over leaves it so.
OverwritingIsDone ==
  (\A s \in Scans : scanner[s].pc # "over") => \A v \in catalogued : videoAt[v] # "over"

\* Refuted: a scan puts the file of a deleted download back.
DeletedStaysGone == [][\A v \in Clips : videoAt[v] = "gone" => videoAt'[v] = "gone"]_faststartVars
=============================================================================
