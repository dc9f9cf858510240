------------------------------- MODULE Thumbs -------------------------------
(***************************************************************************)
(* The thumbnails of the gallery (media_api.go, thumbs_api.go,             *)
(* thumbs/handler.go, download/derived.go): a tile drawn while it is       *)
(* viewed, the build of all tiles, the rebuild of one, the wipe, and the   *)
(* journal that clears a tile when its download is replaced or deleted.    *)
(* ffmpeg writes to a temporary name, which the renderer then renames.     *)
(***************************************************************************)
EXTENDS Naturals, Sequences, FiniteSetsExt

CONSTANTS
  Tiles,       \* downloads, by id
  Viewers,     \* requests for a tile that run at the same time
  Rebuilders,  \* requests to rebuild one tile
  NoTask,
  \* Bounds of the model only.
  MaxSources, MaxRenders

ASSUME ThumbsAssumption ==
  /\ Tiles \subseteq Nat \ {0} /\ NoTask \notin Viewers \cup Rebuilders
  /\ {MaxSources, MaxRenders} \subseteq Nat

VARIABLES
  source,     \* Tile -> which of its files the download has, 0 for a deleted download
  thumb,      \* Tile -> the rendering in the cache, 0 for none
  scratch,    \* <<Tile, kind of name>> -> the rendering under the temporary name
  rendering,  \* renderings in the order they were opened: whose file, complete?
  stale,      \* tgdl_derived_cleanup: tiles to remove from the cache
  missed,     \* thumbMisses: Tile -> the file that gave no thumbnail
  painter,    \* Task -> what it renders and how far it is
  toBuild,    \* is a build running, and the rows it has not come to
  drawn,      \* history: Tile -> the file of its download when the tile was published
  undrawable  \* history: files a rendering of which, given up by nobody, yielded nothing

thumbVars == <<source, thumb, scratch, rendering, stale, missed, painter, toBuild, drawn, undrawable>>

Builder == NoTask
Painters == Viewers \cup Rebuilders \cup {Builder}
Resting == [pc |-> "off", tile |-> 0, of |-> 0, file |-> 0]
NoBuild == [on |-> FALSE, rows |-> {}]
TileNames == Tiles \X {"view", "one", "build"}

ThumbsInit ==
  /\ source = [i \in Tiles |-> 1] /\ thumb = [i \in Tiles |-> 0] /\ scratch = [n \in TileNames |-> 0]
  /\ rendering = <<>> /\ stale = {} /\ missed = [i \in Tiles |-> 0]
  /\ painter = [t \in Painters |-> Resting] /\ toBuild = NoBuild
  /\ drawn = [i \in Tiles |-> 0] /\ undrawable = {}
-----------------------------------------------------------------------------
(* The three ways a rendering begins.                                      *)

\* Mutant: the build writes to the name the viewers use.
SharedName(t) == IF t \in Rebuilders THEN "one" ELSE "view"

\* One temporary name for all views of a tile, one for its rebuilds; a build takes a new one.
Kind(t) == IF t \in Viewers THEN "view" ELSE IF t \in Rebuilders THEN "one" ELSE "build"
Name(t) == <<painter[t].tile, Kind(t)>>

Paint(t, i, of) == painter' = [painter EXCEPT ![t] = [Resting EXCEPT !.pc = "clean", !.tile = i, !.of = of]]
Rest(t) == painter' = [painter EXCEPT ![t] = Resting]

\* A cached tile is served as it is; a file known to give none is not tried until it changes.
ViewTile(t, i) ==
  /\ painter[t].pc = "off" /\ source[i] # 0 /\ thumb[i] = 0 /\ missed[i] # source[i]
  /\ missed' = [missed EXCEPT ![i] = 0] /\ Paint(t, i, source[i])
  /\ UNCHANGED <<source, thumb, scratch, rendering, stale, toBuild, drawn, undrawable>>

\* One build at a time; it reads its rows once.
StartThumbBuild ==
  /\ ~toBuild.on
  /\ toBuild' = [on |-> TRUE, rows |-> {<<i, source[i]>> : i \in {j \in Tiles : source[j] # 0}}]
  /\ UNCHANGED <<source, thumb, scratch, rendering, stale, missed, painter, drawn, undrawable>>

BuildNextTile ==
  /\ toBuild.on /\ painter[Builder].pc = "off" /\ toBuild.rows # {}
  /\ LET row == CHOOSE r \in toBuild.rows : \A other \in toBuild.rows : other[1] <= r[1]
     IN  /\ toBuild' = [toBuild EXCEPT !.rows = @ \ {row}]
         /\ IF thumb[row[1]] # 0 THEN UNCHANGED painter ELSE Paint(Builder, row[1], row[2])
  /\ UNCHANGED <<source, thumb, scratch, rendering, stale, missed, drawn, undrawable>>

\* All rows seen, or cancelled between two of them.
EndThumbBuild ==
  /\ toBuild.on /\ painter[Builder].pc = "off"
  /\ toBuild' = NoBuild
  /\ UNCHANGED <<source, thumb, scratch, rendering, stale, missed, painter, drawn, undrawable>>

\* The cached tile is removed before the row is read.
RebuildTile(t, i) ==
  /\ painter[t].pc = "off"
  /\ thumb' = [thumb EXCEPT ![i] = 0]
  /\ painter' = [painter EXCEPT ![t] = [Resting EXCEPT !.pc = "row", !.tile = i]]
  /\ UNCHANGED <<source, scratch, rendering, stale, missed, toBuild, drawn, undrawable>>

ReadTileRow(t) ==
  /\ painter[t].pc = "row"
  /\ LET i == painter[t].tile IN IF source[i] = 0 THEN Rest(t) ELSE Paint(t, i, source[i])
  /\ UNCHANGED <<source, thumb, scratch, rendering, stale, missed, toBuild, drawn, undrawable>>
-----------------------------------------------------------------------------
(* Rendering.                                                              *)

RemoveScratch(t) ==
  /\ painter[t].pc = "clean"
  /\ scratch' = [scratch EXCEPT ![Name(t)] = 0]
  /\ painter' = [painter EXCEPT ![t].pc = "open"]
  /\ UNCHANGED <<source, thumb, rendering, stale, missed, toBuild, drawn, undrawable>>

\* ffmpeg opens the name: a new file, or the one another renderer has put there meanwhile.
OpenScratch(t) ==
  /\ painter[t].pc = "open" /\ Len(rendering) < MaxRenders
  /\ LET there == scratch[Name(t)]
         fresh == [of |-> painter[t].of, whole |-> FALSE]
         file == IF there = 0 THEN Len(rendering) + 1 ELSE there
     IN  /\ rendering' = IF there = 0 THEN Append(rendering, fresh) ELSE [rendering EXCEPT ![there] = fresh]
         /\ scratch' = [scratch EXCEPT ![Name(t)] = file]
         /\ painter' = [painter EXCEPT ![t].pc = "write", ![t].file = file]
  /\ UNCHANGED <<source, thumb, stale, missed, toBuild, drawn, undrawable>>

\* The name must hold something now: a wipe meanwhile makes this a failed rendering.
Rendered(t) ==
  /\ painter[t].pc = "write" /\ scratch[Name(t)] # 0
  /\ rendering' = [rendering EXCEPT ![painter[t].file].whole = TRUE]
  /\ painter' = [painter EXCEPT ![t].pc = "publish"]
  /\ UNCHANGED <<source, thumb, scratch, stale, missed, toBuild, drawn, undrawable>>

\* Mutant: a view that was given up counts like one that failed.
EitherWay(t, givenUp) == t \in Viewers

\* Only views remember a file, and only when ffmpeg failed by itself.
Remembered(t, givenUp) == t \in Viewers /\ ~givenUp

\* Nothing was rendered, or the request or build behind it was given up.  A file that has gone is
\* not remembered: add() looks for it first.
RenderEnds(t, givenUp) ==
  /\ painter[t].pc \in {"open", "write"}
  /\ scratch' = [scratch EXCEPT ![Name(t)] = 0] /\ Rest(t)
  /\ LET i == painter[t].tile IN
     /\ missed' = IF Remembered(t, givenUp) /\ source[i] = painter[t].of
                  THEN [missed EXCEPT ![i] = painter[t].of] ELSE missed
     /\ undrawable' = IF givenUp THEN undrawable ELSE undrawable \cup {<<i, painter[t].of>>}
  /\ toBuild' = IF t = Builder /\ givenUp THEN NoBuild ELSE toBuild
  /\ UNCHANGED <<source, thumb, rendering, stale, drawn>>

\* Whatever lies under the name goes into the cache; nothing there, nothing happens.
PublishTile(t) ==
  /\ painter[t].pc = "publish"
  /\ LET i == painter[t].tile
         file == scratch[Name(t)]
     IN  /\ thumb' = IF file = 0 THEN thumb ELSE [thumb EXCEPT ![i] = file]
         /\ drawn' = IF file = 0 THEN drawn ELSE [drawn EXCEPT ![i] = source[i]]
         /\ scratch' = [scratch EXCEPT ![Name(t)] = 0]
  /\ Rest(t)
  /\ UNCHANGED <<source, rendering, stale, missed, toBuild, undrawable>>

\* runThumbRebuild: the wipe of all kinds takes the temporary files with it.
WipeTile(i, all) ==
  /\ thumb' = [thumb EXCEPT ![i] = 0]
  /\ scratch' = IF all THEN [n \in TileNames |-> IF n[1] = i THEN 0 ELSE scratch[n]] ELSE scratch
  /\ UNCHANGED <<source, rendering, stale, missed, painter, toBuild, drawn, undrawable>>
-----------------------------------------------------------------------------
(* The downloads behind the tiles.                                         *)

\* Mutant: only a deletion clears the cache.
DeletedOnly(i, now) == IF now = 0 THEN stale \cup {i} ELSE stale

\* InvalidateDerived, in the transaction that replaces or deletes the download.
Invalidated(i, now) == stale \cup {i}

ReplaceSource(i) ==
  /\ source[i] \in 1..MaxSources - 1
  /\ source' = [source EXCEPT ![i] = @ + 1] /\ stale' = Invalidated(i, source[i] + 1)
  /\ UNCHANGED <<thumb, scratch, rendering, missed, painter, toBuild, drawn, undrawable>>

DeleteSource(i) ==
  /\ source[i] # 0
  /\ source' = [source EXCEPT ![i] = 0] /\ stale' = Invalidated(i, 0)
  /\ UNCHANGED <<thumb, scratch, rendering, missed, painter, toBuild, drawn, undrawable>>

\* CleanDerived is one transaction; when a removal fails it is rolled back, what it removed stays removed.
CleanDerived(removed, ok) ==
  /\ stale # {} /\ removed \subseteq stale /\ (ok => removed = stale)
  /\ thumb' = [i \in Tiles |-> IF i \in removed THEN 0 ELSE thumb[i]]
  /\ stale' = IF ok THEN {} ELSE stale
  /\ UNCHANGED <<source, scratch, rendering, missed, painter, toBuild, drawn, undrawable>>

\* Nothing is served before Recover has drained the journal.  A build never meets its old names.
ThumbsRestart ==
  /\ thumb' = [i \in Tiles |-> IF i \in stale THEN 0 ELSE thumb[i]] /\ stale' = {}
  /\ scratch' = [n \in TileNames |-> IF n[2] = "build" THEN 0 ELSE scratch[n]]
  /\ missed' = [i \in Tiles |-> 0] /\ painter' = [t \in Painters |-> Resting] /\ toBuild' = NoBuild
  /\ UNCHANGED <<source, rendering, drawn, undrawable>>

ThumbsNext ==
  \/ \E t \in Viewers, i \in Tiles : ViewTile(t, i)
  \/ StartThumbBuild \/ BuildNextTile \/ EndThumbBuild \/ ThumbsRestart
  \/ \E t \in Rebuilders, i \in Tiles : RebuildTile(t, i)
  \/ \E t \in Rebuilders : ReadTileRow(t)
  \/ \E t \in Painters : RemoveScratch(t) \/ OpenScratch(t) \/ Rendered(t) \/ PublishTile(t)
  \/ \E t \in Painters, givenUp \in BOOLEAN : RenderEnds(t, givenUp)
  \/ \E i \in Tiles, all \in BOOLEAN : WipeTile(i, all)
  \/ \E i \in Tiles : ReplaceSource(i) \/ DeleteSource(i)
  \/ \E removed \in SUBSET stale, ok \in BOOLEAN : CleanDerived(removed, ok)

ThumbsSpec == ThumbsInit /\ [][ThumbsNext]_thumbVars
-----------------------------------------------------------------------------
(* Properties.                                                             *)

\* The cache holds complete renderings only, whatever was cancelled, wiped or cut by a crash.
\* Two views of one tile break it: see the constants of the runs.
TilesAreWhole == \A i \in Tiles : thumb[i] # 0 => rendering[thumb[i]].whole

\* A tile shows the file of its download, is journalled for removal, or was published late: its
\* rendering had begun before the download was replaced or deleted.
TilesAreCurrent ==
  \A i \in Tiles : thumb[i] # 0 =>
    LET of == rendering[thumb[i]].of IN of = source[i] \/ i \in stale \/ of # drawn[i]

\* A file is refused only after a rendering of it yielded nothing although nobody gave it up.
MissesAreEarned == \A i \in Tiles : missed[i] # 0 => <<i, missed[i]>> \in undrawable

\* The cache never serves half a picture, never a removed one, never refuses an untried one.
ThumbsAreSound == TilesAreWhole /\ TilesAreCurrent /\ MissesAreEarned

\* Refuted: a rendering under way when its download is replaced publishes the old picture.
TileShowsFile == \A i \in Tiles : thumb[i] # 0 => rendering[thumb[i]].of = source[i] \/ i \in stale
=============================================================================
