------------------------ MODULE MCMediaLibraryIngest ------------------------
(***************************************************************************)
(* The library, and what works on its entries beside the ingestion, for    *)
(* TLC.  The parts share no state: a behaviour is of the part its first    *)
(* state names.                                                            *)
(***************************************************************************)
EXTENDS MCMediaLibrary, Thumbs, Faststart, Upkeep

VARIABLE part

\* The file a message was published as.
UpkeepNamed == [f \in Files |-> f]

LibraryInit ==
  /\ part \in {"library", "thumbs", "faststart", "upkeep"}
  /\ Init /\ ThumbsInit /\ FaststartInit /\ UpkeepInit
  /\ part # "upkeep" => entry = [k \in Entries |-> NoFile]

LibraryNext ==
  /\ UNCHANGED part
  /\ IF part = "library" THEN Next ELSE UNCHANGED vars
  /\ IF part = "thumbs" THEN ThumbsNext ELSE UNCHANGED thumbVars
  /\ IF part = "faststart" THEN FaststartNext ELSE UNCHANGED faststartVars
  /\ IF part = "upkeep" THEN UpkeepNext ELSE UNCHANGED upkeepVars

LibrarySpec == LibraryInit /\ [][LibraryNext]_<<vars, thumbVars, faststartVars, upkeepVars, part>>

\* What is computed from downloads: tiles, and videos that play early.
DerivedIsSound == ThumbsAreSound /\ VideosStayWhole
=============================================================================
