------------------------------- MODULE Upkeep -------------------------------
(***************************************************************************)
(* The jobs that keep the catalog and the files of the library together    *)
(* (integrity.go, disk_rotator.go, dedup_api.go, file_cleanup.go, and of   *)
(* maintenance_api.go and media_api.go the re-index and the removal of a   *)
(* download whose file a viewer could not open).  They run beside each     *)
(* other and beside downloads, over a disk that may be away for a while.   *)
(* Rows that share a file are of one size; the correction of a stored size *)
(* is left out.                                                            *)
(***************************************************************************)
EXTENDS Naturals, FiniteSets

CONSTANTS
  Entries,     \* messages that may have a row in the catalog
  Files,       \* files, each published once, all of size 1
  Named,       \* File -> the message its name gives to the re-index
  Cap,         \* maxTotalSize
  RotateMost,  \* sweepBatch
  AutoMinRows, \* integrityAutoMinRows
  \* Bounds of the model only: jobs at the same time, and events of the variable of that name.
  JobsMost, EventsMost

ASSUME UpkeepAssumption ==
  /\ Files \subseteq Nat \ {0} /\ IsFiniteSet(Files) /\ Entries \subseteq Nat /\ Named \in [Files -> Entries]
  /\ {Cap, RotateMost, AutoMinRows, JobsMost, EventsMost} \subseteq Nat /\ RotateMost > 0

VARIABLES
  entry,     \* downloads: message -> its file (0: no row), the file its hash is of (0: none), pinned?
  onDisk,      \* File -> "none" yet, "whole", "empty", "locked" (cannot be opened) or "gone"
  mount,     \* the disk: "on", "bare" (an empty directory in its place) or "broken" (errors)
  outbox,    \* tgdl_file_cleanup
  check,     \* the integrity pass
  hashing,   \* the duplicate scan: rows to come and the one it has hashed
  rotation,  \* the disk rotator's pass: its running total; did others delete or replace meanwhile?
  walk,      \* the re-index: the file it has looked at
  chosen,    \* the bulk deletion: ids and the paths read for them
  unopened,  \* files a view could not open, not yet acted on
  owesDrain, \* deletions that have not drained the outbox yet
  overtaken, \* history: rows replaced while the duplicate scan had their old path
  disturbed  \* pins, changes behind the program's back and absences of the disk so far

upkeepVars == <<entry, onDisk, mount, outbox, check, hashing, rotation, walk, chosen, unopened, owesDrain,
                overtaken, disturbed>>

NoFile == [file |-> 0, hash |-> 0, pinned |-> FALSE]
Rows == {k \in Entries : entry[k].file # 0}
OfFiles(fs) == {k \in Rows : entry[k].file \in fs}
InUse == {entry[k].file : k \in Rows}

\* Mutant: every row counts its file.
BytesByRows == Cardinality(Rows)

\* catalogBytesQuery: every stored file once.
CatalogBytes == Cardinality(InUse)

\* What os.Stat tells of a file.
Looks(f) == CASE mount = "on" -> onDisk[f] [] mount = "bare" -> "gone" [] OTHER -> "unknown"

\* Jobs under way, each a goroutine or request of its own; a deletion until it has drained the outbox.
Jobs == {who \in {"sweep", "scan", "rotator", "walk", "operator", "viewer"} :
  CASE who = "sweep" -> check.pc # "off" [] who = "scan" -> hashing.on [] who = "rotator" -> rotation.on
    [] who = "walk" -> walk # 0 [] who = "operator" -> chosen.on [] OTHER -> unopened # {} \/ "viewer" \in owesDrain}
MayBegin == Cardinality(Jobs) < JobsMost

NoCheck == [pc |-> "off", auto |-> FALSE, total |-> 0, rows |-> {}, gone |-> {}, pruned |-> 0]
NoHashing == [on |-> FALSE, rows |-> {}, read |-> <<>>]
NoRotation == [on |-> FALSE, total |-> 0, others |-> FALSE]
NoChoice == [on |-> FALSE, ids |-> {}, paths |-> {}]

\* Rows there were before the models' jobs: unhashed, as a re-index leaves them.
UpkeepInit ==
  /\ entry \in [Entries -> {NoFile} \cup [file : Files, hash : {0}, pinned : {FALSE}]]
  /\ \A k \in Rows : Named[entry[k].file] = k /\ \A f \in Files : Named[f] = k => entry[k].file <= f
  /\ onDisk = [f \in Files |-> IF f \in InUse THEN "whole" ELSE "none"]
  /\ mount = "on" /\ outbox = {} /\ check = NoCheck /\ hashing = NoHashing /\ rotation = NoRotation
  /\ walk = 0 /\ chosen = NoChoice /\ unopened = {} /\ owesDrain = {} /\ overtaken = {} /\ disturbed = 0
-----------------------------------------------------------------------------
(* Downloads and the disk around the jobs.                                 *)

\* Mutant: a row keeps the hash it has.
HashKept(k, f) == IF entry[k].hash = 0 THEN f ELSE entry[k].hash

\* The row takes the hash of what was published.
HashOf(k, f) == f

\* Library.register: a new file, or the file another row has, found whole under the writer lock.
RegisterUpload(k, f) ==
  /\ entry' = [entry EXCEPT ![k] = [file |-> f, hash |-> HashOf(k, f), pinned |-> entry[k].pinned]]
  /\ outbox' = IF entry[k].file \in {0, f} THEN outbox ELSE outbox \cup {entry[k].file}
  /\ overtaken' = IF hashing.on /\ entry[k].file # f /\ (<<k, entry[k].file>> \in hashing.rows \/ hashing.read = <<k, entry[k].file>>)
                  THEN overtaken \cup {k} ELSE overtaken
  /\ rotation' = [rotation EXCEPT !.others = @ \/ (rotation.on /\ k \in Rows)]
  /\ UNCHANGED <<mount, check, hashing, walk, chosen, unopened, owesDrain, disturbed>>

PublishEntry(k, f) ==
  /\ mount = "on" /\ onDisk[f] = "none" /\ Named[f] = k
  /\ onDisk' = [onDisk EXCEPT ![f] = "whole"] /\ RegisterUpload(k, f)

ReuseRow(k, f) ==
  /\ mount = "on" /\ onDisk[f] = "whole" /\ f \in InUse /\ entry[k].file # f
  /\ UNCHANGED onDisk /\ RegisterUpload(k, f)

Disturbs == disturbed < EventsMost /\ disturbed' = disturbed + 1

PinRow(k) ==
  /\ k \in Rows /\ Disturbs /\ entry' = [entry EXCEPT ![k].pinned = ~@]
  /\ UNCHANGED <<onDisk, mount, outbox, check, hashing, rotation, walk, chosen, unopened, owesDrain, overtaken>>

\* Someone removes, truncates, locks or unlocks a file behind the program's back.
TouchFile(f, now) ==
  /\ mount = "on" /\ onDisk[f] \in {"whole", "locked"} /\ now # onDisk[f] /\ Disturbs
  /\ onDisk' = [onDisk EXCEPT ![f] = now]
  /\ UNCHANGED <<entry, mount, outbox, check, hashing, rotation, walk, chosen, unopened, owesDrain, overtaken>>

MountChanges(now) ==
  /\ now # mount /\ (now = "on" \/ (mount = "on" /\ Disturbs))
  /\ mount' = now /\ (now = "on" => UNCHANGED disturbed)
  /\ UNCHANGED <<entry, onDisk, outbox, check, hashing, rotation, walk, chosen, unopened, owesDrain, overtaken>>
-----------------------------------------------------------------------------
(* Deletion.  An id is never used again, so that work on a deleted row     *)
(* finds nothing.                                                          *)

RemoveAssets(ks, files) ==
  /\ entry' = [k \in Entries |-> IF k \in ks THEN NoFile ELSE entry[k]]
  /\ outbox' = outbox \cup files
  /\ hashing' = [hashing EXCEPT !.rows = {r \in @ : r[1] \notin ks}, !.read = IF @ # <<>> /\ @[1] \in ks THEN <<>> ELSE @]
  /\ overtaken' = overtaken \ ks

\* Mutant: the outbox is drained without a look at the catalog.
DrainedBlindly(f) == TRUE

\* A file another row still names is kept.
Unreferenced(f) == f \notin InUse

\* drainFileCleanup, under the writer lock.  A file that is not found counts as removed; one that
\* cannot be removed stays in the outbox.
DrainOutbox(who, stuck) ==
  /\ who \in owesDrain /\ owesDrain' = owesDrain \ {who}
  /\ stuck \subseteq {f \in outbox : Unreferenced(f) /\ Looks(f) \in {"locked", "unknown"}}
  /\ mount = "broken" => stuck = {f \in outbox : Unreferenced(f)}
  /\ outbox' = stuck
  /\ onDisk' = [f \in Files |-> IF f \in outbox \ stuck /\ Unreferenced(f) /\ mount = "on" THEN "gone" ELSE onDisk[f]]
  /\ chosen' = IF who = "operator" THEN NoChoice ELSE chosen
  /\ UNCHANGED <<entry, mount, check, hashing, rotation, walk, unopened, overtaken, disturbed>>

\* One bulk deletion at a time; the paths of its ids are read before it begins.
ChooseRows(ks) ==
  /\ ~chosen.on /\ MayBegin /\ ks # {} /\ ks \subseteq Rows
  /\ chosen' = [on |-> TRUE, ids |-> ks, paths |-> {entry[k].file : k \in ks}]
  /\ UNCHANGED <<entry, onDisk, mount, outbox, check, hashing, rotation, walk, unopened, owesDrain, overtaken, disturbed>>

\* deleteRows: by id or by path.
DeleteChosen ==
  /\ chosen.on /\ "operator" \notin owesDrain
  /\ LET ks == (chosen.ids \cap Rows) \cup OfFiles(chosen.paths) IN
     /\ RemoveAssets(ks, {entry[k].file : k \in ks})
     /\ rotation' = [rotation EXCEPT !.others = @ \/ (rotation.on /\ ks # {})]
  /\ owesDrain' = owesDrain \cup {"operator"}
  /\ UNCHANGED <<onDisk, mount, check, walk, chosen, unopened, disturbed>>

\* handleFile cannot open the file of a row, in a directory that is there.
ViewFails(f) ==
  /\ f \in InUse /\ mount = "on" /\ onDisk[f] \in {"gone", "locked"} /\ unopened = {} /\ "viewer" \notin owesDrain /\ MayBegin
  /\ unopened' = unopened \cup {f}
  /\ UNCHANGED <<entry, onDisk, mount, outbox, check, hashing, rotation, walk, chosen, owesDrain, overtaken, disturbed>>

\* autoPruneMissingFile deletes by path, whatever the path holds by now.
ViewPrunes(f) ==
  /\ f \in unopened /\ unopened' = unopened \ {f} /\ "viewer" \notin owesDrain
  /\ RemoveAssets(OfFiles({f}), IF f \in InUse THEN {f} ELSE {})
  /\ rotation' = [rotation EXCEPT !.others = @ \/ (rotation.on /\ f \in InUse)]
  /\ owesDrain' = owesDrain \cup {"viewer"}
  /\ UNCHANGED <<onDisk, mount, check, walk, chosen, disturbed>>
-----------------------------------------------------------------------------
(* The integrity sweep.                                                    *)

\* One pass at a time; it does nothing while the downloads directory cannot be read.
BeginSweep(auto) ==
  /\ check.pc = "off" /\ MayBegin /\ mount # "broken" /\ Rows # {}
  /\ check' = [NoCheck EXCEPT !.pc = "scan", !.auto = auto, !.total = Cardinality(Rows), !.rows = Rows]
  /\ UNCHANGED <<entry, onDisk, mount, outbox, hashing, rotation, walk, chosen, unopened, owesDrain, overtaken, disturbed>>

\* Pages of rows are read in descending order of ids, then their files are looked at.
SweepRow(k) ==
  /\ check.pc = "scan" /\ k \in check.rows /\ \A other \in check.rows : other <= k
  /\ check' = [check EXCEPT !.rows = @ \ {k},
       !.gone = IF k \in Rows /\ Looks(entry[k].file) \in {"gone", "empty"} THEN @ \cup {<<k, entry[k].file>>} ELSE @]
  /\ UNCHANGED <<entry, onDisk, mount, outbox, hashing, rotation, walk, chosen, unopened, owesDrain, overtaken, disturbed>>

\* Mutant: the automatic pass prunes whatever it found.
PruneAll(n) == FALSE

\* The automatic pass refuses when more than half of the library looks missing.
TooMany(n) == check.auto /\ n >= AutoMinRows /\ 2 * n > check.total

EndSweepScan ==
  /\ check.pc = "scan" /\ check.rows = {}
  /\ check' = IF check.gone = {} \/ TooMany(Cardinality(check.gone)) THEN NoCheck ELSE [check EXCEPT !.pc = "prune"]
  /\ UNCHANGED <<entry, onDisk, mount, outbox, hashing, rotation, walk, chosen, unopened, owesDrain, overtaken, disturbed>>

\* Mutant: the verdict of the scan is final.
AsScanned(k, f) == entry[k].file = f

\* pruneMissingRows looks again, at the file and at the row, under the writer lock.
StillMissing(k, f) == entry[k].file = f /\ Looks(f) \in {"gone", "empty"}

\* A chunk of rows is one transaction; here, of one row.
PruneRow(k, f) ==
  /\ check.pc = "prune" /\ <<k, f>> \in check.gone
  /\ LET ks == IF StillMissing(k, f) THEN {k} ELSE {}
         left == check.gone \ {<<k, f>>}
     IN  /\ RemoveAssets(ks, {})
         /\ check' = IF left = {} THEN NoCheck
                     ELSE [check EXCEPT !.gone = left, !.pruned = @ + Cardinality(ks)]
         /\ rotation' = [rotation EXCEPT !.others = @ \/ (rotation.on /\ ks # {})]
  /\ UNCHANGED <<onDisk, mount, walk, chosen, unopened, owesDrain, disturbed>>
-----------------------------------------------------------------------------
(* The disk rotator.                                                       *)

BeginRotation ==
  /\ ~rotation.on /\ MayBegin /\ CatalogBytes > Cap
  /\ rotation' = [on |-> TRUE, total |-> CatalogBytes, others |-> FALSE]
  /\ UNCHANGED <<entry, onDisk, mount, outbox, check, hashing, walk, chosen, unopened, owesDrain, overtaken, disturbed>>

Rotatable == {k \in Rows : ~entry[k].pinned}

\* Files no row names once ks are gone.
Freed(ks) == Cardinality(InUse \ {entry[k].file : k \in Rows \ ks})

\* One transaction: rows in order until the running total is down to the cap, or the batch full.
\* The order (oldest first) is left open.
RotateRows(ks) ==
  /\ rotation.on /\ "rotator" \notin owesDrain /\ rotation.total > Cap
  /\ ks \subseteq Rotatable /\ ks # {} /\ Cardinality(ks) <= RotateMost
  /\ \E last \in ks : rotation.total > Cap + Freed(ks \ {last})
  /\ \/ Cardinality(ks) = RotateMost \/ ks = Rotatable \/ rotation.total <= Cap + Freed(ks)
  /\ RemoveAssets(ks, {entry[k].file : k \in ks})
  /\ rotation' = [rotation EXCEPT !.total = IF @ > Freed(ks) THEN @ - Freed(ks) ELSE 0]
  /\ owesDrain' = owesDrain \cup {"rotator"}
  /\ UNCHANGED <<onDisk, mount, check, walk, chosen, unopened, disturbed>>

\* Down to the cap, nothing left that may go, the budget of deletions used up, or an error.
EndRotation ==
  /\ rotation.on /\ "rotator" \notin owesDrain
  /\ rotation' = NoRotation
  /\ UNCHANGED <<entry, onDisk, mount, outbox, check, hashing, walk, chosen, unopened, owesDrain, overtaken, disturbed>>
-----------------------------------------------------------------------------
(* The duplicate scan.                                                     *)

BeginDedupScan ==
  /\ ~hashing.on /\ MayBegin
  /\ hashing' = [on |-> TRUE, rows |-> {<<k, entry[k].file>> : k \in {j \in Rows : entry[j].hash = 0}}, read |-> <<>>]
  /\ UNCHANGED <<entry, onDisk, mount, outbox, check, rotation, walk, chosen, unopened, owesDrain, overtaken, disturbed>>

HashRow(k, f) ==
  /\ hashing.on /\ hashing.read = <<>> /\ <<k, f>> \in hashing.rows /\ \A r \in hashing.rows : k <= r[1]
  /\ hashing' = [hashing EXCEPT !.rows = @ \ {<<k, f>>}, !.read = IF Looks(f) \in {"whole", "empty"} THEN <<k, f>> ELSE <<>>]
  /\ UNCHANGED <<entry, onDisk, mount, outbox, check, rotation, walk, chosen, unopened, owesDrain, overtaken, disturbed>>

\* The hash goes to the row of that id, whatever file it has now.
StoreHash ==
  /\ hashing.read # <<>>
  /\ entry' = [entry EXCEPT ![hashing.read[1]].hash = hashing.read[2]]
  /\ hashing' = [hashing EXCEPT !.read = <<>>]
  /\ UNCHANGED <<onDisk, mount, outbox, check, rotation, walk, chosen, unopened, owesDrain, overtaken, disturbed>>

\* All rows seen, or stopped.
EndDedupScan ==
  /\ hashing.on /\ hashing.read = <<>> /\ hashing' = NoHashing
  /\ UNCHANGED <<entry, onDisk, mount, outbox, check, rotation, walk, chosen, unopened, owesDrain, overtaken, disturbed>>
-----------------------------------------------------------------------------
(* The re-index: a look at each file, then a row unless the message its    *)
(* name gives has one.                                                     *)

WalkFile(f) ==
  /\ walk = 0 /\ MayBegin /\ Looks(f) \in {"whole", "locked"} /\ walk' = f
  /\ UNCHANGED <<entry, onDisk, mount, outbox, check, hashing, rotation, chosen, unopened, owesDrain, overtaken, disturbed>>

IngestReindexFile ==
  /\ walk # 0 /\ walk' = 0
  /\ entry' = IF entry[Named[walk]].file # 0 THEN entry ELSE [entry EXCEPT ![Named[walk]] = [NoFile EXCEPT !.file = walk]]
  /\ UNCHANGED <<onDisk, mount, outbox, check, hashing, rotation, chosen, unopened, owesDrain, overtaken, disturbed>>

UpkeepNext ==
  \/ \E k \in Entries, f \in Files : PublishEntry(k, f) \/ ReuseRow(k, f) \/ PruneRow(k, f) \/ HashRow(k, f)
  \/ \E k \in Entries : PinRow(k) \/ SweepRow(k)
  \/ \E f \in Files, now \in {"whole", "empty", "locked", "gone"} : TouchFile(f, now)
  \/ \E now \in {"on", "bare", "broken"} : MountChanges(now)
  \/ \E who \in owesDrain, stuck \in SUBSET outbox : DrainOutbox(who, stuck)
  \/ \E ks \in SUBSET Rows : ChooseRows(ks) \/ RotateRows(ks)
  \/ \E f \in Files : ViewFails(f) \/ ViewPrunes(f) \/ WalkFile(f)
  \/ \E auto \in BOOLEAN : BeginSweep(auto)
  \/ DeleteChosen \/ EndSweepScan \/ BeginRotation \/ EndRotation
  \/ BeginDedupScan \/ StoreHash \/ EndDedupScan \/ IngestReindexFile

UpkeepSpec == UpkeepInit /\ [][UpkeepNext]_upkeepVars
-----------------------------------------------------------------------------
(* Properties.                                                             *)

\* Rows that a step removes.
Removed == {k \in Rows : entry'[k].file = 0}

\* An automatic pass takes at most half of the library, or fewer rows than the floor, however the
\* disk comes and goes between its scan and its deletions.
AutoPruneIsLimited == check.auto /\ check.pc = "prune" =>
  LET most == check.pruned + Cardinality(check.gone) IN most < AutoMinRows \/ 2 * most <= check.total

\* No row goes while its file can be seen to be there: not one that came back since the scan.
PrunesMissing == check.pc = "prune" /\ check' # check => \A k \in Removed : Looks(entry[k].file) \in {"gone", "empty"}

\* The rotator frees no more than the cap asks for, files shared by rows counted once, unless
\* others deleted or replaced rows during its pass; and it stays off pinned rows.
RotatesAsNeeded == "rotator" \in owesDrain' \ owesDrain =>
  /\ \A k \in Removed : ~entry[k].pinned
  /\ rotation.others \/ \E last \in Removed : Cardinality({entry[k].file : k \in Rows \ (Removed \ {last})}) > Cap

\* A file is never removed under a row that names it.
KeepsNamedFiles == ~(owesDrain \subseteq owesDrain') => \A f \in InUse : onDisk'[f] = onDisk[f]

\* The hash of a row is of its file, unless it was replaced while the duplicate scan read it.
HashIsTrue == \A k \in Rows : entry[k].hash \in {0, entry[k].file} \/ k \in overtaken

\* Upkeep costs no download that is there and wanted.
UpkeepIsCareful == [][/\ AutoPruneIsLimited' /\ HashIsTrue'
                      /\ PrunesMissing /\ RotatesAsNeeded /\ KeepsNamedFiles]_upkeepVars

\* Refuted: the duplicate scan stores the hash of a file that has been replaced.
HashIsOfFile == \A k \in Rows : entry[k].hash \in {0, entry[k].file}

\* Refuted: a view that cannot open a file deletes it, though it is there.
ViewPrunesMissing == []["viewer" \in owesDrain' \ owesDrain => \A k \in Removed : onDisk[entry[k].file] = "gone"]_upkeepVars

\* Refuted: a re-index brings back a deleted download while its file waits in the outbox.
DeletedStaysAway == [][\A f \in outbox : f \in InUse' => f \in InUse]_upkeepVars

\* Refuted: the rotator's running total misses what others delete during its pass.
RotatesNoMore == []["rotator" \in owesDrain' \ owesDrain =>
  \E last \in Removed : Cardinality({entry[k].file : k \in Rows \ (Removed \ {last})}) > Cap]_upkeepVars
=============================================================================
