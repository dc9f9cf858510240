---------------------------- MODULE MediaLibrary ----------------------------
(***************************************************************************)
(* The media library: ingestion of a message's media into the catalog      *)
(* (download/library.go, manager.go), the publication journal and its      *)
(* recovery at startup (recovery.go), the durable file-cleanup outbox and  *)
(* everything that removes catalog entries (app/file_cleanup.go, rescue.go,*)
(* disk_rotator.go, integrity.go), and rescue receipts (rescue/store.go,   *)
(* app/rescue_ingest.go).                                                  *)
(*                                                                         *)
(* A path is the number of the ingestion that chose it: destinations are   *)
(* random and never reused.  A file's bytes are those of the media it was  *)
(* downloaded for.  SQLite transactions and library calls are atomic.      *)
(***************************************************************************)
EXTENDS Naturals, Sequences, FiniteSets

CONSTANTS
    Messages,
    Media,           \* Telegram media identities
    Carries,         \* Message -> the identities its versions carry
    Bytes,           \* Media -> content
    RescueMessages,  \* messages of chats in rescue mode
    SkipModes,       \* the values of Item.SkipDuplicates in use
    Workers,         \* ingestions in flight
    Janitors,        \* requests and sweepers that remove entries
    None,
    \* Bounds of the model only.
    MaxIngests, MaxFailures, MaxCrashes, MaxLosses

ASSUME LibraryAssumption ==
    /\ Carries \in [Messages -> SUBSET Media] /\ DOMAIN Bytes = Media
    /\ RescueMessages \subseteq Messages /\ SkipModes \subseteq BOOLEAN
    /\ None \notin Media \cup Messages
    /\ {MaxIngests, MaxFailures, MaxCrashes, MaxLosses} \subseteq Nat

VARIABLES
    rows,      \* downloads: Message -> its entry
    gens,      \* tgdl_message_generations
    item,      \* path -> what was to be published there
    journal,   \* paths in tgdl_ingest_files
    summed,    \* journalled paths whose sha256 is recorded
    files,     \* published files
    parts,     \* partial files
    cleanup,   \* tgdl_file_cleanup
    receipts,  \* tgdl_rescue_messages: "none", "pending" or "rescued"
    expired,   \* messages past their rescue deadline
    task,      \* Worker -> its ingestion
    janitor,   \* Janitor -> "idle" or "drain"
    system,    \* "down", "recovering" or "up", and the entry being recovered
    lost,      \* files removed behind the program's back
    acked,     \* history: Message -> media its last successful ingestion settled
    promised,  \* history: <<message, bytes>> kept because the source is deleted
    spent      \* bounds used

disk == <<files, parts, lost>>
journals == <<item, journal, summed>>
rescue == <<receipts, expired>>
history == <<acked, promised>>
vars == <<rows, gens, item, journal, summed, files, parts, cleanup, receipts, expired,
          task, janitor, system, lost, acked, promised, spent>>

Paths == 1..MaxIngests
NoEntry == [path |-> 0, media |-> None, gen |-> 0,
            pending |-> FALSE, rescued |-> FALSE, pinned |-> FALSE]
Idle == [pc |-> "off", stage |-> "identity", msg |-> None, media |-> None, gen |-> 0,
         skip |-> FALSE, path |-> 0, cand |-> {}, pick |-> 0, after |-> "off"]
Booting(pc, p) == [state |-> "recovering", pc |-> pc, path |-> p]
Running == [state |-> "up", pc |-> "next", path |-> 0]
Stopped == [state |-> "down", pc |-> "next", path |-> 0]

Has(m) == rows[m] # NoEntry
Owned(p) == \E m \in Messages : Has(m) /\ rows[m].path = p
Same(a, b) == Bytes[a] = Bytes[b]

Init ==
    /\ rows = [m \in Messages |-> NoEntry] /\ gens = [m \in Messages |-> 0]
    /\ item = <<>> /\ journal = {} /\ summed = {} /\ files = {} /\ parts = {}
    /\ cleanup = {} /\ receipts = [m \in Messages |-> "none"] /\ expired = {}
    /\ task = [w \in Workers |-> Idle] /\ janitor = [j \in Janitors |-> "idle"]
    /\ system = Running /\ lost = {}
    /\ acked = [m \in Messages |-> None] /\ promised = {}
    /\ spent = [failures |-> 0, crashes |-> 0, losses |-> 0, begun |-> 0]
-----------------------------------------------------------------------------
(* Ingest: flights, lookups and reuse.                                     *)

Up == system.state = "up"
At(w, pc) == Up /\ task[w].pc = pc
Goto(w, pc) == task' = [task EXCEPT ![w].pc = pc]
End(w) == task' = [task EXCEPT ![w] = Idle]

HoldsMessage(w) == task[w].pc \notin {"off", "drain"}
HoldsIdentity(w) == HoldsMessage(w) /\ ~(task[w].pc = "enter" /\ task[w].stage = "identity")
HoldsContent(w) == HoldsMessage(w) /\ task[w].stage = "content" /\ task[w].pc # "enter"

\* rescue.Observe: a permanent entry is never converted, a deadline never moves.
Observed(m) ==
    IF m \in RescueMessages /\ receipts[m] = "none" /\ ~(Has(m) /\ ~rows[m].pending)
    THEN [receipts EXCEPT ![m] = "pending"] ELSE receipts

\* The message flight is taken, then the message's next generation.
Begin(w, m, media, skip) ==
    /\ At(w, "off") /\ spent.begun < MaxIngests
    /\ \A v \in Workers : HoldsMessage(v) => task[v].msg # m
    /\ receipts' = Observed(m)
    /\ gens' = [gens EXCEPT ![m] = @ + 1]
    /\ task' = [task EXCEPT ![w] = [Idle EXCEPT !.pc = "enter", !.msg = m, !.media = media,
                                               !.gen = gens[m] + 1, !.skip = skip]]
    /\ spent' = [spent EXCEPT !.begun = @ + 1]
    /\ UNCHANGED <<rows, journals, disk, cleanup, expired, janitor, system, history>>

\* Another ingestion holds the flight w asks for.
Flying(w) ==
    \E v \in Workers \ {w} :
        IF task[w].stage = "identity"
        THEN HoldsIdentity(v) /\ task[v].media = task[w].media
        ELSE HoldsContent(v) /\ Same(task[v].media, task[w].media)

Landed(w) ==
    /\ At(w, "enter")
    /\ Goto(w, "existing")
    /\ UNCHANGED <<rows, gens, journals, disk, cleanup, rescue, janitor, system, history, spent>>

\* Mutant: media with the same content is not coalesced.
EnterAlways(w) == Landed(w)
\* Mutant: the content flight shares its key with the identity flight the caller holds.
EnterSelf(w) == task[w].stage = "identity" /\ ~Flying(w) /\ Landed(w)

\* One flight per identity, then one per content.
Enter(w) == ~Flying(w) /\ Landed(w)

\* Paths of the entries that match by identity, and by hash once the bytes are here.
Matching(w) ==
    {rows[n].path : n \in {k \in Messages : Has(k) /\
        IF task[w].stage = "identity" THEN rows[k].media = task[w].media
                                      ELSE Same(rows[k].media, task[w].media)}}

\* The source was deleted: the message's media has to be kept.
Promised(m, media) ==
    {q \in promised : q[1] # m} \cup
        (IF receipts[m] = "rescued" THEN {<<m, Bytes[media]>>} ELSE {})

\* With SkipDuplicates, a new message is skipped if a matching file is there.
Existing(w) ==
    LET t == task[w]
        found == t.skip /\ ~Has(t.msg) /\ Matching(w) \cap files # {} IN
    /\ At(w, "existing")
    /\ IF ~found THEN Goto(w, "reuse") /\ UNCHANGED history
       ELSE /\ IF t.stage = "identity" THEN End(w) ELSE Goto(w, "redundant")
            /\ acked' = [acked EXCEPT ![t.msg] = t.media]
            /\ promised' = Promised(t.msg, t.media)
    /\ UNCHANGED <<rows, gens, journals, disk, cleanup, rescue, janitor, system, spent>>

\* A readable candidate is registered; without one the media is downloaded, and what was
\* downloaded is registered.
Choose(w, found) ==
    \/ \E p \in found \cap files :
          task' = [task EXCEPT ![w].pc = "register", ![w].pick = p, ![w].cand = found \ {p}]
    \/ /\ found \cap files = {}
       /\ task' = [task EXCEPT ![w].pc = IF task[w].stage = "identity"
                                         THEN "journal" ELSE "register",
                               ![w].pick = task[w].path, ![w].cand = {}]

\* The candidates are those of the first query.
Reuse(w) ==
    /\ \/ At(w, "reuse") /\ Choose(w, Matching(w))
       \/ At(w, "candidates") /\ Choose(w, task[w].cand)
    /\ UNCHANGED <<rows, gens, journals, disk, cleanup, rescue, janitor, system, history, spent>>
-----------------------------------------------------------------------------
(* register: the catalog entry of message m at path p.                     *)

\* Mutant: the receipt is not applied when the entry is published.
EntryUnrescued(m, media, gen, p) ==
    [path |-> p, media |-> media, gen |-> gen,
     rescued |-> rows[m].rescued,
     pending |-> IF Has(m) THEN rows[m].pending ELSE receipts[m] # "none",
     pinned |-> rows[m].pinned]

\* Mutant: a rescued entry keeps its deadline.
EntryStillPending(m, media, gen, p) ==
    [path |-> p, media |-> media, gen |-> gen,
     rescued |-> rows[m].rescued \/ receipts[m] = "rescued",
     pending |-> IF Has(m) THEN rows[m].pending ELSE receipts[m] # "none",
     pinned |-> rows[m].pinned]

\* The receipt's state is applied with the publication.
Entry(m, media, gen, p) ==
    LET kept == rows[m].rescued \/ receipts[m] = "rescued" IN
    [path |-> p, media |-> media, gen |-> gen, rescued |-> kept,
     pending |-> ~kept /\ IF Has(m) THEN rows[m].pending ELSE receipts[m] = "pending",
     pinned |-> rows[m].pinned]

\* Mutant: the replaced file is forgotten.
ReplacedForgotten(m, p) == {}

\* The file an entry no longer names goes to the outbox.
Replaced(m, p) == IF Has(m) /\ rows[m].path # p THEN {rows[m].path} ELSE {}

\* Mutant: the candidate is not opened again under the writer lock.
StillThereUnchecked(p) == TRUE

\* The file is opened again under the writer lock.
StillThere(p) == p \in files

Catalog(m, media, gen, p) ==
    /\ rows' = [rows EXCEPT ![m] = Entry(m, media, gen, p)]
    /\ cleanup' = cleanup \cup Replaced(m, p)
    /\ journal' = journal \ {p}
    /\ acked' = [acked EXCEPT ![m] = media]
    /\ promised' = Promised(m, media)

Register(w) ==
    LET t == task[w] IN
    /\ At(w, "register")
    /\ gens[t.msg] = t.gen
    /\ StillThere(t.pick)
    /\ Catalog(t.msg, t.media, t.gen, t.pick)
    /\ IF t.pick # t.path /\ t.stage = "content"
       THEN task' = [task EXCEPT ![w].pc = "redundant", ![w].after = "drain"]
       ELSE Goto(w, "drain")
    /\ UNCHANGED <<gens, item, summed, disk, rescue, janitor, system, spent>>

\* A vanished candidate is passed over; a superseded ingestion or a vanished download fails.
Unregistrable(w) ==
    LET t == task[w] IN
    /\ At(w, "register")
    /\ ~(gens[t.msg] = t.gen /\ StillThere(t.pick))
    /\ IF gens[t.msg] = t.gen /\ t.pick # t.path THEN Goto(w, "candidates") ELSE End(w)
    /\ UNCHANGED <<rows, gens, journals, disk, cleanup, rescue, janitor, system, history, spent>>
-----------------------------------------------------------------------------
(* The transfer: journal row, partial file, hash, publication.             *)

Journal(w) ==
    LET p == Len(item) + 1 IN
    /\ At(w, "journal")
    /\ item' = Append(item, [msg |-> task[w].msg, media |-> task[w].media, gen |-> task[w].gen])
    /\ journal' = journal \cup {p}
    /\ task' = [task EXCEPT ![w].pc = "part", ![w].path = p]
    /\ UNCHANGED <<rows, gens, summed, disk, cleanup, rescue, janitor, system, history, spent>>

Part(w) ==
    /\ At(w, "part")
    /\ parts' = parts \cup {task[w].path}
    /\ Goto(w, "receive")
    /\ UNCHANGED <<rows, gens, journals, files, lost, cleanup, rescue, janitor, system, history, spent>>

\* Mutant: the hash is not recorded before the file is published.
ReceiveUnsummed(w) ==
    /\ At(w, "receive")
    /\ Goto(w, "publish")
    /\ UNCHANGED <<rows, gens, journals, disk, cleanup, rescue, janitor, system, history, spent>>

\* The bytes are complete and synced: prepared() records their hash.
Receive(w) ==
    /\ At(w, "receive")
    /\ summed' = summed \cup {task[w].path}
    /\ Goto(w, "publish")
    /\ UNCHANGED <<rows, gens, item, journal, disk, cleanup, rescue, janitor, system, history, spent>>

Publish(w) ==
    /\ At(w, "publish")
    /\ files' = files \cup {task[w].path} /\ parts' = parts \ {task[w].path}
    /\ task' = [task EXCEPT ![w].pc = "enter", ![w].stage = "content"]
    /\ UNCHANGED <<rows, gens, journals, lost, cleanup, rescue, janitor, system, history, spent>>

\* The file just downloaded is not needed.
Redundant(w) ==
    /\ At(w, "redundant")
    /\ files' = files \ {task[w].path}
    /\ Goto(w, "unjournal")
    /\ UNCHANGED <<rows, gens, journals, parts, lost, cleanup, rescue, janitor, system, history, spent>>

Unjournal(w) ==
    /\ At(w, "unjournal")
    /\ journal' = journal \ {task[w].path}
    /\ IF task[w].after = "off" THEN End(w) ELSE Goto(w, task[w].after)
    /\ UNCHANGED <<rows, gens, item, summed, disk, cleanup, rescue, janitor, system, history, spent>>

MayFail ==
    /\ spent.failures < MaxFailures
    /\ spent' = [spent EXCEPT !.failures = @ + 1]

Transferring == {"part", "receive", "publish"}

\* A failed transfer removes its partial file, then its journal row.
TransferFails(w) ==
    /\ Up /\ task[w].pc \in Transferring /\ MayFail
    /\ parts' = parts \ {task[w].path}
    /\ Goto(w, "unjournal")
    /\ UNCHANGED <<rows, gens, journals, files, lost, cleanup, rescue, janitor, system, history>>

\* An error or a cancelled context anywhere else leaves what is on disk where it is.
Abandon(w) ==
    /\ Up /\ task[w].pc \notin {"off", "drain"} \cup Transferring /\ MayFail
    /\ End(w)
    /\ UNCHANGED <<rows, gens, journals, disk, cleanup, rescue, janitor, system, history>>
-----------------------------------------------------------------------------
(* The cleanup outbox, and what removes catalog entries.                   *)

\* drainFileCleanup: references are checked under the writer lock; what cannot be removed stays.
Drained ==
    \E failed \in SUBSET cleanup :
        /\ IF failed = {} THEN UNCHANGED spent ELSE MayFail
        /\ cleanup' = failed
        /\ files' = files \ {p \in cleanup \ failed : ~Owned(p)}

IngestDrain(w) ==
    /\ At(w, "drain") /\ Drained
    /\ End(w)
    /\ UNCHANGED <<rows, gens, journals, parts, lost, rescue, janitor, system, history>>

Drain(j) ==
    /\ Up /\ janitor[j] = "drain" /\ Drained
    /\ janitor' = [janitor EXCEPT ![j] = "idle"]
    /\ UNCHANGED <<rows, gens, journals, parts, lost, rescue, task, system, history>>

\* One transaction: the entries of S go, their paths go to the outbox.
Remove(j, S) ==
    /\ Up /\ janitor[j] = "idle" /\ S # {}
    /\ rows' = [m \in Messages |-> IF m \in S THEN NoEntry ELSE rows[m]]
    /\ cleanup' = cleanup \cup {rows[m].path : m \in S}
    /\ acked' = [m \in Messages |-> IF m \in S THEN None ELSE acked[m]]
    /\ janitor' = [janitor EXCEPT ![j] = "drain"]
    /\ UNCHANGED <<gens, journals, disk, rescue, task, system, spent>>

\* What an operator deletes is no longer owed to anyone.
Withdrawn(S) == {q \in promised : \A m \in S : Bytes[rows[m].media] # q[2]}

\* A deletion by id takes one entry; the duplicate finder's takes every entry of the file.
DeleteEntries(j, m) ==
    /\ Has(m)
    /\ \E S \in {{m}, {n \in Messages : Has(n) /\ rows[n].path = rows[m].path}} :
          Remove(j, S) /\ promised' = Withdrawn(S)

SweepRescue(j) ==
    /\ Remove(j, {m \in Messages : rows[m].pending /\ m \in expired
                                   /\ ~rows[m].rescued /\ ~rows[m].pinned})
    /\ UNCHANGED promised

\* The rotator leaves alone what is pinned, rescued or still journalled.
RotateBatch(j, m) ==
    /\ Has(m) /\ ~rows[m].pinned /\ ~rows[m].rescued /\ rows[m].path \notin journal
    /\ Remove(j, {m})
    /\ UNCHANGED promised

\* The integrity sweep drops an entry whose file is gone, and never a file.
PruneMissing(m) ==
    /\ Up /\ Has(m) /\ rows[m].path \notin files
    /\ rows' = [rows EXCEPT ![m] = NoEntry]
    /\ acked' = [acked EXCEPT ![m] = None] /\ promised' = Withdrawn({m})
    /\ UNCHANGED <<gens, journals, disk, cleanup, rescue, task, janitor, system, spent>>

Pin(m) ==
    /\ Up /\ Has(m) /\ ~rows[m].pinned
    /\ rows' = [rows EXCEPT ![m].pinned = TRUE]
    /\ UNCHANGED <<gens, journals, disk, cleanup, rescue, task, janitor, system, history, spent>>

InLibrary(bytes) == \E m \in Messages : Has(m) /\ Bytes[rows[m].media] = bytes

\* markRescued: the source message was deleted.
Mark(m) ==
    /\ Up /\ receipts[m] = "pending"
    /\ receipts' = [receipts EXCEPT ![m] = "rescued"]
    /\ rows' = IF rows[m].pending
               THEN [rows EXCEPT ![m].rescued = TRUE, ![m].pending = FALSE] ELSE rows
    /\ promised' = IF m \notin expired /\ acked[m] # None /\ InLibrary(Bytes[acked[m]])
                   THEN promised \cup {<<m, Bytes[acked[m]]>>} ELSE promised
    /\ UNCHANGED <<gens, journals, disk, cleanup, expired, task, janitor, system, acked, spent>>

\* The retention of a temporary entry runs out.
Expire(m) ==
    /\ receipts[m] = "pending" /\ m \notin expired
    /\ expired' = expired \cup {m}
    /\ UNCHANGED <<rows, gens, journals, disk, cleanup, receipts, task, janitor, system, history, spent>>

LoseFile(p) ==
    /\ p \in files /\ Owned(p) /\ spent.losses < MaxLosses
    /\ files' = files \ {p} /\ lost' = lost \cup {p}
    /\ spent' = [spent EXCEPT !.losses = @ + 1]
    /\ UNCHANGED <<rows, gens, journals, parts, cleanup, rescue, task, janitor, system, history>>
-----------------------------------------------------------------------------
(* A crash, and the recovery that runs before anything else.               *)

Crash ==
    /\ system.state # "down" /\ spent.crashes < MaxCrashes
    /\ system' = Stopped
    /\ task' = [w \in Workers |-> Idle] /\ janitor' = [j \in Janitors |-> "idle"]
    /\ spent' = [spent EXCEPT !.crashes = @ + 1]
    /\ UNCHANGED <<rows, gens, journals, disk, cleanup, rescue, history>>

Start ==
    /\ system = Stopped
    /\ system' = Booting("next", 0)
    /\ UNCHANGED <<rows, gens, journals, disk, cleanup, rescue, task, janitor, history, spent>>

NextJournalled ==
    /\ system = Booting("next", 0)
    /\ \E p \in journal : system' = Booting("entry", p)
    /\ UNCHANGED <<rows, gens, journals, disk, cleanup, rescue, task, janitor, history, spent>>

Recovering(pc) == system.state = "recovering" /\ system.pc = pc
RecoverGoto(pc) == system' = Booting(pc, system.path)

\* Mutant: recovery publishes whatever the journal holds.
CurrentAlways(p) == TRUE

\* No later ingestion of the message began.
Current(p) == gens[item[p].msg] = item[p].gen

\* A superseded file goes, unless an entry names it.
DropSuperseded ==
    LET p == system.path IN
    /\ Recovering("entry") /\ ~Current(p)
    /\ files' = IF Owned(p) THEN files ELSE files \ {p}
    /\ RecoverGoto("part")
    /\ UNCHANGED <<rows, gens, journals, parts, lost, cleanup, rescue, task, janitor, history, spent>>

DropIncomplete ==
    /\ Recovering("entry") /\ Current(system.path) /\ system.path \notin files
    /\ RecoverGoto("part")
    /\ UNCHANGED <<rows, gens, journals, disk, cleanup, rescue, task, janitor, history, spent>>

\* A published file is registered, or an entry with the same bytes is reused.
RecoverEntry ==
    LET p == system.path
        t == item[p]
        same == {rows[m].path : m \in {k \in Messages : Has(k) /\ Same(rows[k].media, t.media)}} IN
    /\ Recovering("entry") /\ Current(p) /\ p \in files \cap summed
    /\ \/ \E c \in same \cap files : Catalog(t.msg, t.media, t.gen, c) /\ RecoverGoto("unowned")
       \/ same \cap files = {} /\ Catalog(t.msg, t.media, t.gen, p) /\ RecoverGoto("part")
    /\ UNCHANGED <<gens, item, summed, disk, rescue, task, janitor, spent>>

DropUnowned ==
    /\ Recovering("unowned")
    /\ files' = IF Owned(system.path) THEN files ELSE files \ {system.path}
    /\ RecoverGoto("part")
    /\ UNCHANGED <<rows, gens, journals, parts, lost, cleanup, rescue, task, janitor, history, spent>>

DropPart ==
    /\ Recovering("part")
    /\ parts' = parts \ {system.path}
    /\ RecoverGoto("drop")
    /\ UNCHANGED <<rows, gens, journals, files, lost, cleanup, rescue, task, janitor, history, spent>>

DropJournal ==
    /\ Recovering("drop")
    /\ journal' = journal \ {system.path}
    /\ system' = Booting("next", 0)
    /\ UNCHANGED <<rows, gens, item, summed, disk, cleanup, rescue, task, janitor, history, spent>>

Ready ==
    /\ system = Booting("next", 0) /\ journal = {}
    /\ Drained
    /\ system' = Running
    /\ UNCHANGED <<rows, gens, journals, parts, lost, rescue, task, janitor, history>>
-----------------------------------------------------------------------------
Work(w) ==
    \/ Enter(w) \/ Existing(w) \/ Reuse(w) \/ Register(w) \/ Unregistrable(w)
    \/ Journal(w) \/ Part(w) \/ Receive(w) \/ Publish(w) \/ Redundant(w) \/ Unjournal(w)
    \/ IngestDrain(w)

Recover ==
    \/ Start \/ NextJournalled \/ DropSuperseded \/ DropIncomplete \/ RecoverEntry
    \/ DropUnowned \/ DropPart \/ DropJournal \/ Ready

Next ==
    \/ \E w \in Workers : Work(w) \/ TransferFails(w) \/ Abandon(w)
    \/ \E w \in Workers, m \in Messages, skip \in SkipModes :
          \E media \in Carries[m] : Begin(w, m, media, skip)
    \/ \E j \in Janitors : Drain(j) \/ SweepRescue(j)
    \/ \E j \in Janitors, m \in Messages : DeleteEntries(j, m) \/ RotateBatch(j, m)
    \/ \E m \in Messages : PruneMissing(m) \/ Pin(m) \/ Mark(m) \/ Expire(m)
    \/ \E p \in Paths : LoseFile(p)
    \/ Crash \/ Recover

Spec == Init /\ [][Next]_vars
\* Go schedules every runnable goroutine; a started process finishes its recovery.
FairSpec == Spec /\ WF_vars(Recover) /\ \A w \in Workers : WF_vars(Work(w))
-----------------------------------------------------------------------------
(* Properties.                                                             *)

\* Types; a partial file always has a journal row, and a rescued entry no deadline.
TypeOK ==
    /\ DOMAIN rows = Messages /\ gens \in [Messages -> Nat]
    /\ journal \cup summed \cup files \cup parts \cup lost \cup cleanup \subseteq DOMAIN item
    /\ receipts \in [Messages -> {"none", "pending", "rescued"}] /\ expired \subseteq Messages
    /\ \A m \in Messages : Has(m) => rows[m].path \in DOMAIN item /\ rows[m].media \in Media
    /\ parts \subseteq journal
    /\ \A m \in Messages : ~(rows[m].rescued /\ rows[m].pending)

\* The program never removes a file the catalog still names: register reopens it under the
\* writer lock, and the outbox checks references under the same lock.
EntryHasFile == \A m \in Messages : Has(m) => rows[m].path \in files \cup lost

\* Every file on disk is named by an entry, or by the outbox or the journal that will remove it.
NothingLeaks == \A p \in files : Owned(p) \/ p \in cleanup \cup journal

\* A published file left in the journal always has its hash: recovery would otherwise
\* refuse it, and the server would not start.
PublishedIsVerifiable == journal \cap files \subseteq summed

\* Media whose source message was deleted while it was kept temporarily stays in the library.
RescuedIsKept == \A q \in promised : InLibrary(q[2])

\* An entry is never put back to what an earlier ingestion of its message brought: recovery
\* passes over a journal row of a superseded one.
NeverOlder ==
    [][\A m \in Messages : Has(m) /\ (rows[m] # NoEntry)' => rows'[m].gen >= rows[m].gen]_vars

\* With SkipDuplicates, an ingestion gives its message no entry of its own when an entry of
\* another message has the same media.
NoRepeatEntry ==
    [][\A w \in Workers, n \in Messages :
          LET m == task[w].msg IN
          task[w].skip /\ ~Has(m) /\ rows'[m] # NoEntry /\ Has(n) /\ rows[n].path \in files
          => Bytes[rows[n].media] # Bytes[rows'[m].media]]_vars

\* An ingestion ends: no two of them wait for each other's flights.
IngestEnds == \A w \in Workers : task[w].pc # "off" ~> task[w].pc = "off"

\* The catalog and the disk agree: an entry has its file, a file its entry or its place
\* in the outbox, and the journal nothing that recovery would refuse.
FilesAreAccounted == EntryHasFile /\ NothingLeaks /\ PublishedIsVerifiable
=============================================================================
