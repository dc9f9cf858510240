------------------------ MODULE MediaLibrary_proofs ------------------------
(***************************************************************************)
(* Proofs about the library (MediaLibrary): every file is accounted for,   *)
(* an entry is never put back to an older version, and what a deleted      *)
(* source leaves is kept.  For every number of messages, ingestions,       *)
(* deletions, crashes and recoveries.                                      *)
(***************************************************************************)
EXTENDS MediaLibrary, TLAPS
-----------------------------------------------------------------------------
(* Who answers for a file at each step of an ingestion, of its recovery    *)
(* and of what removes entries.                                            *)

EntryType ==
    [path : Nat, media : Media, gen : Nat,
     pending : BOOLEAN, rescued : BOOLEAN, pinned : BOOLEAN]

ItemType == [msg : Messages, media : Media, gen : Nat]

TaskPcs == {"off", "enter", "existing", "reuse", "candidates", "register", "redundant",
            "unjournal", "drain", "journal", "part", "receive", "publish"}

TaskType ==
    [pc : TaskPcs, stage : {"identity", "content"}, msg : Messages \cup {None},
     media : Media \cup {None}, gen : Nat, skip : BOOLEAN, path : Nat,
     cand : SUBSET Nat, pick : Nat, after : {"off", "drain"}]

SystemType ==
    [state : {"down", "recovering", "up"},
     pc : {"next", "entry", "unowned", "part", "drop"}, path : Nat]

LibTypes ==
    /\ rows \in [Messages -> EntryType \cup {NoEntry}]
    /\ gens \in [Messages -> Nat]
    /\ item \in Seq(ItemType)
    /\ journal \cup summed \cup files \cup parts \cup lost \cup cleanup \subseteq DOMAIN item
    /\ receipts \in [Messages -> {"none", "pending", "rescued"}] /\ expired \subseteq Messages
    /\ task \in [Workers -> TaskType]
    /\ system \in SystemType
    /\ acked \in [Messages -> Media \cup {None}]

\* What an entry, an ingestion and the recovery refer to.
Refers ==
    /\ \A m \in Messages : Has(m) => rows[m].path \in DOMAIN item
    /\ \A m \in Messages : ~(rows[m].rescued /\ rows[m].pending)
    /\ \A w \in Workers :
         /\ task[w].path \in {0} \cup DOMAIN item /\ task[w].pick \in {0} \cup DOMAIN item
         /\ task[w].cand \subseteq DOMAIN item
         /\ task[w].pc # "off" => task[w].msg \in Messages /\ task[w].media \in Media
    /\ system.pc # "next" => system.path \in DOMAIN item

DiskInv ==
    /\ files \cap parts = {} /\ parts \subseteq journal
    /\ FilesAreAccounted

\* Where the file of an ingestion is.
TaskFits(w) ==
    LET t == task[w] IN
    /\ t.pc \in Transferring \cup {"journal"} => t.stage = "identity"
    /\ t.pc \in Transferring => t.path # 0 /\ t.path \in journal \ files
    /\ t.pc = "publish" => t.path \in summed
    /\ t.pc = "redundant" => t.stage = "content"
    /\ t.stage = "content" => t.path # 0 /\ t.path \notin parts
    /\ t.pc = "unjournal" => t.path # 0 /\ t.path \notin files \cup parts

\* The ingestion's file is not in the catalog yet, and may still be dropped.
Keeps(w) ==
    \/ task[w].pc \in Transferring
    \/ task[w].stage = "content" /\ task[w].pc \notin {"unjournal", "drain"}

\* Nobody else has found it.
Private(w) ==
    Keeps(w) =>
        \A p \in {task[w].path} :
            /\ ~Owned(p)
            /\ \A v \in Workers : p \notin task[v].cand /\ (task[v].pick = p => v = w)

TaskInv ==
    /\ \A w \in Workers : TaskFits(w) /\ Private(w)
    /\ \A w, v \in Workers : w # v /\ task[w].path # 0 => task[w].path # task[v].path

\* Recovery runs alone, and leaves a journal row only when its files are settled.
BootInv ==
    /\ ~Up => \A w \in Workers : task[w] = Idle
    /\ system.pc \in {"part", "drop"} => system.path \notin files \/ Owned(system.path)
    /\ system.pc = "drop" => system.path \notin parts
    /\ Up => system.pc = "next"

LibInv == LibTypes /\ Refers /\ DiskInv /\ TaskInv /\ BootInv

\* The shape of an ingestion that moved.
IsTask(t, r, pc, stage, path, cand, pick) ==
    /\ t \in TaskType
    /\ t.pc = pc /\ t.stage = stage /\ t.path = path /\ t.cand = cand /\ t.pick = pick
    /\ t.msg = r.msg /\ t.media = r.media

\* An ingestion that is not under way.
LEMMA IdleTask == Idle \in TaskType /\ Idle.pc = "off" /\ Idle.stage = "identity" /\ Idle.path = 0
                  /\ Idle.cand = {} /\ Idle.pick = 0
  BY DEF Idle, TaskType, TaskPcs

\* The changes an ingestion goes through.
LEMMA TaskShapes ==
    ASSUME NEW r \in TaskType, NEW pc \in TaskPcs, NEW p \in Nat, NEW c \in SUBSET Nat,
           NEW s \in {"identity", "content"}, NEW a \in {"off", "drain"}
    PROVE  /\ IsTask([r EXCEPT !.pc = pc], r, pc, r.stage, r.path, r.cand, r.pick)
           /\ IsTask([r EXCEPT !.pc = pc, !.pick = p, !.cand = c], r, pc, r.stage, r.path, c, p)
           /\ IsTask([r EXCEPT !.pc = pc, !.path = p], r, pc, r.stage, p, r.cand, r.pick)
           /\ IsTask([r EXCEPT !.pc = pc, !.stage = s], r, pc, s, r.path, r.cand, r.pick)
           /\ IsTask([r EXCEPT !.pc = pc, !.after = a], r, pc, r.stage, r.path, r.cand, r.pick)
  BY DEF TaskType, IsTask

Begun(t, m, d) ==
    /\ t \in TaskType
    /\ t.pc = "enter" /\ t.stage = "identity" /\ t.path = 0 /\ t.cand = {} /\ t.pick = 0
    /\ t.msg = m /\ t.media = d

\* An ingestion that has begun.
LEMMA BegunTask ==
    ASSUME NEW m \in Messages, NEW d \in Media, NEW g \in Nat, NEW b \in BOOLEAN
    PROVE  Begun([Idle EXCEPT !.pc = "enter", !.msg = m, !.media = d, !.gen = g, !.skip = b], m, d)
  <1>1. ASSUME NEW r \in TaskType, r.stage = "identity", r.path = 0, r.cand = {}, r.pick = 0
        PROVE  Begun([r EXCEPT !.pc = "enter", !.msg = m, !.media = d, !.gen = g, !.skip = b], m, d)
    BY <1>1 DEF TaskType, TaskPcs, Begun
  <1> QED
    BY <1>1, IdleTask, Zenon

\* What one ingestion does to its own file is nothing to the others.
LEMMA OthersStay ==
    ASSUME LibTypes, Refers, TaskInv, NEW w \in Workers, NEW t \in TaskType,
           task' = [task EXCEPT ![w] = t],
           files' \subseteq files \cup {task[w].path}, parts' \subseteq parts \cup {task[w].path},
           summed \subseteq summed', journal \subseteq journal' \cup {task[w].path, task[w].pick},
           \A p \in Nat : Owned(p)' => Owned(p) \/ p = task[w].pick,
           \A p \in t.cand : Owned(p) \/ p \in task[w].cand,
           t.pick \in {0, task[w].path, task[w].pick} \/ Owned(t.pick) \/ t.pick \in task[w].cand,
           t.path \in {0, task[w].path} \/ t.path \notin DOMAIN item,
           TaskFits(w)',
           Keeps(w)' => \/ Keeps(w) /\ t.path = task[w].path /\ ~Owned(t.path)'
                        \/ t.path \notin {0} \cup DOMAIN item /\ ~Owned(t.path)'
    PROVE  TaskInv'
  <1>1. task'[w] = t /\ \A v \in Workers \ {w} : task'[v] = task[v]
    BY DEF LibTypes
  <1>2. \A v \in Workers : /\ task[v] \in TaskType /\ task[v].path \in Nat
                           /\ task[v].path \in {0} \cup DOMAIN item
                           /\ task[v].pick \in {0} \cup DOMAIN item
                           /\ task[v].cand \subseteq DOMAIN item
    BY DEF LibTypes, Refers, TaskType
  <1>3. ASSUME NEW v \in Workers, v # w, task[v].path # 0
        PROVE  /\ task[v].path # task[w].path /\ task[v].path # t.path
               /\ Keeps(v) => /\ ~Owned(task[v].path) /\ task[v].path # task[w].pick
                              /\ task[v].path # t.pick /\ task[v].path \notin t.cand
    <2>1. task[v].path # task[w].path
      BY <1>3 DEF TaskInv
    <2>2. task[v].path # t.path
      BY <1>2, <1>3, <2>1
    <2>3. ASSUME Keeps(v)
          PROVE  /\ ~Owned(task[v].path) /\ task[v].path # task[w].pick
                 /\ task[v].path \notin task[w].cand
      BY <1>3, <2>3 DEF TaskInv, Private
    <2> QED
      BY <1>3, <2>1, <2>2, <2>3
  <1>4. ASSUME NEW v \in Workers, v # w PROVE TaskFits(v)'
    <2>1. TaskFits(v) /\ task'[v] = task[v]
      BY <1>1, <1>4 DEF TaskInv
    <2>2. task[v].pc \in Transferring => Keeps(v) /\ task[v].path \in journal /\ task[v].path # 0
      <3>1. 0 \notin DOMAIN item
        BY DEF LibTypes
      <3> QED
        BY <2>1, <3>1 DEF Keeps, TaskFits, LibTypes
    <2>3. task[v].path # 0 =>
            /\ task[v].path \in files' => task[v].path \in files
            /\ task[v].path \in parts' => task[v].path \in parts
      BY <1>3, <1>4
    <2>4. task[v].pc \in Transferring => task[v].path \in journal'
      BY <1>3, <1>4, <2>2
    <2> QED
      BY <2>1, <2>2, <2>3, <2>4 DEF TaskFits
  <1>5. ASSUME NEW v \in Workers, Keeps(v)' PROVE task'[v].path \in Nat /\ task'[v].path # 0
    <2>1. CASE v = w
      BY <1>1, <1>2, <1>5, <2>1 DEF Keeps, TaskFits, TaskType
    <2>2. CASE v # w
      BY <1>1, <1>2, <1>4, <1>5, <2>2 DEF Keeps, TaskFits, TaskType
    <2> QED
      BY <2>1, <2>2
  <1>6. ASSUME NEW v \in Workers, v # w PROVE Private(v)'
    <2> SUFFICES ASSUME Keeps(v)', NEW p \in {task'[v].path}
                 PROVE  /\ ~Owned(p)'
                        /\ \A x \in Workers : p \notin task'[x].cand /\ (task'[x].pick = p => x = v)
      BY DEF Private
    <2>1. p = task[v].path /\ p \in Nat /\ p # 0 /\ Keeps(v) /\ Private(v)
      BY <1>1, <1>5, <1>6 DEF Keeps, TaskInv
    <2>2. /\ ~Owned(p) /\ p # task[w].pick /\ p # t.pick /\ p \notin t.cand
      BY <1>3, <1>6, <2>1
    <2>3. ASSUME NEW x \in Workers PROVE p \notin task'[x].cand /\ (task'[x].pick = p => x = v)
      BY <1>1, <2>1, <2>2 DEF Private
    <2> QED
      BY <2>1, <2>2, <2>3
  <1>7. Private(w)'
    <2> SUFFICES ASSUME Keeps(w)' PROVE /\ ~Owned(t.path)'
                                        /\ \A x \in Workers : /\ t.path \notin task'[x].cand
                                                              /\ task'[x].pick = t.path => x = w
      BY <1>1 DEF Private
    <2>1. t.path # 0
      BY <1>1, <1>5
    <2>2. CASE Keeps(w) /\ t.path = task[w].path /\ ~Owned(t.path)'
      <3>1. /\ ~Owned(t.path)
            /\ \A x \in Workers : t.path \notin task[x].cand /\ (task[x].pick = t.path => x = w)
        BY <2>2 DEF TaskInv, Private
      <3>2. t.path \notin t.cand
        BY <3>1
      <3> QED
        BY <1>1, <2>2, <3>1, <3>2
    <2>3. CASE t.path \notin {0} \cup DOMAIN item /\ ~Owned(t.path)'
      <3>1. \A p \in Nat : Owned(p) => p \in DOMAIN item
        BY DEF Owned, Refers
      <3>2. t.path \notin t.cand
        BY <1>2, <2>3, <3>1 DEF TaskType
      <3>3. \A x \in Workers \ {w} : t.path \notin task[x].cand /\ task[x].pick # t.path
        BY <1>2, <2>3
      <3> QED
        BY <1>1, <2>3, <3>2, <3>3
    <2> QED
      BY <2>2, <2>3
  <1>8. ASSUME NEW v \in Workers, NEW x \in Workers, v # x, task'[v].path # 0
        PROVE  task'[v].path # task'[x].path
    <2>1. CASE v # w /\ x # w
      BY <1>1, <1>8, <2>1 DEF TaskInv
    <2>2. CASE v = w
      BY <1>1, <1>2, <1>3, <1>8, <2>2
    <2>3. CASE x = w
      BY <1>1, <1>2, <1>3, <1>8, <2>3
    <2> QED
      BY <2>1, <2>2, <2>3
  <1> QED
    BY <1>4, <1>6, <1>7, <1>8 DEF TaskInv

\* A step of a running server says nothing about the recovery.
LEMMA UpKept == ASSUME BootInv, Up, UNCHANGED system PROVE BootInv'
  BY DEF BootInv, Up

\* What an ingestion that moved refers to.
LEMMA RefersKept ==
    ASSUME LibTypes, Refers, NEW w \in Workers, NEW t \in TaskType, task' = [task EXCEPT ![w] = t],
           UNCHANGED <<rows, system>>, DOMAIN item \subseteq DOMAIN item',
           t.path \in {0} \cup DOMAIN item', t.pick \in {0} \cup DOMAIN item', t.cand \subseteq DOMAIN item',
           t.pc # "off" => t.msg \in Messages /\ t.media \in Media
    PROVE  Refers'
  <1>1. task'[w] = t /\ \A v \in Workers \ {w} : task'[v] = task[v]
    BY DEF LibTypes
  <1>2. /\ \A m \in Messages : rows'[m] # NoEntry => rows'[m].path \in DOMAIN item'
        /\ \A m \in Messages : ~(rows'[m].rescued /\ rows'[m].pending)
    <2>1. rows' = rows
      OBVIOUS
    <2>2. /\ \A m \in Messages : rows[m] # NoEntry => rows[m].path \in DOMAIN item
          /\ \A m \in Messages : ~(rows[m].rescued /\ rows[m].pending)
      BY DEF Refers, Has
    <2> QED
      BY <2>1, <2>2
  <1>3. ASSUME NEW v \in Workers
        PROVE  /\ task'[v].path \in {0} \cup DOMAIN item' /\ task'[v].pick \in {0} \cup DOMAIN item'
               /\ task'[v].cand \subseteq DOMAIN item'
               /\ task'[v].pc # "off" => task'[v].msg \in Messages /\ task'[v].media \in Media
    BY <1>1 DEF Refers
  <1> QED
    BY <1>2, <1>3 DEF Refers, Has

\* A step of an ingestion that touches no file and no record of files.
LEMMA TaskMoves ==
    ASSUME LibInv, Up, NEW w \in Workers, NEW t \in TaskType, task' = [task EXCEPT ![w] = t],
           UNCHANGED <<rows, item, journal, summed, files, parts, lost, cleanup, expired, system>>,
           gens' \in [Messages -> Nat],
           receipts' \in [Messages -> {"none", "pending", "rescued"}],
           acked' \in [Messages -> Media \cup {None}],
           t.pc \notin Transferring \cup {"unjournal"},
           t.pc = "journal" => t.stage = "identity", t.pc = "redundant" => t.stage = "content",
           t.stage = "content" => task[w].stage = "content" /\ t.path = task[w].path /\ Keeps(w),
           t.path \in {0, task[w].path},
           \A p \in t.cand : Owned(p) \/ p \in task[w].cand,
           t.pick \in {0, task[w].path, task[w].pick} \/ Owned(t.pick) \/ t.pick \in task[w].cand,
           t.pc # "off" => t.msg \in Messages /\ t.media \in Media
    PROVE  LibInv'
  <1> USE DEF LibInv
  <1>1. LibTypes'
    BY DEF LibTypes
  <1>2. /\ task[w].path \in {0} \cup DOMAIN item /\ task[w].pick \in {0} \cup DOMAIN item
        /\ task[w].cand \subseteq DOMAIN item
        /\ \A p \in Nat : Owned(p) => p \in DOMAIN item
    BY DEF Refers, Owned
  <1>3. t.cand \subseteq Nat /\ t.pick \in Nat
    BY DEF TaskType
  <1>4. Refers'
    BY <1>2, <1>3, RefersKept
  <1>5. DiskInv'
    BY DEF DiskInv, FilesAreAccounted, EntryHasFile, NothingLeaks, PublishedIsVerifiable, Has, Owned
  <1>6. task'[w] = t
    BY DEF LibTypes
  <1>7. TaskFits(w)'
    <2>1. t.stage = "content" => task[w].path # 0 /\ task[w].path \notin parts
      BY DEF TaskInv, TaskFits
    <2> QED
      BY <1>6, <2>1 DEF TaskFits, Transferring
  <1>8. \A p \in Nat : Owned(p)' <=> Owned(p)
    BY DEF Owned, Has
  <1>9. Keeps(w)' => Keeps(w) /\ t.path = task[w].path /\ ~Owned(t.path)'
    <2> SUFFICES ASSUME Keeps(w)' PROVE Keeps(w) /\ t.path = task[w].path /\ ~Owned(t.path)'
      OBVIOUS
    <2>1. t.stage = "content"
      BY <1>6 DEF Keeps
    <2>2. ~Owned(t.path)
      BY <2>1 DEF TaskInv, Private
    <2>3. t.path \in Nat
      BY DEF TaskType
    <2> QED
      BY <1>8, <2>1, <2>2, <2>3
  <1>10. TaskInv'
    BY <1>7, <1>8, <1>9, OthersStay
  <1> QED
    BY <1>1, <1>4, <1>5, <1>10, UpKept

\* What is known of any ingestion.
LEMMA TypedTask ==
    ASSUME LibTypes, Refers, NEW w \in Workers
    PROVE  /\ task[w] \in TaskType /\ task[w].path \in Nat /\ task[w].cand \in SUBSET Nat
           /\ task[w].pick \in Nat /\ task[w].gen \in Nat /\ task[w].stage \in {"identity", "content"}
           /\ task[w].pc # "off" => task[w].msg \in Messages /\ task[w].media \in Media
  BY DEF LibTypes, Refers, TaskType

\* A task's next program counter alone.
LEMMA Went ==
    ASSUME LibTypes, NEW w \in Workers, NEW pc \in TaskPcs, Goto(w, pc)
    PROVE  \E t \in TaskType : /\ task' = [task EXCEPT ![w] = t]
                               /\ IsTask(t, task[w], pc, task[w].stage, task[w].path, task[w].cand,
                                         task[w].pick)
  <1> DEFINE t == [task[w] EXCEPT !.pc = pc]
  <1>1. task[w] \in TaskType
    BY DEF LibTypes
  <1>2. IsTask(t, task[w], pc, task[w].stage, task[w].path, task[w].cand, task[w].pick)
    <2>1. {} \in SUBSET Nat /\ 0 \in Nat /\ "off" \in {"off", "drain"} /\ "content" \in {"identity", "content"}
      OBVIOUS
    <2> QED
      BY ONLY <1>1, <2>1, pc \in TaskPcs, TaskShapes, Zenon
  <1>3. task' = [task EXCEPT ![w] = t]
    BY DEF Goto
  <1> HIDE DEF t
  <1> QED
    BY <1>2, <1>3 DEF IsTask

\* The lookups of an ingestion.
LEMMA LookupsKeep ==
    ASSUME LibInv, NEW w \in Workers,
           \/ \E m \in Messages, b \in SkipModes : \E d \in Carries[m] : Begin(w, m, d, b)
           \/ Enter(w) \/ Existing(w) \/ Reuse(w) \/ Unregistrable(w) \/ Abandon(w)
    PROVE  LibInv'
  <1> USE DEF LibInv, journals, disk, rescue, history
  <1>1. task[w] \in TaskType /\ TaskFits(w)
    BY DEF LibTypes, TaskInv
  <1>2. ASSUME Up, End(w), UNCHANGED <<rows, gens, item, journal, summed, files, parts, lost, cleanup,
                                       receipts, expired, system>>,
               acked' \in [Messages -> Media \cup {None}]
        PROVE  LibInv'
    <2>1. task' = [task EXCEPT ![w] = Idle]
      BY <1>2 DEF End
    <2> QED
      BY <1>2, <2>1, IdleTask, TaskMoves DEF LibTypes, Transferring
  <1>3. ASSUME NEW pc \in {"existing", "reuse", "candidates", "redundant"}, Up, Goto(w, pc),
               task[w].pc \in {"enter", "existing", "register"},
               pc = "redundant" => task[w].stage = "content",
               UNCHANGED <<rows, gens, item, journal, summed, files, parts, lost, cleanup,
                           receipts, expired, system>>,
               acked' \in [Messages -> Media \cup {None}]
        PROVE  LibInv'
    <2>1. PICK t \in TaskType : /\ task' = [task EXCEPT ![w] = t]
                                /\ IsTask(t, task[w], pc, task[w].stage, task[w].path, task[w].cand,
                                          task[w].pick)
      BY <1>3, Went DEF TaskPcs
    <2>2. task[w].stage = "content" => Keeps(w)
      BY <1>3 DEF Keeps
    <2> QED
      BY <1>3, <2>1, <2>2, TypedTask, TaskMoves DEF IsTask, Transferring, LibTypes
  <1>4. acked \in [Messages -> Media \cup {None}]
    BY DEF LibTypes
  <1>5. ASSUME NEW m \in Messages, NEW b \in SkipModes, NEW d \in Carries[m], Begin(w, m, d, b)
        PROVE  LibInv'
    <2> DEFINE g == gens[m] + 1
               t == [Idle EXCEPT !.pc = "enter", !.msg = m, !.media = d, !.gen = g, !.skip = b]
    <2>1. d \in Media /\ b \in BOOLEAN /\ g \in Nat
      BY LibraryAssumption DEF LibraryAssumption, LibTypes
    <2>2. Begun(t, m, d)
      <3> HIDE DEF g
      <3> QED
        BY ONLY m \in Messages, <2>1, BegunTask, Zenon
    <2>3. task' = [task EXCEPT ![w] = t] /\ Up
      BY <1>5 DEF Begin, At
    <2> HIDE DEF t
    <2>4. /\ gens' \in [Messages -> Nat] /\ receipts' \in [Messages -> {"none", "pending", "rescued"}]
      BY <1>5, <2>1 DEF Begin, Observed, LibTypes
    <2>5. UNCHANGED <<rows, item, journal, summed, files, parts, lost, cleanup, expired, system, acked>>
      BY <1>5 DEF Begin
    <2> QED
      BY <1>4, <2>1, <2>2, <2>3, <2>4, <2>5, TaskMoves DEF Transferring, Begun
  <1>6. CASE Enter(w)
    BY <1>3, <1>4, <1>6 DEF Enter, Landed, At
  <1>7. CASE Existing(w)
    <2>1. task[w].media \in Media /\ task[w].msg \in Messages
      BY <1>7, TypedTask DEF Existing, At
    <2>2. acked' \in [Messages -> Media \cup {None}]
      BY <1>4, <1>7, <2>1 DEF Existing
    <2>3. CASE Goto(w, "reuse")
      BY <1>3, <1>7, <2>2, <2>3 DEF Existing, At
    <2>4. CASE End(w)
      BY <1>2, <1>7, <2>2, <2>4 DEF Existing, At
    <2>5. CASE Goto(w, "redundant") /\ task[w].stage # "identity"
      BY <1>1, <1>3, <1>7, <2>2, <2>5 DEF Existing, At, TaskType
    <2> QED
      BY <1>7, <2>3, <2>4, <2>5 DEF Existing
  <1>8. ASSUME NEW f, Choose(w, f), \A p \in f : Owned(p) \/ p \in task[w].cand,
               f \subseteq Nat, Up, task[w].pc \in {"reuse", "candidates"},
               UNCHANGED <<rows, gens, item, journal, summed, files, parts, lost, cleanup,
                           receipts, expired, system, acked>>
        PROVE  LibInv'
    <2>1. PICK pc \in {"register", "journal"}, p \in f \cup {task[w].path}, c \in SUBSET f :
             /\ task' = [task EXCEPT ![w].pc = pc, ![w].pick = p, ![w].cand = c]
             /\ pc = "journal" => task[w].stage = "identity"
      <3>1. CASE \E p \in f \cap files :
                   task' = [task EXCEPT ![w].pc = "register", ![w].pick = p, ![w].cand = f \ {p}]
        <4>1. PICK p \in f \cap files :
                task' = [task EXCEPT ![w].pc = "register", ![w].pick = p, ![w].cand = f \ {p}]
          BY <3>1
        <4>2. "register" \in {"register", "journal"} /\ p \in f \cup {task[w].path} /\ f \ {p} \in SUBSET f
          OBVIOUS
        <4> QED
          BY <4>1, <4>2, Zenon
      <3>2. CASE task' = [task EXCEPT ![w].pc = IF task[w].stage = "identity"
                                         THEN "journal" ELSE "register",
                               ![w].pick = task[w].path, ![w].cand = {}]
        <4>1. {} \in SUBSET f /\ task[w].path \in f \cup {task[w].path}
          OBVIOUS
        <4>2. CASE task[w].stage = "identity"
          BY <3>2, <4>1, <4>2
        <4>3. CASE task[w].stage # "identity"
          BY <3>2, <4>1, <4>3
        <4> QED
          BY <4>2, <4>3
      <3> QED
        BY <1>8, <3>1, <3>2 DEF Choose
    <2> DEFINE t == [task[w] EXCEPT !.pc = pc, !.pick = p, !.cand = c]
    <2>2. p \in Nat /\ c \in SUBSET Nat /\ pc \in TaskPcs
      BY <1>8, TypedTask DEF TaskPcs
    <2>3. IsTask(t, task[w], pc, task[w].stage, task[w].path, c, p)
      <3>1. "off" \in {"off", "drain"} /\ "content" \in {"identity", "content"}
        OBVIOUS
      <3> QED
        BY ONLY <1>1, <2>2, <3>1, TaskShapes, Zenon
    <2>4. task' = [task EXCEPT ![w] = t]
      BY <2>1
    <2> HIDE DEF t
    <2>5. task[w].stage = "content" => Keeps(w)
      BY <1>8 DEF Keeps
    <2> QED
      BY <1>4, <1>8, <2>1, <2>3, <2>4, <2>5, TypedTask, TaskMoves DEF IsTask, Transferring, LibTypes
  <1>9. CASE Reuse(w)
    <2>1. /\ \A p \in Matching(w) : Owned(p)
          /\ Matching(w) \subseteq Nat
      BY DEF Matching, Owned, LibTypes, EntryType, Has
    <2>2. CASE At(w, "reuse") /\ Choose(w, Matching(w))
      BY <1>8, <1>9, <2>1, <2>2 DEF Reuse, At
    <2>3. CASE At(w, "candidates") /\ Choose(w, task[w].cand)
      BY <1>8, <1>9, <2>3, TypedTask DEF Reuse, At
    <2> QED
      BY <1>9, <2>2, <2>3 DEF Reuse
  <1>10. CASE Unregistrable(w)
    BY <1>2, <1>3, <1>4, <1>10 DEF Unregistrable, At
  <1>11. CASE Abandon(w)
    BY <1>2, <1>4, <1>11 DEF Abandon
  <1> QED
    BY <1>5, <1>6, <1>7, <1>9, <1>10, <1>11

\* A journal row more.
LEMMA Appended ==
    ASSUME NEW e \in ItemType, item \in Seq(ItemType), item' = Append(item, e)
    PROVE  /\ item' \in Seq(ItemType) /\ DOMAIN item' = DOMAIN item \cup {Len(item) + 1}
           /\ Len(item) + 1 \in Nat /\ Len(item) + 1 \notin {0} \cup DOMAIN item
  OBVIOUS

\* Ownership depends on the entries alone.
LEMMA OwnedSame ==
    ASSUME UNCHANGED rows
    PROVE  /\ \A p \in Nat : Owned(p)' <=> Owned(p)
           /\ \A p \in DOMAIN item : Owned(p)' <=> Owned(p)
           /\ \A m \in Messages : Has(m)' <=> Has(m)
  BY DEF Owned, Has

\* The steps of a transfer, each on its own path.
LEMMA TransferKeeps ==
    ASSUME LibInv, NEW w \in Workers,
           \/ Journal(w) \/ Part(w) \/ Receive(w) \/ Publish(w) \/ Redundant(w) \/ Unjournal(w)
           \/ TransferFails(w)
    PROVE  LibInv'
  <1> USE DEF LibInv, journals, disk, rescue, history
  <1>1. /\ task[w] \in TaskType /\ TaskFits(w) /\ task[w].path \in Nat /\ task[w].pick \in Nat
        /\ task[w].path \in {0} \cup DOMAIN item /\ task[w].pick \in {0} \cup DOMAIN item
        /\ task[w].cand \subseteq DOMAIN item /\ 0 \notin DOMAIN item
        /\ task[w].stage \in {"identity", "content"} /\ task[w].after \in {"off", "drain"}
    BY TypedTask DEF LibTypes, TaskInv, Refers, TaskType
  <1>2. BootInv' /\ UNCHANGED <<rows, system>> /\ Up
    BY UpKept DEF Journal, Part, Receive, Publish, Redundant, Unjournal, TransferFails, At
  <1>3. /\ \A p \in Nat : Owned(p)' <=> Owned(p)
        /\ \A p \in DOMAIN item : Owned(p)' <=> Owned(p)
        /\ \A m \in Messages : Has(m)' <=> Has(m)
    BY <1>2, OwnedSame
  <1>4. /\ Keeps(w) => ~Owned(task[w].path)
        /\ \A p \in Nat : Owned(p) => p \in DOMAIN item
    BY DEF TaskInv, Private, Owned, Refers
  <1>5. CASE Journal(w)
    <2> DEFINE p == Len(item) + 1
               e == [msg |-> task[w].msg, media |-> task[w].media, gen |-> task[w].gen]
               t == [task[w] EXCEPT !.pc = "part", !.path = p]
    <2>1. e \in ItemType
      BY <1>5, TypedTask DEF Journal, At, ItemType
    <2>2. /\ item' \in Seq(ItemType) /\ DOMAIN item' = DOMAIN item \cup {p}
          /\ p \in Nat /\ p \notin {0} \cup DOMAIN item
      <3> HIDE DEF e
      <3>1. item' = Append(item, e) /\ item \in Seq(ItemType)
        BY <1>5 DEF Journal, LibTypes, e
      <3> QED
        BY <2>1, <3>1, Appended
    <2> HIDE DEF p
    <2>3. IsTask(t, task[w], "part", task[w].stage, p, task[w].cand, task[w].pick)
      <3>1. "part" \in TaskPcs /\ {} \in SUBSET Nat /\ "off" \in {"off", "drain"} /\ "content" \in {"identity", "content"}
        BY DEF TaskPcs
      <3> QED
        BY ONLY <1>1, <2>2, <3>1, TaskShapes, Zenon
    <2>4. /\ task' = [task EXCEPT ![w] = t] /\ journal' = journal \cup {p}
          /\ UNCHANGED <<gens, summed, files, parts, lost, cleanup, receipts, expired, acked>>
      BY <1>5 DEF Journal, p
    <2> HIDE DEF t
    <2>5. p \notin files \cup parts /\ ~Owned(p) /\ task[w].stage = "identity"
      BY <1>1, <1>4, <1>5, <2>2 DEF LibTypes, TaskFits, Journal, At
    <2>6. LibTypes'
      BY <1>2, <2>2, <2>3, <2>4 DEF LibTypes, IsTask
    <2>7. Refers'
      BY <1>1, <1>2, <1>5, <2>2, <2>3, <2>4, TypedTask, RefersKept DEF IsTask, Journal, At
    <2>8. DiskInv'
      <3>1. \A q \in files : Owned(q)' <=> Owned(q)
        BY <1>3 DEF LibTypes
      <3> QED
        BY <1>2, <1>3, <2>2, <2>4, <2>5, <3>1 DEF DiskInv, FilesAreAccounted, EntryHasFile, NothingLeaks, PublishedIsVerifiable
    <2>9. TaskFits(w)'
      <3>1. task'[w] = t
        BY <2>4 DEF LibTypes
      <3> QED
        BY <2>2, <2>3, <2>4, <2>5, <3>1 DEF TaskFits, IsTask, Transferring
    <2>10. TaskInv'
      <3>1. PICK u \in TaskType : /\ task' = [task EXCEPT ![w] = u]
                                  /\ u.path = Len(item) + 1 /\ u.cand = task[w].cand
                                  /\ u.pick = task[w].pick
        BY <2>3, <2>4 DEF IsTask, p
      <3>2. u.path \notin {0} \cup DOMAIN item /\ u.path \in Nat /\ ~Owned(u.path)
        BY <2>2, <2>5, <3>1 DEF p
      <3>3. ~Owned(u.path)'
        BY <1>3, <3>2
      <3> QED
        BY <1>3, <2>4, <2>9, <3>1, <3>2, <3>3, OthersStay
    <2> QED
      BY <1>2, <2>6, <2>7, <2>8, <2>10
  <1>6. ASSUME NEW t \in TaskType, NEW pc \in TaskPcs, NEW s \in {"identity", "content"},
               IsTask(t, task[w], pc, s, task[w].path, task[w].cand, task[w].pick),
               task' = [task EXCEPT ![w] = t], task[w].pc # "off",
               files' \subseteq files \cup {task[w].path}, parts' \subseteq parts \cup {task[w].path},
               summed \subseteq summed', summed' \subseteq summed \cup {task[w].path},
               journal \subseteq journal' \cup {task[w].path}, journal' \subseteq journal,
               task[w].path # 0,
               UNCHANGED <<gens, item, lost, cleanup, receipts, expired, acked>>,
               TaskFits(w)', DiskInv',
               pc \in Transferring \/ (s = "content" /\ pc \notin {"unjournal", "drain"}) => Keeps(w)
        PROVE  LibInv'
    <2>1. LibTypes'
      BY <1>1, <1>2, <1>6 DEF LibTypes
    <2>2. Refers'
      BY <1>1, <1>2, <1>6, TypedTask, RefersKept DEF IsTask
    <2>3. task'[w] = t
      BY <1>6 DEF LibTypes
    <2>4. Keeps(w)' => Keeps(w) /\ t.path = task[w].path /\ ~Owned(t.path)'
      BY <1>1, <1>3, <1>4, <1>6, <2>3 DEF Keeps, IsTask
    <2>5. TaskInv'
      <3>1. t.path = task[w].path /\ t.cand = task[w].cand /\ t.pick = task[w].pick
        BY <1>6 DEF IsTask
      <3> QED
        BY <1>3, <1>6, <2>4, <3>1, OthersStay
    <2> QED
      BY <1>2, <1>6, <2>1, <2>2, <2>5
  <1>7. ASSUME task[w].pc \in Transferring \cup {"redundant"}
        PROVE  /\ task[w].path # 0 /\ ~Owned(task[w].path) /\ task[w].path \in DOMAIN item
               /\ Keeps(w)
    <2>1. Keeps(w)
      BY <1>1, <1>7 DEF Keeps, TaskFits
    <2> QED
      BY <1>1, <1>3, <1>4, <1>7, <2>1 DEF TaskFits
  <1>8. \A q \in files : Owned(q)' <=> Owned(q)
    BY <1>3 DEF LibTypes
  <1>9. CASE Part(w)
    <2>1. PICK t \in TaskType : /\ task' = [task EXCEPT ![w] = t]
                                /\ IsTask(t, task[w], "receive", task[w].stage, task[w].path, task[w].cand, task[w].pick)
      BY <1>9, Went DEF Part, TaskPcs
    <2>2. task'[w] = t
      BY <2>1 DEF LibTypes
    <2>3. task[w].pc = "part" /\ task[w].pc \in Transferring
      BY <1>9 DEF Part, At, Transferring
    <2>4. /\ parts' = parts \cup {task[w].path}
          /\ UNCHANGED <<gens, item, journal, summed, files, lost, cleanup, receipts, expired, acked>>
      BY <1>9 DEF Part
    <2>5. TaskFits(w)'
      BY <1>1, <2>1, <2>2, <2>3, <2>4 DEF TaskFits, IsTask, Transferring
    <2>6. DiskInv'
      BY <1>1, <1>2, <1>3, <1>8, <2>3, <2>4 DEF TaskFits, DiskInv, FilesAreAccounted, EntryHasFile, NothingLeaks, PublishedIsVerifiable
    <2>7. "receive" \in TaskPcs
      BY DEF TaskPcs
    <2> QED
      BY <1>1, <1>6, <1>7, <2>1, <2>3, <2>4, <2>5, <2>6, <2>7
  <1>10. CASE Receive(w)
    <2>1. PICK t \in TaskType : /\ task' = [task EXCEPT ![w] = t]
                                /\ IsTask(t, task[w], "publish", task[w].stage, task[w].path, task[w].cand, task[w].pick)
      BY <1>10, Went DEF Receive, TaskPcs
    <2>2. task'[w] = t
      BY <2>1 DEF LibTypes
    <2>3. task[w].pc = "receive" /\ task[w].pc \in Transferring
      BY <1>10 DEF Receive, At, Transferring
    <2>4. /\ summed' = summed \cup {task[w].path}
          /\ UNCHANGED <<gens, item, journal, parts, files, lost, cleanup, receipts, expired, acked>>
      BY <1>10 DEF Receive
    <2>5. TaskFits(w)'
      BY <1>1, <2>1, <2>2, <2>3, <2>4 DEF TaskFits, IsTask, Transferring
    <2>6. DiskInv'
      BY <1>1, <1>2, <1>3, <1>8, <2>3, <2>4 DEF TaskFits, DiskInv, FilesAreAccounted, EntryHasFile, NothingLeaks, PublishedIsVerifiable
    <2>7. "publish" \in TaskPcs
      BY DEF TaskPcs
    <2> QED
      BY <1>1, <1>6, <1>7, <2>1, <2>3, <2>4, <2>5, <2>6, <2>7
  <1>11. CASE Publish(w)
    <2> DEFINE t == [task[w] EXCEPT !.pc = "enter", !.stage = "content"]
    <2>1. IsTask(t, task[w], "enter", "content", task[w].path, task[w].cand, task[w].pick)
      <3>1. "enter" \in TaskPcs /\ {} \in SUBSET Nat /\ 0 \in Nat /\ "off" \in {"off", "drain"} /\ "content" \in {"identity", "content"}
        BY DEF TaskPcs
      <3> QED
        BY ONLY <1>1, <3>1, TaskShapes, Zenon
    <2>2. task' = [task EXCEPT ![w] = t]
      BY <1>11 DEF Publish
    <2> HIDE DEF t
    <2>3. task[w].pc = "publish" /\ task[w].pc \in Transferring /\ task'[w] = t
      BY <1>11, <2>2 DEF Publish, At, Transferring, LibTypes
    <2>4. /\ files' = files \cup {task[w].path} /\ parts' = parts \ {task[w].path}
          /\ UNCHANGED <<gens, item, journal, summed, lost, cleanup, receipts, expired, acked>>
      BY <1>11 DEF Publish
    <2>5. TaskFits(w)'
      BY <1>1, <1>7, <2>1, <2>3, <2>4 DEF TaskFits, IsTask, Transferring
    <2>6. DiskInv'
      BY <1>1, <1>2, <1>3, <1>8, <2>3, <2>4 DEF TaskFits, DiskInv, FilesAreAccounted, EntryHasFile, NothingLeaks, PublishedIsVerifiable
    <2>7. "enter" \in TaskPcs /\ t \in TaskType
      BY <2>1 DEF TaskPcs, IsTask
    <2> QED
      BY <1>1, <1>6, <1>7, <2>1, <2>2, <2>3, <2>4, <2>5, <2>6, <2>7
  <1>12. ASSUME Goto(w, "unjournal"), task[w].pc \in Transferring \cup {"redundant"},
                files' = files \ {task[w].path} \/ (files' = files /\ task[w].path \notin files),
                parts' = parts \ {task[w].path} \/ (parts' = parts /\ task[w].path \notin parts),
                UNCHANGED <<gens, item, journal, summed, lost, cleanup, receipts, expired, acked>>
         PROVE  LibInv'
    <2>1. PICK t \in TaskType : /\ task' = [task EXCEPT ![w] = t]
                                /\ IsTask(t, task[w], "unjournal", task[w].stage, task[w].path, task[w].cand, task[w].pick)
      BY <1>12, Went DEF TaskPcs
    <2>2. task'[w] = t
      BY <2>1 DEF LibTypes
    <2>3. task[w].path \notin files' \cup parts'
      BY <1>12
    <2>4. TaskFits(w)'
      BY <1>1, <1>7, <1>12, <2>1, <2>2, <2>3 DEF TaskFits, IsTask, Transferring
    <2>5. DiskInv'
      <3>1. \A m \in Messages : Has(m) => rows[m].path # task[w].path
        BY <1>7, <1>12 DEF Owned
      <3> QED
        BY <1>1, <1>2, <1>3, <1>8, <1>12, <3>1 DEF DiskInv, FilesAreAccounted, EntryHasFile, NothingLeaks, PublishedIsVerifiable
    <2>6. "unjournal" \in TaskPcs /\ task[w].pc # "off" /\ "unjournal" \notin Transferring
      BY <1>12 DEF TaskPcs, Transferring
    <2> QED
      BY <1>1, <1>6, <1>7, <1>12, <2>1, <2>4, <2>5, <2>6
  <1>13. CASE Redundant(w)
    <2>1. task[w].path \notin parts
      BY <1>1, <1>13 DEF Redundant, At, TaskFits
    <2> QED
      BY <1>12, <1>13, <2>1 DEF Redundant, At
  <1>14. CASE TransferFails(w)
    <2>1. task[w].path \notin files
      BY <1>1, <1>14 DEF TransferFails, TaskFits
    <2> QED
      BY <1>12, <1>14, <2>1 DEF TransferFails
  <1>15. CASE Unjournal(w)
    <2>1. /\ task[w].pc = "unjournal" /\ task[w].path # 0 /\ task[w].path \notin files \cup parts
          /\ journal' = journal \ {task[w].path}
          /\ UNCHANGED <<gens, item, summed, files, parts, lost, cleanup, receipts, expired, acked>>
      BY <1>1, <1>15 DEF Unjournal, At, TaskFits
    <2>2. DiskInv'
      BY <1>2, <1>3, <1>8, <2>1 DEF DiskInv, FilesAreAccounted, EntryHasFile, NothingLeaks, PublishedIsVerifiable
    <2>3. CASE End(w)
      <3>1. task' = [task EXCEPT ![w] = Idle] /\ task'[w] = Idle
        BY <2>3 DEF End, LibTypes
      <3>2. LibTypes'
        BY <1>2, <2>1, <3>1, IdleTask DEF LibTypes
      <3>3. Refers'
        BY <1>2, <2>1, <3>1, IdleTask, RefersKept
      <3>4. TaskFits(w)' /\ ~Keeps(w)'
        BY <3>1, IdleTask DEF TaskFits, Keeps, Transferring
      <3>5. TaskInv'
        BY <1>3, <2>1, <3>1, <3>4, IdleTask, OthersStay
      <3> QED
        BY <1>2, <2>2, <3>2, <3>3, <3>5
    <2>4. CASE Goto(w, task[w].after) /\ task[w].after # "off"
      <3>1. PICK t \in TaskType : /\ task' = [task EXCEPT ![w] = t]
                                  /\ IsTask(t, task[w], "drain", task[w].stage, task[w].path, task[w].cand, task[w].pick)
        BY <1>1, <2>4, Went DEF TaskPcs
      <3>2. task'[w] = t
        BY <3>1 DEF LibTypes
      <3>3. TaskFits(w)'
        BY <1>1, <2>1, <3>1, <3>2 DEF TaskFits, IsTask, Transferring
      <3>4. "drain" \in TaskPcs /\ "drain" \notin Transferring
        BY DEF TaskPcs, Transferring
      <3> QED
        BY <1>1, <1>6, <2>1, <2>2, <3>1, <3>3, <3>4
    <2> QED
      BY <1>15, <2>3, <2>4 DEF Unjournal
  <1> QED
    BY <1>5, <1>9, <1>10, <1>11, <1>13, <1>14, <1>15

\* An entry a publication writes.
LEMMA EntryShape ==
    ASSUME LibTypes, NEW m \in Messages, NEW d \in Media, NEW g \in Nat, NEW p \in Nat
    PROVE  /\ Entry(m, d, g, p) \in EntryType /\ Entry(m, d, g, p) # NoEntry
           /\ Entry(m, d, g, p).path = p /\ Entry(m, d, g, p).gen = g /\ Entry(m, d, g, p).media = d
           /\ ~(Entry(m, d, g, p).rescued /\ Entry(m, d, g, p).pending)
  <1>1. rows[m].rescued \in BOOLEAN /\ rows[m].pending \in BOOLEAN /\ rows[m].pinned \in BOOLEAN
    <2>1. rows[m] \in EntryType \/ rows[m] = NoEntry
      BY DEF LibTypes
    <2>2. CASE rows[m] \in EntryType
      BY <2>2 DEF EntryType
    <2>3. CASE rows[m] = NoEntry
      BY <2>3 DEF NoEntry
    <2> QED
      BY <2>1, <2>2, <2>3
  <1>2. d # None
    BY LibraryAssumption DEF LibraryAssumption
  <1> QED
    BY <1>1, <1>2 DEF Entry, EntryType, NoEntry

\* A publication: the entry has its file, and what it replaces goes to the outbox.
LEMMA CatalogKeeps ==
    ASSUME LibTypes, Refers, DiskInv, NEW m \in Messages, NEW d \in Media, NEW g \in Nat, NEW p \in files,
           Catalog(m, d, g, p), UNCHANGED <<gens, item, summed, files, parts, lost, receipts, expired>>
    PROVE  /\ rows' \in [Messages -> EntryType \cup {NoEntry}]
           /\ cleanup' \subseteq DOMAIN item /\ journal' = journal \ {p}
           /\ acked' \in [Messages -> Media \cup {None}]
           /\ \A k \in Messages : rows'[k] # NoEntry => rows'[k].path \in DOMAIN item
           /\ \A k \in Messages : ~(rows'[k].rescued /\ rows'[k].pending)
           /\ \A q \in Nat : Owned(q)' => Owned(q) \/ q = p
           /\ Owned(p)'
           /\ DiskInv'
  <1>1. p \in DOMAIN item /\ p \in Nat
    BY DEF LibTypes
  <1> DEFINE e == Entry(m, d, g, p)
  <1>2. /\ e \in EntryType /\ e # NoEntry /\ e.path = p /\ ~(e.rescued /\ e.pending)
    BY <1>1, EntryShape
  <1>3. /\ rows' = [rows EXCEPT ![m] = e] /\ cleanup' = cleanup \cup Replaced(m, p)
        /\ journal' = journal \ {p} /\ acked' = [acked EXCEPT ![m] = d]
    BY DEF Catalog
  <1> HIDE DEF e
  <1>4. /\ rows' \in [Messages -> EntryType \cup {NoEntry}]
        /\ rows'[m] = e /\ \A k \in Messages \ {m} : rows'[k] = rows[k]
    BY <1>2, <1>3 DEF LibTypes
  <1>5. Replaced(m, p) \subseteq DOMAIN item /\ cleanup' \subseteq DOMAIN item
    BY <1>3 DEF Replaced, LibTypes, Refers
  <1>6. acked' \in [Messages -> Media \cup {None}]
    BY <1>3 DEF LibTypes
  <1>7. /\ \A k \in Messages : rows'[k] # NoEntry => rows'[k].path \in DOMAIN item
        /\ \A k \in Messages : ~(rows'[k].rescued /\ rows'[k].pending)
    BY <1>1, <1>2, <1>4 DEF Refers, Has
  <1>8. \A q \in Nat : Owned(q)' => Owned(q) \/ q = p
    BY <1>2, <1>4 DEF Owned, Has
  <1>9. Owned(p)'
    BY <1>2, <1>4 DEF Owned, Has
  <1>10. ASSUME NEW q \in files, Owned(q) PROVE Owned(q)' \/ q \in cleanup'
    <2>1. PICK k \in Messages : Has(k) /\ rows[k].path = q
      BY <1>10 DEF Owned
    <2>2. CASE k # m
      BY <1>4, <2>1, <2>2 DEF Owned, Has
    <2>3. CASE k = m /\ q # p
      BY <1>3, <2>1, <2>3 DEF Replaced
    <2>4. CASE q = p
      BY <1>9, <2>4
    <2> QED
      BY <2>2, <2>3, <2>4
  <1>11. DiskInv'
    <2>1. files' \cap parts' = {} /\ parts' \subseteq journal'
      BY <1>3 DEF DiskInv
    <2>2. EntryHasFile'
      BY <1>2, <1>4 DEF DiskInv, FilesAreAccounted, EntryHasFile, Has
    <2>3. ASSUME NEW q \in files' PROVE Owned(q)' \/ q \in cleanup' \cup journal'
      <3>1. q \in files /\ (Owned(q) \/ q \in cleanup \cup journal)
        BY DEF DiskInv, FilesAreAccounted, NothingLeaks
      <3> QED
        BY <1>3, <1>9, <1>10, <3>1
    <2>4. PublishedIsVerifiable'
      BY <1>3 DEF DiskInv, FilesAreAccounted, PublishedIsVerifiable
    <2> QED
      BY <2>1, <2>2, <2>3, <2>4 DEF DiskInv, FilesAreAccounted, NothingLeaks
  <1> QED
    BY <1>3, <1>4, <1>5, <1>6, <1>7, <1>8, <1>9, <1>11

\* register: the file found, or the one just downloaded, gets its entry.
LEMMA RegisterKeeps ==
    ASSUME LibInv, NEW w \in Workers, Register(w)
    PROVE  LibInv'
  <1> USE DEF LibInv, disk, rescue
  <1>1. /\ task[w] \in TaskType /\ TaskFits(w) /\ task[w].path \in Nat /\ task[w].pick \in files
        /\ task[w].path \in {0} \cup DOMAIN item /\ task[w].pick \in {0} \cup DOMAIN item
        /\ task[w].cand \subseteq DOMAIN item
        /\ task[w].pc = "register" /\ task[w].msg \in Messages /\ task[w].media \in Media
        /\ task[w].gen \in Nat /\ task[w].pick \in Nat
    BY TypedTask DEF LibTypes, TaskInv, Refers, Register, At, StillThere
  <1>2. /\ Catalog(task[w].msg, task[w].media, task[w].gen, task[w].pick)
        /\ UNCHANGED <<gens, item, summed, files, parts, lost, receipts, expired, system>>
        /\ BootInv'
    BY UpKept DEF Register, At
  <1>3. /\ rows' \in [Messages -> EntryType \cup {NoEntry}]
        /\ cleanup' \subseteq DOMAIN item /\ journal' = journal \ {task[w].pick}
        /\ acked' \in [Messages -> Media \cup {None}]
        /\ \A k \in Messages : rows'[k] # NoEntry => rows'[k].path \in DOMAIN item
        /\ \A k \in Messages : ~(rows'[k].rescued /\ rows'[k].pending)
        /\ \A q \in Nat : Owned(q)' => Owned(q) \/ q = task[w].pick
        /\ DiskInv'
    BY <1>1, <1>2, CatalogKeeps
  <1>4. PICK t \in TaskType, pc \in {"redundant", "drain"} :
           /\ task' = [task EXCEPT ![w] = t]
           /\ IsTask(t, task[w], pc, task[w].stage, task[w].path, task[w].cand, task[w].pick)
           /\ pc = "redundant" => task[w].pick # task[w].path /\ task[w].stage = "content"
    <2>1. CASE task[w].pick # task[w].path /\ task[w].stage = "content"
      <3> DEFINE t == [task[w] EXCEPT !.pc = "redundant", !.after = "drain"]
      <3>1. IsTask(t, task[w], "redundant", task[w].stage, task[w].path, task[w].cand, task[w].pick)
        <4>1. "redundant" \in TaskPcs /\ {} \in SUBSET Nat /\ 0 \in Nat /\ "drain" \in {"off", "drain"} /\ "content" \in {"identity", "content"}
          BY DEF TaskPcs
        <4> QED
          BY ONLY <1>1, <4>1, TaskShapes, Zenon
      <3>2. task' = [task EXCEPT ![w] = t]
        BY <2>1 DEF Register
      <3> HIDE DEF t
      <3>3. t \in TaskType /\ "redundant" \in {"redundant", "drain"}
        BY <3>1 DEF IsTask
      <3> QED
        BY <2>1, <3>1, <3>2, <3>3
    <2>2. CASE ~(task[w].pick # task[w].path /\ task[w].stage = "content")
      <3>1. Goto(w, "drain") /\ "drain" \in TaskPcs
        BY <2>2 DEF Register, TaskPcs
      <3>2. PICK t \in TaskType : /\ task' = [task EXCEPT ![w] = t]
                                  /\ IsTask(t, task[w], "drain", task[w].stage, task[w].path, task[w].cand, task[w].pick)
        BY <3>1, Went
      <3>3. "drain" \in {"redundant", "drain"} /\ "drain" # "redundant"
        OBVIOUS
      <3> QED
        BY <3>2, <3>3
    <2> QED
      BY <2>1, <2>2
  <1>5. task'[w] = t /\ \A v \in Workers \ {w} : task'[v] = task[v]
    BY <1>4 DEF LibTypes
  <1>6. /\ t.path = task[w].path /\ t.cand = task[w].cand /\ t.pick = task[w].pick
        /\ t.stage = task[w].stage /\ t.pc = pc /\ t.msg = task[w].msg /\ t.media = task[w].media
    BY <1>4 DEF IsTask
  <1>7. LibTypes'
    <2>1. /\ journal' \cup summed' \cup files' \cup parts' \cup lost' \cup cleanup' \subseteq DOMAIN item'
          /\ task' \in [Workers -> TaskType]
      BY <1>2, <1>3, <1>4 DEF LibTypes
    <2> QED
      BY <1>2, <1>3, <2>1 DEF LibTypes
  <1>8. Refers'
    <2>1. ASSUME NEW v \in Workers
          PROVE  /\ task'[v].path \in {0} \cup DOMAIN item /\ task'[v].pick \in {0} \cup DOMAIN item
                 /\ task'[v].cand \subseteq DOMAIN item
                 /\ task'[v].pc # "off" => task'[v].msg \in Messages /\ task'[v].media \in Media
      BY <1>1, <1>5, <1>6 DEF Refers
    <2> QED
      BY <1>2, <1>3, <2>1 DEF Refers, Has
  <1>9. TaskFits(w)'
    BY <1>1, <1>2, <1>4, <1>5, <1>6 DEF TaskFits, Transferring
  <1>10. Keeps(w)' => Keeps(w) /\ t.path = task[w].path /\ ~Owned(t.path)'
    <2> SUFFICES ASSUME Keeps(w)' PROVE Keeps(w) /\ ~Owned(t.path)'
      BY <1>6
    <2>1. pc = "redundant" /\ Keeps(w)
      BY <1>1, <1>4, <1>5, <1>6 DEF Keeps, Transferring
    <2>2. ~Owned(t.path) /\ t.path # task[w].pick /\ t.path \in Nat
      BY <1>1, <1>4, <1>6, <2>1 DEF TaskInv, Private
    <2> QED
      BY <1>3, <2>1, <2>2
  <1>11. TaskInv'
    BY <1>2, <1>3, <1>4, <1>6, <1>9, <1>10, OthersStay
  <1> QED
    BY <1>2, <1>3, <1>7, <1>8, <1>11

\* The outbox removes only files nobody names.
LEMMA DrainedKeeps ==
    ASSUME LibTypes, DiskInv, Drained, UNCHANGED <<rows, journal, summed, parts, lost>>
    PROVE  DiskInv' /\ files' \subseteq files /\ cleanup' \subseteq cleanup
  <1>1. PICK failed \in SUBSET cleanup : /\ cleanup' = failed
                                         /\ files' = files \ {p \in cleanup \ failed : ~Owned(p)}
    BY DEF Drained
  <1>2. /\ \A p \in files : Owned(p)' <=> Owned(p)
        /\ \A m \in Messages : Has(m)' <=> Has(m)
    BY OwnedSame DEF LibTypes
  <1>3. ASSUME NEW m \in Messages, Has(m)' PROVE rows'[m].path \in files' \cup lost'
    <2>1. Has(m) /\ rows'[m] = rows[m] /\ rows[m].path \in files \cup lost
      BY <1>2, <1>3 DEF DiskInv, FilesAreAccounted, EntryHasFile
    <2>2. Owned(rows[m].path)
      BY <2>1 DEF Owned
    <2> QED
      BY <1>1, <2>1, <2>2
  <1>4. ASSUME NEW p \in files' PROVE Owned(p)' \/ p \in cleanup' \cup journal'
    BY <1>1, <1>2 DEF DiskInv, FilesAreAccounted, NothingLeaks
  <1> QED
    BY <1>1, <1>3, <1>4 DEF DiskInv, FilesAreAccounted, EntryHasFile, NothingLeaks, PublishedIsVerifiable

\* A step that moves no ingestion and no recovery, and names no new file.
LEMMA ShrinkKeeps ==
    ASSUME LibInv, UNCHANGED <<item, journal, summed, parts, task, system>>, files' \subseteq files,
           DiskInv', rows' \in [Messages -> EntryType \cup {NoEntry}],
           \A m \in Messages : rows'[m] # NoEntry => rows'[m].path \in DOMAIN item,
           \A m \in Messages : ~(rows'[m].rescued /\ rows'[m].pending),
           cleanup' \subseteq DOMAIN item, lost' \subseteq DOMAIN item,
           gens' = gens, receipts' \in [Messages -> {"none", "pending", "rescued"}],
           expired' \subseteq Messages, acked' \in [Messages -> Media \cup {None}],
           \A q \in Nat : Owned(q)' => Owned(q), Up \/ UNCHANGED rows
    PROVE  LibInv'
  <1> USE DEF LibInv
  <1>1. LibTypes'
    BY DEF LibTypes
  <1>2. Refers'
    BY DEF Refers, Has
  <1>3. TaskInv'
    <2>1. ASSUME NEW w \in Workers PROVE TaskFits(w)'
      BY DEF TaskInv, TaskFits
    <2>2. ASSUME NEW w \in Workers PROVE Private(w)'
      <3> SUFFICES ASSUME Keeps(w)', NEW p \in {task'[w].path}
                   PROVE  /\ ~Owned(p)'
                          /\ \A v \in Workers : p \notin task'[v].cand /\ (task'[v].pick = p => v = w)
        BY DEF Private
      <3>1. p = task[w].path /\ p \in Nat /\ Keeps(w) /\ Private(w)
        BY TypedTask DEF Keeps, TaskInv
      <3> QED
        BY <3>1 DEF Private
    <2> QED
      BY <2>1, <2>2 DEF TaskInv
  <1>4. BootInv'
    <2>1. CASE Up
      BY <2>1, UpKept
    <2>2. CASE UNCHANGED rows
      <3>1. \A p \in DOMAIN item : Owned(p)' <=> Owned(p)
        BY <2>2, OwnedSame
      <3> QED
        <4>1. ~Up' => \A w \in Workers : task'[w] = Idle
          BY DEF BootInv, Up
        <4>2. /\ system'.pc = "drop" => system'.path \notin parts'
              /\ Up' => system'.pc = "next"
          BY DEF BootInv, Up
        <4>3. ASSUME system'.pc \in {"part", "drop"}, system'.path \in files' PROVE Owned(system.path)'
          <5>1. Owned(system.path) /\ system.path \in DOMAIN item
            BY <4>3 DEF BootInv, Refers
          <5> QED
            BY <2>2, <5>1 DEF Owned, Has
        <4> QED
          BY <4>1, <4>2, <4>3 DEF BootInv
    <2> QED
      BY <2>1, <2>2
  <1> QED
    BY <1>1, <1>2, <1>3, <1>4

\* What deletes, prunes, pins, marks and expires entries, and what loses files.
LEMMA JanitorsKeep ==
    ASSUME LibInv,
           \/ \E j \in Janitors : Drain(j) \/ SweepRescue(j)
           \/ \E j \in Janitors, m \in Messages : DeleteEntries(j, m) \/ RotateBatch(j, m)
           \/ \E m \in Messages : PruneMissing(m) \/ Pin(m) \/ Mark(m) \/ Expire(m)
           \/ \E p \in Paths : LoseFile(p)
    PROVE  LibInv'
  <1> USE DEF LibInv, journals, disk, rescue, history
  <1>1. /\ rows \in [Messages -> EntryType \cup {NoEntry}]
        /\ \A m \in Messages : rows[m] # NoEntry => rows[m].path \in DOMAIN item
        /\ \A m \in Messages : ~(rows[m].rescued /\ rows[m].pending)
        /\ cleanup \subseteq DOMAIN item /\ lost \subseteq DOMAIN item /\ files \subseteq DOMAIN item
        /\ receipts \in [Messages -> {"none", "pending", "rescued"}] /\ expired \subseteq Messages
        /\ acked \in [Messages -> Media \cup {None}]
    BY DEF LibTypes, Refers, Has
  <1>2. ASSUME NEW j \in Janitors, NEW S \in SUBSET Messages, Remove(j, S), \A m \in S : Has(m)
        PROVE  LibInv'
    <2>1. /\ rows' = [m \in Messages |-> IF m \in S THEN NoEntry ELSE rows[m]]
          /\ cleanup' = cleanup \cup {rows[m].path : m \in S} /\ Up
          /\ UNCHANGED <<gens, item, journal, summed, files, parts, lost, receipts, expired, task, system>>
      BY <1>2 DEF Remove
    <2>2. acked' \in [Messages -> Media \cup {None}]
      BY <1>1, <1>2 DEF Remove
    <2>3. rows' \in [Messages -> EntryType \cup {NoEntry}] /\ \A m \in Messages : rows'[m] \in {rows[m], NoEntry}
      BY <1>1, <2>1
    <2>4. /\ \A m \in Messages : rows'[m] # NoEntry => rows'[m].path \in DOMAIN item
          /\ \A m \in Messages : ~(rows'[m].rescued /\ rows'[m].pending)
      BY <1>1, <2>3 DEF NoEntry
    <2>5. cleanup' \subseteq DOMAIN item
      BY <1>1, <1>2, <2>1 DEF Has
    <2>6. \A q \in Nat : Owned(q)' => Owned(q)
      BY <2>3 DEF Owned, Has
    <2>7. ASSUME NEW p \in files, Owned(p) PROVE Owned(p)' \/ p \in cleanup'
      <3>1. PICK m \in Messages : Has(m) /\ rows[m].path = p
        BY <2>7 DEF Owned
      <3>2. CASE m \in S
        BY <2>1, <3>1, <3>2
      <3>3. CASE m \notin S
        <4>1. rows'[m] = rows[m]
          BY <2>1, <3>3
        <4> QED
          BY <3>1, <4>1 DEF Owned, Has
      <3> QED
        BY <3>2, <3>3
    <2>8. DiskInv'
      <3>1. EntryHasFile'
        BY <2>1, <2>3 DEF DiskInv, FilesAreAccounted, EntryHasFile, Has
      <3>2. NothingLeaks'
        BY <2>1, <2>7 DEF DiskInv, FilesAreAccounted, NothingLeaks
      <3> QED
        BY <2>1, <3>1, <3>2 DEF DiskInv, FilesAreAccounted, PublishedIsVerifiable
    <2> QED
      BY <1>1, <2>1, <2>2, <2>3, <2>4, <2>5, <2>6, <2>8, ShrinkKeeps
  <1>3. ASSUME NEW j \in Janitors, Drain(j) PROVE LibInv'
    <2>1. UNCHANGED <<rows, item, journal, summed, parts, task, system, lost, gens, receipts, expired, acked>>
      BY <1>3 DEF Drain
    <2>2. DiskInv' /\ files' \subseteq files /\ cleanup' \subseteq cleanup
      BY <1>3, <2>1, DrainedKeeps DEF Drain
    <2>3. \A q \in Nat : Owned(q)' <=> Owned(q)
      BY <2>1, OwnedSame
    <2> QED
      BY <1>1, <2>1, <2>2, <2>3, ShrinkKeeps
  <1>4. ASSUME NEW j \in Janitors, SweepRescue(j) PROVE LibInv'
    <2> DEFINE S == {m \in Messages : rows[m].pending /\ m \in expired /\ ~rows[m].rescued /\ ~rows[m].pinned}
    <2>1. Remove(j, S)
      BY <1>4 DEF SweepRescue
    <2>2. S \in SUBSET Messages /\ \A m \in S : Has(m)
      BY DEF Has, NoEntry
    <2> HIDE DEF S
    <2> QED
      BY <1>2, <2>1, <2>2
  <1>5. ASSUME NEW j \in Janitors, NEW m \in Messages, DeleteEntries(j, m) PROVE LibInv'
    <2>1. PICK S \in {{m}, {n \in Messages : Has(n) /\ rows[n].path = rows[m].path}} : Remove(j, S)
      BY <1>5 DEF DeleteEntries
    <2>2. S \in SUBSET Messages /\ \A n \in S : Has(n)
      BY <1>5 DEF DeleteEntries
    <2> QED
      BY <1>2, <2>1, <2>2
  <1>6. ASSUME NEW j \in Janitors, NEW m \in Messages, RotateBatch(j, m) PROVE LibInv'
    <2>1. Remove(j, {m}) /\ {m} \in SUBSET Messages /\ \A n \in {m} : Has(n)
      BY <1>6 DEF RotateBatch
    <2> QED
      BY <1>2, <2>1
  <1>7. ASSUME NEW m \in Messages, PruneMissing(m) PROVE LibInv'
    <2>1. /\ rows' = [rows EXCEPT ![m] = NoEntry] /\ Up /\ rows[m].path \notin files
          /\ acked' = [acked EXCEPT ![m] = None]
          /\ UNCHANGED <<gens, item, journal, summed, files, parts, lost, cleanup, receipts, expired, task, system>>
      BY <1>7 DEF PruneMissing
    <2>2. /\ rows' \in [Messages -> EntryType \cup {NoEntry}] /\ \A k \in Messages \ {m} : rows'[k] = rows[k]
          /\ rows'[m] = NoEntry /\ acked' \in [Messages -> Media \cup {None}]
      BY <1>1, <2>1
    <2>3. /\ \A k \in Messages : rows'[k] # NoEntry => rows'[k].path \in DOMAIN item
          /\ \A k \in Messages : ~(rows'[k].rescued /\ rows'[k].pending)
      BY <1>1, <2>2 DEF NoEntry
    <2>4. \A q \in Nat : Owned(q)' => Owned(q)
      BY <2>2 DEF Owned, Has
    <2>5. \A p \in files : Owned(p) => Owned(p)'
      BY <2>1, <2>2 DEF Owned, Has
    <2>6. DiskInv'
      BY <2>1, <2>2, <2>5 DEF DiskInv, FilesAreAccounted, EntryHasFile, NothingLeaks, PublishedIsVerifiable, Has
    <2> QED
      BY <1>1, <2>1, <2>2, <2>3, <2>4, <2>6, ShrinkKeeps
  <1>8. ASSUME NEW m \in Messages, Pin(m) \/ Mark(m) PROVE LibInv'
    <2>1. /\ UNCHANGED <<gens, item, journal, summed, files, parts, lost, cleanup, expired, task, system, acked>> /\ Up
          /\ receipts' \in [Messages -> {"none", "pending", "rescued"}]
      BY <1>1, <1>8 DEF Pin, Mark
    <2>2. \/ rows' = rows
          \/ rows[m] # NoEntry /\ rows' = [rows EXCEPT ![m] = [rows[m] EXCEPT !.pinned = TRUE]]
          \/ rows[m] # NoEntry /\ rows' = [rows EXCEPT ![m] = [rows[m] EXCEPT !.rescued = TRUE, !.pending = FALSE]]
      <3>1. CASE Pin(m)
        <4>1. rows[m] # NoEntry /\ rows' = [rows EXCEPT ![m].pinned = TRUE]
          BY <3>1 DEF Pin, Has
        <4> QED
          BY <4>1
      <3>2. CASE Mark(m)
        <4>1. rows[m].pending => rows[m] # NoEntry
          BY DEF NoEntry
        <4>2. rows' = IF rows[m].pending
                      THEN [rows EXCEPT ![m].rescued = TRUE, ![m].pending = FALSE] ELSE rows
          BY <3>2 DEF Mark
        <4>3. [rows EXCEPT ![m].rescued = TRUE, ![m].pending = FALSE]
                = [rows EXCEPT ![m] = [rows[m] EXCEPT !.rescued = TRUE, !.pending = FALSE]]
          BY <1>1
        <4> QED
          BY <4>1, <4>2, <4>3
      <3> QED
        BY <1>8, <3>1, <3>2
    <2>3. /\ rows' \in [Messages -> EntryType \cup {NoEntry}]
          /\ \A k \in Messages : rows'[k] # NoEntry <=> rows[k] # NoEntry
          /\ \A k \in Messages : rows'[k].path = rows[k].path
          /\ \A k \in Messages : ~(rows'[k].rescued /\ rows'[k].pending)
      <3>1. CASE rows' = rows
        BY <1>1, <3>1
      <3>2. ASSUME NEW e, rows' = [rows EXCEPT ![m] = e], rows[m] # NoEntry, e \in EntryType, e.path = rows[m].path,
                   ~(e.rescued /\ e.pending)
            PROVE  /\ rows' \in [Messages -> EntryType \cup {NoEntry}]
                   /\ \A k \in Messages : rows'[k] # NoEntry <=> rows[k] # NoEntry
                   /\ \A k \in Messages : rows'[k].path = rows[k].path
                   /\ \A k \in Messages : ~(rows'[k].rescued /\ rows'[k].pending)
        <4>1. e # NoEntry
          <5>1. e.path # 0
            BY <1>1, <3>2 DEF LibTypes
          <5> QED
            BY <5>1 DEF NoEntry
        <4> QED
          BY <1>1, <3>2, <4>1
      <3>3. ASSUME rows[m] # NoEntry
            PROVE  /\ [rows[m] EXCEPT !.pinned = TRUE] \in EntryType
                   /\ [rows[m] EXCEPT !.pinned = TRUE].path = rows[m].path
                   /\ ~([rows[m] EXCEPT !.pinned = TRUE].rescued /\ [rows[m] EXCEPT !.pinned = TRUE].pending)
                   /\ [rows[m] EXCEPT !.rescued = TRUE, !.pending = FALSE] \in EntryType
                   /\ [rows[m] EXCEPT !.rescued = TRUE, !.pending = FALSE].path = rows[m].path
                   /\ ~[rows[m] EXCEPT !.rescued = TRUE, !.pending = FALSE].pending
        <4>1. rows[m] \in EntryType /\ ~(rows[m].rescued /\ rows[m].pending)
          BY <1>1, <3>3
        <4> QED
          BY <4>1 DEF EntryType
      <3>4. CASE rows[m] # NoEntry /\ rows' = [rows EXCEPT ![m] = [rows[m] EXCEPT !.pinned = TRUE]]
        <4> DEFINE e == [rows[m] EXCEPT !.pinned = TRUE]
        <4>1. rows' = [rows EXCEPT ![m] = e] /\ e \in EntryType /\ e.path = rows[m].path /\ ~(e.rescued /\ e.pending)
          BY <3>3, <3>4
        <4> HIDE DEF e
        <4> QED
          BY <3>2, <3>4, <4>1
      <3>5. CASE rows[m] # NoEntry /\ rows' = [rows EXCEPT ![m] = [rows[m] EXCEPT !.rescued = TRUE, !.pending = FALSE]]
        <4> DEFINE e == [rows[m] EXCEPT !.rescued = TRUE, !.pending = FALSE]
        <4>1. rows' = [rows EXCEPT ![m] = e] /\ e \in EntryType /\ e.path = rows[m].path /\ ~(e.rescued /\ e.pending)
          BY <3>3, <3>5
        <4> HIDE DEF e
        <4> QED
          BY <3>2, <3>5, <4>1
      <3> QED
        BY <2>2, <3>1, <3>4, <3>5
    <2>4. \A k \in Messages : rows'[k] # NoEntry => rows'[k].path \in DOMAIN item
      BY <1>1, <2>3
    <2>5. \A q : Owned(q)' <=> Owned(q)
      BY <2>3 DEF Owned, Has
    <2>6. DiskInv'
      <3>1. EntryHasFile'
        BY <2>1, <2>3 DEF DiskInv, FilesAreAccounted, EntryHasFile, Has
      <3>2. NothingLeaks'
        BY <2>1, <2>5 DEF DiskInv, FilesAreAccounted, NothingLeaks
      <3> QED
        BY <2>1, <3>1, <3>2 DEF DiskInv, FilesAreAccounted, PublishedIsVerifiable
    <2> QED
      BY <1>1, <2>1, <2>3, <2>4, <2>5, <2>6, ShrinkKeeps
  <1>9. ASSUME NEW m \in Messages, Expire(m) PROVE LibInv'
    <2>1. /\ UNCHANGED <<rows, gens, item, journal, summed, files, parts, lost, cleanup, receipts, task, system, acked>>
          /\ expired' \subseteq Messages
      BY <1>1, <1>9 DEF Expire
    <2>2. DiskInv'
      BY <2>1 DEF DiskInv, FilesAreAccounted, EntryHasFile, NothingLeaks, PublishedIsVerifiable, Has, Owned
    <2>3. \A q \in Nat : Owned(q)' <=> Owned(q)
      BY <2>1, OwnedSame
    <2> QED
      BY <1>1, <2>1, <2>2, <2>3, ShrinkKeeps
  <1>10. ASSUME NEW p \in Paths, LoseFile(p) PROVE LibInv'
    <2>1. /\ UNCHANGED <<rows, gens, item, journal, summed, parts, cleanup, receipts, expired, task, system, acked>>
          /\ files' = files \ {p} /\ lost' = lost \cup {p} /\ p \in files
      BY <1>10 DEF LoseFile
    <2>2. \A q : Owned(q)' <=> Owned(q)
      BY <2>1 DEF Owned, Has
    <2>3. DiskInv'
      <3>1. EntryHasFile'
        BY <2>1 DEF DiskInv, FilesAreAccounted, EntryHasFile, Has
      <3>2. NothingLeaks'
        BY <2>1, <2>2 DEF DiskInv, FilesAreAccounted, NothingLeaks
      <3> QED
        BY <2>1, <3>1, <3>2 DEF DiskInv, FilesAreAccounted, PublishedIsVerifiable
    <2> QED
      BY <1>1, <2>1, <2>2, <2>3, ShrinkKeeps
  <1> QED
    BY <1>3, <1>4, <1>5, <1>6, <1>7, <1>8, <1>9, <1>10

\* An ingestion ends with the outbox.
LEMMA IngestDrainKeeps ==
    ASSUME LibInv, NEW w \in Workers, IngestDrain(w)
    PROVE  LibInv'
  <1> USE DEF LibInv, journals, rescue, history
  <1>1. /\ UNCHANGED <<rows, gens, item, journal, summed, parts, lost, receipts, expired, system, acked>>
        /\ Up /\ Drained /\ task' = [task EXCEPT ![w] = Idle]
    BY DEF IngestDrain, At, End
  <1>2. DiskInv' /\ files' \subseteq files /\ cleanup' \subseteq cleanup
    BY <1>1, DrainedKeeps
  <1>3. task'[w] = Idle
    BY <1>1 DEF LibTypes
  <1>4. LibTypes'
    BY <1>1, <1>2, IdleTask DEF LibTypes
  <1>5. Refers'
    BY <1>1, IdleTask, RefersKept
  <1>6. TaskFits(w)' /\ ~Keeps(w)'
    BY <1>3, IdleTask DEF TaskFits, Keeps, Transferring
  <1>7. \A q \in Nat : Owned(q)' <=> Owned(q)
    BY <1>1, OwnedSame
  <1>8. TaskInv'
    BY <1>1, <1>2, <1>6, <1>7, IdleTask, OthersStay
  <1> QED
    BY <1>1, <1>2, <1>4, <1>5, <1>8, UpKept

\* A step while no ingestion runs.
LEMMA AloneKeeps ==
    ASSUME LibInv, task' \in [Workers -> TaskType], \A w \in Workers : task'[w] = Idle,
           UNCHANGED <<gens, item, summed, receipts, expired>>, DiskInv',
           rows' \in [Messages -> EntryType \cup {NoEntry}],
           acked' \in [Messages -> Media \cup {None}],
           journal' \cup files' \cup parts' \cup lost' \cup cleanup' \subseteq DOMAIN item,
           \A m \in Messages : rows'[m] # NoEntry => rows'[m].path \in DOMAIN item,
           \A m \in Messages : ~(rows'[m].rescued /\ rows'[m].pending),
           system' \in SystemType, system'.pc # "next" => system'.path \in DOMAIN item, BootInv'
    PROVE  LibInv'
  <1> USE DEF LibInv
  <1>1. LibTypes'
    BY DEF LibTypes
  <1>2. Refers'
    BY IdleTask DEF Refers, Has
  <1>3. \A w \in Workers : TaskFits(w)' /\ ~Keeps(w)' /\ task'[w].path = 0
    BY IdleTask DEF TaskFits, Keeps, Transferring
  <1>4. TaskInv'
    BY <1>3 DEF TaskInv, Private
  <1> QED
    BY <1>1, <1>2, <1>4

\* The stages of a start.
LEMMA SystemShapes ==
    ASSUME NEW pc \in {"next", "entry", "unowned", "part", "drop"}, NEW p \in Nat
    PROVE  /\ Booting(pc, p) \in SystemType /\ Booting(pc, p).pc = pc /\ Booting(pc, p).path = p
           /\ Booting(pc, p).state = "recovering"
           /\ Running \in SystemType /\ Running.pc = "next" /\ Running.state = "up"
           /\ Stopped \in SystemType /\ Stopped.pc = "next" /\ Stopped.state = "down"
  BY DEF Booting, Running, Stopped, SystemType

\* A crash, and the recovery that follows.
LEMMA RecoveryKeeps ==
    ASSUME LibInv, Crash \/ Recover
    PROVE  LibInv'
  <1> USE DEF LibInv, journals, disk, rescue, history
  <1>1. /\ rows \in [Messages -> EntryType \cup {NoEntry}]
        /\ \A m \in Messages : rows[m] # NoEntry => rows[m].path \in DOMAIN item
        /\ \A m \in Messages : ~(rows[m].rescued /\ rows[m].pending)
        /\ journal \cup files \cup parts \cup lost \cup cleanup \subseteq DOMAIN item
        /\ acked \in [Messages -> Media \cup {None}] /\ task \in [Workers -> TaskType]
        /\ system \in SystemType /\ system.path \in Nat
        /\ system.pc # "next" => system.path \in DOMAIN item
        /\ DOMAIN item \subseteq Nat
    BY DEF LibTypes, Refers, Has, SystemType
  <1>2. UNCHANGED <<gens, item, summed, receipts, expired>>
    BY DEF Crash, Recover, Start, NextJournalled, DropSuperseded, DropIncomplete, RecoverEntry, DropUnowned,
           DropPart, DropJournal, Ready
  <1>3. /\ task' \in [Workers -> TaskType] /\ \A w \in Workers : task'[w] = Idle
    <2>1. CASE Crash
      BY <2>1, IdleTask DEF Crash
    <2>2. CASE Recover
      <3>1. UNCHANGED task
        BY <2>2 DEF Recover, Start, NextJournalled, DropSuperseded, DropIncomplete, RecoverEntry,
                    DropUnowned, DropPart, DropJournal, Ready
      <3>2. ~Up
        BY <2>2 DEF Recover, Start, NextJournalled, DropSuperseded, DropIncomplete, RecoverEntry,
                    DropUnowned, DropPart, DropJournal, Ready, Recovering, Up, Booting, Stopped
      <3> QED
        BY <1>1, <3>1, <3>2 DEF BootInv
    <2> QED
      BY <2>1, <2>2
  <1>4. ASSUME UNCHANGED <<rows, journal, files, parts, lost, cleanup, acked>>,
               \E pc \in {"next", "entry", "part"}, p \in Nat :
                  /\ pc # "next" => p \in DOMAIN item
                  /\ pc = "part" => p \notin files
                  /\ system' = Booting(pc, p) \/ (pc = "next" /\ system' = Stopped)
        PROVE  LibInv'
    <2>1. DiskInv'
      BY <1>2, <1>4 DEF DiskInv, FilesAreAccounted, EntryHasFile, NothingLeaks, PublishedIsVerifiable, Has, Owned
    <2>2. /\ system' \in SystemType /\ system'.state # "up"
          /\ system'.pc # "next" => system'.path \in DOMAIN item
          /\ system'.pc # "drop" /\ (system'.pc = "part" => system'.path \notin files)
      BY <1>4, SystemShapes
    <2>3. BootInv'
      BY <1>3, <1>4, <2>2 DEF BootInv, Up
    <2> QED
      BY <1>1, <1>2, <1>3, <1>4, <2>1, <2>2, <2>3, AloneKeeps
  <1>5. CASE Crash
    <2>1. system' = Stopped /\ UNCHANGED <<rows, journal, files, parts, lost, cleanup, acked>>
      BY <1>5 DEF Crash
    <2>2. "next" \in {"next", "entry", "part"} /\ 0 \in Nat
      OBVIOUS
    <2> QED
      BY <1>4, <2>1, <2>2
  <1>6. CASE Start
    <2>1. system' = Booting("next", 0) /\ UNCHANGED <<rows, journal, files, parts, lost, cleanup, acked>>
      BY <1>6 DEF Start
    <2>2. "next" \in {"next", "entry", "part"} /\ 0 \in Nat
      OBVIOUS
    <2> QED
      BY <1>4, <2>1, <2>2
  <1>7. CASE NextJournalled
    <2>1. PICK p \in journal : system' = Booting("entry", p)
      BY <1>7 DEF NextJournalled
    <2>2. "entry" \in {"next", "entry", "part"} /\ p \in Nat /\ p \in DOMAIN item
      BY <1>1
    <2>3. UNCHANGED <<rows, journal, files, parts, lost, cleanup, acked>>
      BY <1>7 DEF NextJournalled
    <2> QED
      BY <1>4, <2>1, <2>2, <2>3
  <1>8. CASE DropIncomplete
    <2>1. /\ system' = Booting("part", system.path) /\ system.pc = "entry" /\ system.path \notin files
          /\ UNCHANGED <<rows, journal, files, parts, lost, cleanup, acked>>
      BY <1>8 DEF DropIncomplete, RecoverGoto, Recovering
    <2>2. "part" \in {"next", "entry", "part"}
      OBVIOUS
    <2> QED
      BY <1>1, <1>4, <2>1, <2>2
  <1>9. CASE DropSuperseded \/ DropUnowned
    <2> DEFINE p == system.path
    <2>1. /\ system' = Booting("part", p) /\ p \in DOMAIN item /\ p \in Nat
          /\ files' = IF Owned(p) THEN files ELSE files \ {p}
          /\ UNCHANGED <<rows, journal, parts, lost, cleanup, acked>>
      BY <1>1, <1>9 DEF DropSuperseded, DropUnowned, RecoverGoto, Recovering
    <2>2. /\ \A q \in Nat : Owned(q)' <=> Owned(q)
          /\ \A m \in Messages : Has(m)' <=> Has(m)
      BY <2>1, OwnedSame
    <2>3. DiskInv'
      <3>1. EntryHasFile'
        BY <2>1, <2>2 DEF DiskInv, FilesAreAccounted, EntryHasFile, Owned
      <3>2. NothingLeaks'
        BY <1>1, <2>1, <2>2 DEF DiskInv, FilesAreAccounted, NothingLeaks
      <3> QED
        BY <1>2, <2>1, <3>1, <3>2 DEF DiskInv, FilesAreAccounted, PublishedIsVerifiable
    <2>4. /\ system' \in SystemType /\ system'.pc = "part" /\ system'.path = p /\ system'.state = "recovering"
      BY <2>1, SystemShapes
    <2>5. p \notin files' \/ Owned(p)
      BY <2>1
    <2>6. ASSUME NEW q \in {p}, q \in files' PROVE Owned(q)'
      BY <2>1, <2>2, <2>5, <2>6
    <2>7. BootInv'
      <3>1. system'.path \notin files' \/ Owned(system.path)'
        <4>1. CASE p \in files'
          BY <2>1, <2>4, <2>5, <4>1 DEF Owned, Has
        <4>2. CASE p \notin files'
          BY <2>4, <4>2
        <4> QED
          BY <4>1, <4>2
      <3> QED
        BY <1>3, <2>4, <3>1 DEF BootInv, Up
    <2> QED
      BY <1>1, <1>2, <1>3, <2>1, <2>3, <2>4, <2>7, AloneKeeps
  <1>10. CASE RecoverEntry
    <2> DEFINE p == system.path
               t == item[p]
    <2>1. /\ p \in DOMAIN item /\ p \in files /\ UNCHANGED <<files, parts, lost>>
      <3>1. p \in files /\ p \in summed
        BY <1>10 DEF RecoverEntry
      <3>2. p \in DOMAIN item
        BY <1>1, <3>1 DEF LibTypes
      <3>3. UNCHANGED disk
        BY <1>10 DEF RecoverEntry
      <3> QED
        BY <3>1, <3>2, <3>3 DEF disk
    <2>2. t.msg \in Messages /\ t.media \in Media /\ t.gen \in Nat
      <3>1. \A k \in DOMAIN item : item[k] \in ItemType
        BY DEF LibTypes
      <3>2. t \in ItemType
        BY <2>1, <3>1
      <3> QED
        BY <3>2 DEF ItemType
    <2>3. PICK c \in files : /\ Catalog(t.msg, t.media, t.gen, c)
                             /\ \/ system' = Booting("unowned", p)
                                \/ c = p /\ system' = Booting("part", p)
      BY <1>10, <2>1 DEF RecoverEntry, RecoverGoto
    <2>4. /\ rows' \in [Messages -> EntryType \cup {NoEntry}]
          /\ cleanup' \subseteq DOMAIN item /\ journal' = journal \ {c}
          /\ acked' \in [Messages -> Media \cup {None}]
          /\ \A k \in Messages : rows'[k] # NoEntry => rows'[k].path \in DOMAIN item
          /\ \A k \in Messages : ~(rows'[k].rescued /\ rows'[k].pending)
          /\ Owned(c)' /\ DiskInv'
      <3> HIDE DEF t
      <3> QED
        BY <1>2, <2>1, <2>2, <2>3, CatalogKeeps
    <2>5. /\ system' \in SystemType /\ system'.pc \in {"unowned", "part"} /\ system'.path = p
          /\ system'.state = "recovering" /\ (system'.pc = "part" => c = p)
      BY <1>1, <2>3, SystemShapes
    <2>6. BootInv'
      <3>1. system'.pc = "part" => Owned(system.path)'
        BY <2>4, <2>5 DEF Owned, Has
      <3> QED
        BY <1>3, <2>5, <3>1 DEF BootInv, Up
    <2> QED
      BY <1>1, <1>2, <1>3, <2>1, <2>4, <2>5, <2>6, AloneKeeps
  <1>11. CASE DropPart
    <2> DEFINE p == system.path
    <2>1. /\ system.pc = "part" /\ system' = Booting("drop", p) /\ parts' = parts \ {p}
          /\ p \in DOMAIN item /\ (p \notin files \/ Owned(p))
          /\ UNCHANGED <<rows, journal, files, lost, cleanup, acked>>
      BY <1>1, <1>11 DEF DropPart, RecoverGoto, Recovering, BootInv
    <2>2. DiskInv'
      BY <1>2, <2>1 DEF DiskInv, FilesAreAccounted, EntryHasFile, NothingLeaks, PublishedIsVerifiable, Has, Owned
    <2>3. /\ system' \in SystemType /\ system'.pc = "drop" /\ system'.path = p /\ system'.state = "recovering"
      BY <1>1, <2>1, SystemShapes
    <2>4. BootInv'
      <3>1. system'.path \notin files' \/ Owned(system.path)'
        BY <2>1, <2>3 DEF Owned, Has
      <3> QED
        BY <1>3, <2>1, <2>3, <3>1 DEF BootInv, Up
    <2> QED
      BY <1>1, <1>2, <1>3, <2>1, <2>2, <2>3, <2>4, AloneKeeps
  <1>12. CASE DropJournal
    <2> DEFINE p == system.path
    <2>1. /\ system.pc = "drop" /\ system' = Booting("next", 0) /\ journal' = journal \ {p}
          /\ p \notin parts /\ (p \notin files \/ Owned(p))
          /\ UNCHANGED <<rows, files, parts, lost, cleanup, acked>>
      BY <1>12 DEF DropJournal, Recovering, BootInv
    <2>2. DiskInv'
      BY <1>2, <2>1 DEF DiskInv, FilesAreAccounted, EntryHasFile, NothingLeaks, PublishedIsVerifiable, Has, Owned
    <2>3. /\ system' \in SystemType /\ system'.pc = "next" /\ system'.state = "recovering"
      BY <2>1, SystemShapes
    <2>4. BootInv'
      BY <1>3, <2>3 DEF BootInv, Up
    <2> QED
      BY <1>1, <1>2, <1>3, <2>1, <2>2, <2>3, <2>4, AloneKeeps
  <1>13. CASE Ready
    <2>1. system' = Running /\ Drained /\ UNCHANGED <<rows, journal, parts, lost, acked>>
      BY <1>13 DEF Ready
    <2>2. DiskInv' /\ files' \subseteq files /\ cleanup' \subseteq cleanup
      BY <1>2, <2>1, DrainedKeeps
    <2>3. /\ system' \in SystemType /\ system'.pc = "next" /\ system'.state = "up"
      BY <2>1, SystemShapes
    <2>4. BootInv'
      BY <2>3 DEF BootInv, Up
    <2> QED
      BY <1>1, <1>2, <1>3, <2>1, <2>2, <2>3, <2>4, AloneKeeps
  <1> QED
    BY <1>5, <1>6, <1>7, <1>8, <1>9, <1>10, <1>11, <1>12, <1>13 DEF Recover

\* Nothing is there at first.
LEMMA LibInit == Init => LibInv
  <1> SUFFICES ASSUME Init PROVE LibInv
    OBVIOUS
  <1>1. DOMAIN item = {} /\ item \in Seq(ItemType)
    BY DEF Init
  <1>2. Running \in SystemType /\ Running.pc = "next" /\ Up
    BY DEF Init, Running, SystemType, Up
  <1>3. \A m \in Messages : ~Has(m) /\ ~rows[m].pending
    BY DEF Init, Has, NoEntry
  <1>4. LibTypes
    BY <1>1, <1>2, IdleTask DEF Init, LibTypes
  <1>5. Refers
    BY <1>1, <1>2, <1>3, IdleTask DEF Init, Refers
  <1>6. DiskInv
    BY <1>3 DEF Init, DiskInv, FilesAreAccounted, EntryHasFile, NothingLeaks, PublishedIsVerifiable
  <1>7. TaskInv
    BY IdleTask DEF Init, TaskInv, TaskFits, Private, Keeps, Transferring
  <1>8. BootInv
    BY <1>2 DEF Init, BootInv
  <1> QED
    BY <1>4, <1>5, <1>6, <1>7, <1>8 DEF LibInv

\* What answers for the files, at all times.
LEMMA LibraryInvariant == Spec => []LibInv
  <1>1. LibInv /\ [Next]_vars => LibInv'
    <2> SUFFICES ASSUME LibInv, [Next]_vars PROVE LibInv'
      OBVIOUS
    <2>1. CASE UNCHANGED vars
      BY <2>1 DEF vars, LibInv, LibTypes, Refers, DiskInv, TaskInv, BootInv, FilesAreAccounted, EntryHasFile,
                  NothingLeaks, PublishedIsVerifiable, TaskFits, Private, Keeps, Has, Owned, Up
    <2>2. ASSUME NEW w \in Workers, Work(w) \/ TransferFails(w) \/ Abandon(w) PROVE LibInv'
      BY <2>2, LookupsKeep, TransferKeeps, RegisterKeeps, IngestDrainKeeps DEF Work
    <2>3. ASSUME NEW w \in Workers, NEW m \in Messages, NEW skip \in SkipModes, NEW media \in Carries[m],
                 Begin(w, m, media, skip)
          PROVE  LibInv'
      BY <2>3, LookupsKeep
    <2> QED
      BY <2>1, <2>2, <2>3, JanitorsKeep, RecoveryKeeps DEF Next
  <1> QED
    BY <1>1, LibInit, PTL DEF Spec

\* The columns and records of the library keep the types of its schema, through ingestions,
\* crashes, recoveries and deletions.
THEOREM LibraryTypeCorrect == Spec => []TypeOK
  <1>1. LibInv => TypeOK
    BY DEF LibInv, LibTypes, Refers, DiskInv, TypeOK, EntryType, Has
  <1> QED
    BY <1>1, LibraryInvariant, PTL

\* FilesAreAccounted (register, drainFileCleanup, recoverIngest): the catalog and the disk
\* agree whatever ingestions, deletions, failures, crashes and recoveries do.
THEOREM FilesStayAccounted == Spec => []FilesAreAccounted
  <1>1. LibInv => FilesAreAccounted
    BY DEF LibInv, DiskInv
  <1> QED
    BY <1>1, LibraryInvariant, PTL
-----------------------------------------------------------------------------
(* What an entry was published as.                                         *)

\* No entry is later than its message's last ingestion.
GenInv == \A m \in Messages : Has(m) => rows[m].gen <= gens[m]

\* An entry keeps its generation, goes, or is the work of the message's last ingestion.
GenStep == \A m \in Messages :
    /\ gens'[m] \in Nat /\ gens[m] <= gens'[m]
    /\ Has(m)' => (Has(m) /\ rows'[m].gen = rows[m].gen) \/ rows'[m].gen = gens'[m]

\* What only the entry of a message, and its generation, depend on.
LEMMA RowsSame ==
    ASSUME LibTypes, UNCHANGED <<rows, gens>> PROVE GenStep
  BY DEF LibTypes, GenStep, Has

\* A publication by the last ingestion,
LEMMA CatalogGen ==
    ASSUME LibTypes, UNCHANGED gens, NEW m \in Messages, NEW d \in Media, NEW p, Catalog(m, d, gens[m], p)
    PROVE  GenStep
  <1>1. rows' = [rows EXCEPT ![m] = Entry(m, d, gens[m], p)]
    BY DEF Catalog
  <1>2. Entry(m, d, gens[m], p).gen = gens[m]
    BY DEF Entry
  <1> QED
    BY <1>1, <1>2 DEF LibTypes, GenStep, Has

\* a deletion,
LEMMA ShrinkGen ==
    ASSUME LibTypes, UNCHANGED gens, \A m \in Messages : rows'[m] \in {rows[m], NoEntry}
    PROVE  GenStep
  BY DEF LibTypes, GenStep, Has

\* one of several entries in a transaction,
LEMMA RemoveShrinks ==
    ASSUME LibTypes, NEW j \in Janitors, NEW S, Remove(j, S)
    PROVE  UNCHANGED gens /\ \A m \in Messages : rows'[m] \in {rows[m], NoEntry}
  BY DEF Remove

\* a change of the other columns.
LEMMA TouchGen ==
    ASSUME LibTypes, UNCHANGED gens, NEW m \in Messages, Has(m), NEW r, r.gen = rows[m].gen,
           rows' = [rows EXCEPT ![m] = r]
    PROVE  GenStep
  BY DEF LibTypes, GenStep, Has

\* Every step moves the generations of the entries as they should.
LEMMA GenMoves ==
    ASSUME LibInv, Next
    PROVE  GenStep
  <1> USE DEF LibInv, journals, disk, rescue, history
  <1>1. ASSUME NEW w \in Workers, Work(w) \/ TransferFails(w) \/ Abandon(w), ~Register(w) PROVE GenStep
    <2>1. UNCHANGED <<rows, gens>>
      BY <1>1 DEF Work, Enter, Landed, Existing, Reuse, Unregistrable, Journal, Part, Receive, Publish,
                  Redundant, Unjournal, IngestDrain, TransferFails, Abandon
    <2> QED
      BY <2>1, RowsSame
  <1>2. ASSUME NEW w \in Workers, Register(w) PROVE GenStep
    <2>1. /\ gens[task[w].msg] = task[w].gen /\ UNCHANGED gens
          /\ Catalog(task[w].msg, task[w].media, task[w].gen, task[w].pick)
      BY <1>2 DEF Register
    <2>2. task[w].msg \in Messages /\ task[w].media \in Media
      BY <1>2, TypedTask DEF Register, At
    <2> QED
      BY <2>1, <2>2, CatalogGen
  <1>3. ASSUME NEW w \in Workers, NEW m \in Messages, NEW skip \in SkipModes, NEW media \in Carries[m],
               Begin(w, m, media, skip)
        PROVE  GenStep
    <2>1. UNCHANGED rows /\ gens' = [gens EXCEPT ![m] = @ + 1]
      BY <1>3 DEF Begin
    <2> QED
      BY <2>1 DEF LibTypes, GenStep, Has
  <1>4. ASSUME NEW j \in Janitors, Drain(j) PROVE GenStep
    BY <1>4, RowsSame DEF Drain
  <1>5. ASSUME NEW j \in Janitors, NEW S, Remove(j, S) PROVE GenStep
    BY <1>5, RemoveShrinks, ShrinkGen
  <1>6. ASSUME NEW m \in Messages, PruneMissing(m) PROVE GenStep
    <2>1. UNCHANGED gens /\ \A k \in Messages : rows'[k] \in {rows[k], NoEntry}
      BY <1>6 DEF PruneMissing, LibTypes
    <2> QED
      BY <2>1, ShrinkGen
  <1>7. ASSUME NEW m \in Messages, Pin(m) \/ Mark(m) PROVE GenStep
    <2>1. UNCHANGED gens
      BY <1>7 DEF Pin, Mark
    <2>2. Has(m) => rows[m] \in EntryType
      BY DEF LibTypes, Has
    <2>3. CASE UNCHANGED rows
      BY <2>1, <2>3, RowsSame
    <2>4. CASE rows[m].pending /\ rows' = [rows EXCEPT ![m].rescued = TRUE, ![m].pending = FALSE]
      <3>1. Has(m)
        BY <2>4 DEF Has, NoEntry
      <3> DEFINE r == [rows[m] EXCEPT !.rescued = TRUE, !.pending = FALSE]
      <3>2. r.gen = rows[m].gen
        BY <2>2, <3>1 DEF EntryType
      <3>3. rows' = [rows EXCEPT ![m] = r]
        BY <2>4
      <3> HIDE DEF r
      <3> QED
        BY <2>1, <3>1, <3>2, <3>3, TouchGen
    <2>5. CASE Has(m) /\ rows' = [rows EXCEPT ![m].pinned = TRUE]
      <3> DEFINE r == [rows[m] EXCEPT !.pinned = TRUE]
      <3>2. r.gen = rows[m].gen
        BY <2>2, <2>5 DEF EntryType
      <3>3. rows' = [rows EXCEPT ![m] = r]
        BY <2>5
      <3> HIDE DEF r
      <3> QED
        BY <2>1, <2>5, <3>2, <3>3, TouchGen
    <2> QED
      BY <1>7, <2>3, <2>4, <2>5 DEF Pin, Mark
  <1>8. ASSUME NEW m \in Messages, Expire(m) PROVE GenStep
    BY <1>8, RowsSame DEF Expire
  <1>9. ASSUME NEW p \in Paths, LoseFile(p) PROVE GenStep
    BY <1>9, RowsSame DEF LoseFile
  <1>10. CASE RecoverEntry
    <2> DEFINE p == system.path
    <2>1. p \in DOMAIN item
      BY <1>10 DEF RecoverEntry, LibTypes
    <2>2. item[p] \in ItemType
      BY <2>1 DEF LibTypes
    <2>3. item[p].msg \in Messages /\ item[p].media \in Media /\ item[p].gen = gens[item[p].msg]
      BY <1>10, <2>2 DEF ItemType, RecoverEntry, Current
    <2>4. \E c : Catalog(item[p].msg, item[p].media, item[p].gen, c)
      BY <1>10 DEF RecoverEntry
    <2>5. UNCHANGED gens
      BY <1>10 DEF RecoverEntry
    <2> QED
      BY <2>3, <2>4, <2>5, CatalogGen
  <1>11. CASE Crash \/ (Recover /\ ~RecoverEntry)
    <2>1. UNCHANGED <<rows, gens>>
      BY <1>11 DEF Crash, Recover, Start, NextJournalled, DropSuperseded, DropIncomplete, DropUnowned,
                   DropPart, DropJournal, Ready
    <2> QED
      BY <2>1, RowsSame
  <1>12. ASSUME NEW j \in Janitors, SweepRescue(j) PROVE GenStep
    BY <1>5, <1>12 DEF SweepRescue
  <1>13. ASSUME NEW j \in Janitors, NEW m \in Messages, DeleteEntries(j, m) \/ RotateBatch(j, m) PROVE GenStep
    BY <1>5, <1>13 DEF DeleteEntries, RotateBatch
  <1> QED
    BY <1>1, <1>2, <1>3, <1>4, <1>6, <1>7, <1>8, <1>9, <1>10, <1>11, <1>12, <1>13 DEF Next, Work

\* NeverOlder (register, recoverIngest): an entry is never put back to what an earlier
\* ingestion of its message brought, whatever crashes and recoveries come between.
THEOREM EntriesNeverOlder == Spec => NeverOlder
  <1>1. Init => GenInv
    BY DEF Init, GenInv, Has
  <1>2. LibInv /\ GenInv /\ [Next]_vars => GenStep
    <2>1. ASSUME LibInv, UNCHANGED vars PROVE GenStep
      BY <2>1, RowsSame DEF LibInv, vars
    <2> QED
      BY <2>1, GenMoves
  <1>3. LibInv /\ LibInv' /\ GenInv /\ GenStep => GenInv'
    <2> SUFFICES ASSUME LibInv, LibInv', GenInv, GenStep, NEW m \in Messages, Has(m)'
                 PROVE  rows'[m].gen <= gens'[m]
      BY DEF GenInv
    <2>1. rows'[m].gen \in Nat /\ gens'[m] \in Nat /\ gens[m] \in Nat
      BY DEF LibInv, LibTypes, EntryType, Has
    <2>2. CASE Has(m) /\ rows'[m].gen = rows[m].gen
      BY <2>1, <2>2 DEF GenInv, GenStep
    <2>3. CASE rows'[m].gen = gens'[m]
      BY <2>1, <2>3
    <2> QED
      BY <2>2, <2>3 DEF GenStep
  <1>4. LibInv /\ LibInv' /\ GenInv /\ GenStep
        => \A m \in Messages : Has(m) /\ (rows[m] # NoEntry)' => rows'[m].gen >= rows[m].gen
    <2> SUFFICES ASSUME LibInv, LibInv', GenInv, GenStep, NEW m \in Messages, Has(m), Has(m)'
                 PROVE  rows'[m].gen >= rows[m].gen
      BY DEF Has
    <2>1. rows[m].gen \in Nat /\ rows'[m].gen \in Nat /\ gens[m] \in Nat
      BY DEF LibInv, LibTypes, EntryType, Has
    <2> QED
      BY <2>1 DEF GenInv, GenStep
  <1> QED
    BY <1>1, <1>2, <1>3, <1>4, LibraryInvariant, PTL DEF Spec, NeverOlder
-----------------------------------------------------------------------------
(* What a deleted source leaves to be kept.  Without                       *)
(* SkipDuplicates every message whose media was settled has its own entry. *)

\* What a message's last ingestion settled is its entry's media.
SettledIsHeld == \A m \in Messages : acked[m] # None => Has(m) /\ rows[m].media = acked[m]

\* A receipt and the entry it is for agree.
PendingIsMarked == \A m \in Messages : receipts[m] = "pending" /\ Has(m) => rows[m].pending

\* What was promised is kept by the message's own entry, which nothing sweeps or rotates.
PromiseIsHeld == \A q \in promised :
    \E m \in Messages : Has(m) /\ rows[m].rescued /\ q = <<m, Bytes[rows[m].media]>>

NoneSkips == \A w \in Workers : task[w].skip = FALSE

\* No step of an ingestion changes its mode.
LEMMA SkipShape ==
    ASSUME NEW r \in TaskType, NEW pc, NEW p, NEW c, NEW s, NEW a
    PROVE  /\ [r EXCEPT !.pc = pc].skip = r.skip
           /\ [r EXCEPT !.pc = pc, !.pick = p, !.cand = c].skip = r.skip
           /\ [r EXCEPT !.pc = pc, !.path = p].skip = r.skip
           /\ [r EXCEPT !.pc = pc, !.stage = s].skip = r.skip
           /\ [r EXCEPT !.pc = pc, !.after = a].skip = r.skip
  BY DEF TaskType

\* An ingestion keeps the mode it began with.
LEMMA SkipsKept ==
    ASSUME LibTypes, NoneSkips, NEW w \in Workers, NEW t, task' = [task EXCEPT ![w] = t], t.skip = FALSE
    PROVE  NoneSkips'
  BY DEF LibTypes, NoneSkips

\* Without SkipDuplicates no ingestion ever skips.
LEMMA NoneEverSkips ==
    ASSUME LibTypes, NoneSkips, SkipModes \subseteq {FALSE}, Next
    PROVE  NoneSkips'
  <1>1. Idle.skip = FALSE
    BY DEF Idle
  <1>2. \A v \in Workers : task[v] \in TaskType /\ task[v].skip = FALSE
    BY DEF LibTypes, NoneSkips
  <1>3. ASSUME NEW w \in Workers, NEW pc, Goto(w, pc) PROVE NoneSkips'
    <2> DEFINE t == [task[w] EXCEPT !.pc = pc]
    <2>1. task' = [task EXCEPT ![w] = t]
      BY <1>3 DEF Goto
    <2>2. t.skip = FALSE
      BY <1>2, SkipShape
    <2> HIDE DEF t
    <2> QED
      BY <2>1, <2>2, SkipsKept
  <1>4. ASSUME NEW w \in Workers, End(w) PROVE NoneSkips'
    BY <1>1, <1>4, SkipsKept DEF End
  <1>5. ASSUME NEW w \in Workers, NEW found, Choose(w, found) PROVE NoneSkips'
    <2>1. PICK pc, p, c : task' = [task EXCEPT ![w].pc = pc, ![w].pick = p, ![w].cand = c]
      <3>1. CASE \E p \in found \cap files :
                    task' = [task EXCEPT ![w].pc = "register", ![w].pick = p, ![w].cand = found \ {p}]
        BY <3>1
      <3>2. CASE task' = [task EXCEPT ![w].pc = IF task[w].stage = "identity" THEN "journal" ELSE "register",
                                      ![w].pick = task[w].path, ![w].cand = {}]
        BY <3>2
      <3> QED
        BY <1>5, <3>1, <3>2 DEF Choose
    <2> DEFINE t == [task[w] EXCEPT !.pc = pc, !.pick = p, !.cand = c]
    <2>2. task' = [task EXCEPT ![w] = t]
      BY <2>1 DEF LibTypes
    <2>3. t.skip = FALSE
      BY <1>2, SkipShape
    <2> HIDE DEF t
    <2> QED
      BY <2>2, <2>3, SkipsKept
  <1>6. ASSUME NEW w \in Workers, Enter(w) \/ Existing(w) \/ Part(w) \/ Receive(w) \/ Redundant(w)
               \/ Unjournal(w) \/ Unregistrable(w) \/ IngestDrain(w) \/ TransferFails(w) \/ Abandon(w)
        PROVE  NoneSkips'
    <2>1. End(w) \/ \E pc : Goto(w, pc)
      BY <1>6 DEF Enter, Landed, Existing, Part, Receive, Redundant, Unjournal, Unregistrable, IngestDrain,
                  TransferFails, Abandon
    <2> QED
      BY <2>1, <1>3, <1>4
  <1>7. ASSUME NEW w \in Workers, Reuse(w) PROVE NoneSkips'
    BY <1>5, <1>7 DEF Reuse
  <1>8. ASSUME NEW w \in Workers, Register(w) PROVE NoneSkips'
    <2>1. CASE Goto(w, "drain")
      BY <1>3, <2>1
    <2>2. CASE task' = [task EXCEPT ![w].pc = "redundant", ![w].after = "drain"]
      <3> DEFINE t == [task[w] EXCEPT !.pc = "redundant", !.after = "drain"]
      <3>1. task' = [task EXCEPT ![w] = t]
        BY <2>2 DEF LibTypes
      <3>2. t.skip = FALSE
        BY <1>2, SkipShape
      <3> HIDE DEF t
      <3> QED
        BY <3>1, <3>2, SkipsKept
    <2> QED
      BY <1>8, <2>1, <2>2 DEF Register
  <1>9. ASSUME NEW w \in Workers, Journal(w) PROVE NoneSkips'
    <2> DEFINE t == [task[w] EXCEPT !.pc = "part", !.path = Len(item) + 1]
    <2>1. task' = [task EXCEPT ![w] = t]
      BY <1>9 DEF Journal, LibTypes
    <2>2. t.skip = FALSE
      BY <1>2, SkipShape
    <2> HIDE DEF t
    <2> QED
      BY <2>1, <2>2, SkipsKept
  <1>10. ASSUME NEW w \in Workers, Publish(w) PROVE NoneSkips'
    <2> DEFINE t == [task[w] EXCEPT !.pc = "enter", !.stage = "content"]
    <2>1. task' = [task EXCEPT ![w] = t]
      BY <1>10 DEF Publish, LibTypes
    <2>2. t.skip = FALSE
      BY <1>2, SkipShape
    <2> HIDE DEF t
    <2> QED
      BY <2>1, <2>2, SkipsKept
  <1>11. ASSUME NEW w \in Workers, NEW m \in Messages, NEW skip \in SkipModes, NEW media \in Carries[m],
                Begin(w, m, media, skip)
         PROVE  NoneSkips'
    <2> DEFINE t == [Idle EXCEPT !.pc = "enter", !.msg = m, !.media = media, !.gen = gens[m] + 1, !.skip = skip]
    <2>1. task' = [task EXCEPT ![w] = t]
      BY <1>11 DEF Begin
    <2>2. t.skip = FALSE
      BY DEF Idle
    <2> HIDE DEF t
    <2> QED
      BY <2>1, <2>2, SkipsKept
  <1>12. CASE Crash
    BY <1>1, <1>12 DEF Crash, NoneSkips
  <1>13. ASSUME UNCHANGED task PROVE NoneSkips'
    BY <1>13 DEF NoneSkips
  <1>14. ASSUME NEW j \in Janitors, Drain(j) \/ SweepRescue(j) PROVE NoneSkips'
    BY <1>13, <1>14 DEF Drain, SweepRescue, Remove
  <1>15. ASSUME NEW j \in Janitors, NEW m \in Messages, DeleteEntries(j, m) \/ RotateBatch(j, m)
         PROVE  NoneSkips'
    BY <1>13, <1>15 DEF DeleteEntries, RotateBatch, Remove
  <1>16. ASSUME NEW m \in Messages, PruneMissing(m) \/ Pin(m) \/ Mark(m) \/ Expire(m) PROVE NoneSkips'
    BY <1>13, <1>16 DEF PruneMissing, Pin, Mark, Expire
  <1>17. ASSUME NEW p \in Paths, LoseFile(p) PROVE NoneSkips'
    BY <1>13, <1>17 DEF LoseFile
  <1>18. CASE Recover
    BY <1>13, <1>18 DEF Recover, Start, NextJournalled, DropSuperseded, DropIncomplete, RecoverEntry, DropUnowned,
                       DropPart, DropJournal, Ready
  <1> QED
    BY <1>6, <1>7, <1>8, <1>9, <1>10, <1>11, <1>12, <1>14, <1>15, <1>16, <1>17, <1>18 DEF Next, Work

-----------------------------------------------------------------------------
\* What a deleted source leaves is held.
Held == SettledIsHeld /\ PendingIsMarked /\ PromiseIsHeld

\* What else happens does not matter to it.
LEMMA HeldSame ==
    ASSUME Held, UNCHANGED <<rows, receipts, acked, promised>> PROVE Held'
  BY DEF Held, SettledIsHeld, PendingIsMarked, PromiseIsHeld, Has

\* A publication keeps the rescue of the entry it replaces.
LEMMA CatalogHeld ==
    ASSUME LibTypes, Refers, Held, UNCHANGED receipts, NEW m \in Messages, NEW d \in Media, NEW g \in Nat, NEW p \in Nat,
           Catalog(m, d, g, p)
    PROVE  Held'
  <1> DEFINE e == Entry(m, d, g, p)
  <1>1. /\ rows' = [rows EXCEPT ![m] = e] /\ acked' = [acked EXCEPT ![m] = d]
        /\ promised' = Promised(m, d)
    BY DEF Catalog
  <1>2. /\ e.media = d /\ e.rescued = (rows[m].rescued \/ receipts[m] = "rescued")
        /\ e.pending = (~e.rescued /\ IF Has(m) THEN rows[m].pending ELSE receipts[m] = "pending")
        /\ d # None
    BY LibraryAssumption DEF Entry
  <1>3. e # NoEntry
    BY <1>2 DEF NoEntry
  <1> HIDE DEF e
  <1>4. /\ rows'[m] = e /\ \A k \in Messages \ {m} : rows'[k] = rows[k]
        /\ acked'[m] = d /\ \A k \in Messages \ {m} : acked'[k] = acked[k]
    BY <1>1 DEF LibTypes
  <1>5. SettledIsHeld'
    BY <1>2, <1>3, <1>4 DEF Held, SettledIsHeld, Has
  <1>6. PendingIsMarked'
    <2>1. receipts[m] = "pending" => e.pending
      <3> SUFFICES ASSUME receipts[m] = "pending" PROVE e.pending
        OBVIOUS
      <3>1. ~rows[m].rescued
        BY DEF Held, PendingIsMarked, Refers, Has, NoEntry
      <3> QED
        BY <1>2, <3>1 DEF Held, PendingIsMarked
    <2> QED
      BY <1>4, <2>1 DEF Held, PendingIsMarked, Has
  <1>7. PromiseIsHeld'
    <2> SUFFICES ASSUME NEW q \in promised'
                 PROVE  \E k \in Messages : rows'[k] # NoEntry /\ rows'[k].rescued /\ q = <<k, Bytes[rows'[k].media]>>
      BY DEF PromiseIsHeld, Has
    <2>1. CASE q \in promised /\ q[1] # m
      BY <1>4, <2>1 DEF Held, PromiseIsHeld, Has
    <2>2. CASE receipts[m] = "rescued" /\ q = <<m, Bytes[d]>>
      BY <1>2, <1>3, <1>4, <2>2
    <2> QED
      BY <1>1, <2>1, <2>2 DEF Promised
  <1> QED
    BY <1>5, <1>6, <1>7 DEF Held

\* What goes is withdrawn, or was never promised.
LEMMA ShrinkHeld ==
    ASSUME LibTypes, Held, UNCHANGED receipts, NEW S \in SUBSET Messages,
           \A m \in Messages : IF m \in S THEN rows'[m] = NoEntry /\ acked'[m] = None
                                          ELSE rows'[m] = rows[m] /\ acked'[m] = acked[m],
           \/ promised' = Withdrawn(S)
           \/ UNCHANGED promised /\ \A m \in S : ~rows[m].rescued
    PROVE  Held'
  <1>1. SettledIsHeld' /\ PendingIsMarked'
    BY DEF Held, SettledIsHeld, PendingIsMarked, Has
  <1>2. ASSUME NEW q \in promised'
        PROVE  \E k \in Messages : rows'[k] # NoEntry /\ rows'[k].rescued /\ q = <<k, Bytes[rows'[k].media]>>
    <2>1. q \in promised
      BY <1>2 DEF Withdrawn
    <2>2. PICK k \in Messages : Has(k) /\ rows[k].rescued /\ q = <<k, Bytes[rows[k].media]>>
      BY <2>1 DEF Held, PromiseIsHeld
    <2>3. k \notin S
      <3>1. CASE promised' = Withdrawn(S)
        <4>1. \A m \in S : Bytes[rows[m].media] # q[2]
          BY <1>2, <3>1 DEF Withdrawn
        <4> QED
          BY <2>2, <4>1
      <3>2. CASE \A m \in S : ~rows[m].rescued
        BY <2>2, <3>2
      <3> QED
        BY <3>1, <3>2
    <2> QED
      BY <2>2, <2>3 DEF Has
  <1> QED
    BY <1>1, <1>2 DEF Held, PromiseIsHeld, Has

\* One transaction of a deletion.
LEMMA RemoveHeld ==
    ASSUME LibTypes, Held, NEW j \in Janitors, NEW S \in SUBSET Messages, Remove(j, S),
           \/ promised' = Withdrawn(S)
           \/ UNCHANGED promised /\ \A m \in S : ~rows[m].rescued
    PROVE  Held'
  <1>1. /\ UNCHANGED receipts
        /\ \A m \in Messages : IF m \in S THEN rows'[m] = NoEntry /\ acked'[m] = None
                                          ELSE rows'[m] = rows[m] /\ acked'[m] = acked[m]
    BY DEF Remove, rescue
  <1> QED
    BY <1>1, ShrinkHeld

\* The source is deleted: the entry that has the media is kept for good.
LEMMA MarkHeld ==
    ASSUME LibTypes, Refers, Held, NEW m \in Messages, Mark(m)
    PROVE  Held'
  <1>1. /\ receipts[m] = "pending" /\ receipts' = [receipts EXCEPT ![m] = "rescued"] /\ UNCHANGED acked
        /\ rows' = IF rows[m].pending THEN [rows EXCEPT ![m].rescued = TRUE, ![m].pending = FALSE] ELSE rows
        /\ promised' \subseteq promised \cup (IF acked[m] # None THEN {<<m, Bytes[acked[m]]>>} ELSE {})
    BY DEF Mark
  <1>2. rows[m].pending <=> Has(m)
    <2>1. CASE Has(m)
      BY <1>1, <2>1 DEF Held, PendingIsMarked
    <2>2. CASE ~Has(m)
      BY <2>2 DEF Has, NoEntry
    <2> QED
      BY <2>1, <2>2
  <1>3. /\ \A k \in Messages \ {m} : rows'[k] = rows[k] /\ receipts'[k] = receipts[k]
        /\ receipts'[m] = "rescued"
    BY <1>1 DEF LibTypes
  <1>4. /\ rows'[m] # NoEntry <=> Has(m)
        /\ Has(m) => rows'[m].media = rows[m].media /\ rows'[m].rescued
    <2>1. CASE Has(m)
      <3>1. rows[m] \in EntryType
        BY <2>1 DEF LibTypes, Has
      <3>2. rows'[m] = [rows[m] EXCEPT !.rescued = TRUE, !.pending = FALSE]
        BY <1>1, <1>2, <2>1 DEF LibTypes
      <3>3. rows'[m].rescued /\ rows'[m].media = rows[m].media
        BY <3>1, <3>2 DEF EntryType
      <3>4. rows'[m] # NoEntry
        BY <3>3 DEF NoEntry
      <3> QED
        BY <2>1, <3>3, <3>4
    <2>2. CASE ~Has(m)
      BY <1>1, <1>2, <2>2 DEF Has
    <2> QED
      BY <2>1, <2>2
  <1>5. SettledIsHeld'
    BY <1>1, <1>3, <1>4 DEF Held, SettledIsHeld, Has
  <1>6. PendingIsMarked'
    BY <1>3 DEF Held, PendingIsMarked, Has
  <1>7. ASSUME NEW q \in promised'
        PROVE  \E k \in Messages : rows'[k] # NoEntry /\ rows'[k].rescued /\ q = <<k, Bytes[rows'[k].media]>>
    <2>1. CASE q \in promised
      <3>1. PICK k \in Messages : Has(k) /\ rows[k].rescued /\ q = <<k, Bytes[rows[k].media]>>
        BY <2>1 DEF Held, PromiseIsHeld
      <3> QED
        BY <1>3, <1>4, <3>1 DEF Has
    <2>2. CASE acked[m] # None /\ q = <<m, Bytes[acked[m]]>>
      BY <1>4, <2>2 DEF Held, SettledIsHeld, Has
    <2> QED
      BY <1>1, <1>7, <2>1, <2>2
  <1> QED
    BY <1>5, <1>6, <1>7 DEF Held, PromiseIsHeld, Has

\* A pinned entry is still the one that was promised.
LEMMA PinHeld ==
    ASSUME LibTypes, Held, NEW m \in Messages, Pin(m)
    PROVE  Held'
  <1>1. /\ Has(m) /\ rows[m] \in EntryType /\ rows' = [rows EXCEPT ![m].pinned = TRUE]
        /\ UNCHANGED <<receipts, acked, promised>>
    BY DEF Pin, LibTypes, Has, rescue, history
  <1>2. /\ rows'[m].media = rows[m].media /\ rows'[m].rescued = rows[m].rescued
        /\ rows'[m].pending = rows[m].pending /\ rows'[m].pinned
        /\ \A k \in Messages \ {m} : rows'[k] = rows[k]
    BY <1>1 DEF LibTypes, EntryType
  <1>3. rows'[m] # NoEntry
    BY <1>2 DEF NoEntry
  <1> QED
    BY <1>1, <1>2, <1>3 DEF Held, SettledIsHeld, PendingIsMarked, PromiseIsHeld, Has

\* Every step keeps what was promised.
LEMMA HeldKept ==
    ASSUME LibInv, NoneSkips, Held, Next
    PROVE  Held'
  <1> USE DEF LibInv, journals, disk, rescue, history
  <1>1. ASSUME NEW w \in Workers, Work(w) \/ TransferFails(w) \/ Abandon(w), ~Register(w) PROVE Held'
    <2>1. UNCHANGED <<rows, receipts, acked, promised>>
      BY <1>1 DEF Work, Enter, Landed, Existing, Reuse, Unregistrable, Journal, Part, Receive, Publish,
                  Redundant, Unjournal, IngestDrain, TransferFails, Abandon, NoneSkips
    <2> QED
      BY <2>1, HeldSame
  <1>2. ASSUME NEW w \in Workers, Register(w) PROVE Held'
    <2>1. UNCHANGED receipts /\ Catalog(task[w].msg, task[w].media, task[w].gen, task[w].pick)
      BY <1>2 DEF Register
    <2>2. /\ task[w].msg \in Messages /\ task[w].media \in Media
          /\ task[w].gen \in Nat /\ task[w].pick \in Nat
      BY <1>2, TypedTask DEF Register, At
    <2> QED
      BY <2>1, <2>2, CatalogHeld
  <1>3. ASSUME NEW w \in Workers, NEW m \in Messages, NEW skip \in SkipModes, NEW media \in Carries[m],
               Begin(w, m, media, skip)
        PROVE  Held'
    <2>1. UNCHANGED <<rows, acked, promised>> /\ receipts' = Observed(m)
      BY <1>3 DEF Begin
    <2>2. PendingIsMarked'
      BY <2>1 DEF Held, PendingIsMarked, Observed, Has, LibTypes
    <2> QED
      BY <2>1, <2>2 DEF Held, SettledIsHeld, PromiseIsHeld, Has
  <1>4. ASSUME NEW j \in Janitors, Drain(j) PROVE Held'
    BY <1>4, HeldSame DEF Drain
  <1>5. ASSUME NEW j \in Janitors, SweepRescue(j) PROVE Held'
    <2> DEFINE S == {m \in Messages : rows[m].pending /\ m \in expired /\ ~rows[m].rescued /\ ~rows[m].pinned}
    <2>1. Remove(j, S) /\ UNCHANGED promised /\ S \in SUBSET Messages /\ \A m \in S : ~rows[m].rescued
      BY <1>5 DEF SweepRescue
    <2> HIDE DEF S
    <2> QED
      BY <2>1, RemoveHeld
  <1>6. ASSUME NEW j \in Janitors, NEW m \in Messages, RotateBatch(j, m) PROVE Held'
    BY <1>6, RemoveHeld DEF RotateBatch
  <1>7. ASSUME NEW j \in Janitors, NEW m \in Messages, DeleteEntries(j, m) PROVE Held'
    <2>1. PICK S \in SUBSET Messages : Remove(j, S) /\ promised' = Withdrawn(S)
      BY <1>7 DEF DeleteEntries
    <2> QED
      BY <2>1, RemoveHeld
  <1>8. ASSUME NEW m \in Messages, PruneMissing(m) PROVE Held'
    <2>1. /\ UNCHANGED receipts /\ promised' = Withdrawn({m}) /\ {m} \in SUBSET Messages
          /\ \A k \in Messages : IF k \in {m} THEN rows'[k] = NoEntry /\ acked'[k] = None
                                             ELSE rows'[k] = rows[k] /\ acked'[k] = acked[k]
      BY <1>8 DEF PruneMissing, LibTypes
    <2> QED
      BY <2>1, ShrinkHeld
  <1>9. ASSUME NEW m \in Messages, Expire(m) PROVE Held'
    BY <1>9, HeldSame DEF Expire
  <1>10. ASSUME NEW p \in Paths, LoseFile(p) PROVE Held'
    BY <1>10, HeldSame DEF LoseFile
  <1>11. CASE RecoverEntry
    <2> DEFINE p == system.path
    <2>1. p \in files
      BY <1>11 DEF RecoverEntry
    <2>2. p \in DOMAIN item /\ DOMAIN item \subseteq Nat
      BY <2>1 DEF LibTypes
    <2>3. item[p] \in ItemType
      BY <2>2 DEF LibTypes
    <2>4. item[p].msg \in Messages /\ item[p].media \in Media /\ item[p].gen \in Nat
      BY <2>3 DEF ItemType
    <2>5. \E c \in files : Catalog(item[p].msg, item[p].media, item[p].gen, c)
      BY <1>11, <2>1 DEF RecoverEntry
    <2>6. files \subseteq Nat /\ UNCHANGED receipts
      BY <1>11, <2>2 DEF LibTypes, RecoverEntry
    <2> QED
      BY <2>4, <2>5, <2>6, CatalogHeld
  <1>12. CASE Crash \/ (Recover /\ ~RecoverEntry)
    <2>1. UNCHANGED <<rows, receipts, acked, promised>>
      BY <1>12 DEF Crash, Recover, Start, NextJournalled, DropSuperseded, DropIncomplete, DropUnowned,
                   DropPart, DropJournal, Ready
    <2> QED
      BY <2>1, HeldSame
  <1>13. ASSUME NEW m \in Messages, Mark(m) \/ Pin(m) PROVE Held'
    BY <1>13, MarkHeld, PinHeld
  <1> QED
    BY <1>1, <1>2, <1>3, <1>4, <1>5, <1>6, <1>7, <1>8, <1>9, <1>10, <1>11, <1>12, <1>13 DEF Next, Work

\* RescuedIsKept (markRescued, register, the sweepers): where duplicates are not skipped, media
\* whose source message was deleted while it was kept temporarily stays in the library, until
\* an operator deletes it or its file is lost.
THEOREM RescuedStaysKept ==
    ASSUME SkipModes \subseteq {FALSE}
    PROVE  Spec => []RescuedIsKept
  <1>1. Init => NoneSkips /\ Held
    <2> SUFFICES ASSUME Init PROVE NoneSkips /\ Held
      OBVIOUS
    <2>1. Idle.skip = FALSE
      BY DEF Idle
    <2> QED
      BY <2>1 DEF Init, NoneSkips, Held, SettledIsHeld, PendingIsMarked, PromiseIsHeld
  <1>2. LibInv /\ NoneSkips /\ Held /\ [Next]_vars => NoneSkips' /\ Held'
    <2>1. ASSUME NoneSkips, Held, UNCHANGED vars PROVE NoneSkips' /\ Held'
      BY <2>1, HeldSame DEF NoneSkips, vars
    <2> QED
      BY <2>1, NoneEverSkips, HeldKept DEF LibInv
  <1>3. NoneSkips /\ Held => RescuedIsKept
    BY DEF Held, PromiseIsHeld, RescuedIsKept, InLibrary
  <1> QED
    BY <1>1, <1>2, <1>3, LibraryInvariant, PTL DEF Spec
=============================================================================
