---------------------------- MODULE Purge_proofs ----------------------------
(***************************************************************************)
(* Backfills and purges for any number of chats, jobs and messages: a walk *)
(* covers what its cursor says, a chat has one backfill, what a purge      *)
(* removed stays away, and, beside a single purge, a stop that was         *)
(* answered holds.                                                         *)
(***************************************************************************)
EXTENDS Purge, FiniteSetTheorems, TLAPS

Rows == [state: States, group: Groups \cup {NoGroup}, cancelled: BOOLEAN,
         initialized: BOOLEAN, cursor: 0..Messages + 1]
WorkerStates == [pc: WorkerPositions, stop: BOOLEAN, live: BOOLEAN,
                 page: SUBSET (1..Messages), failed: BOOLEAN]
PurgeRecords == [phase: Phases, running: BOOLEAN, filesOnly: BOOLEAN, pc: PurgePositions]
Budgets == [starts: Nat, stops: Nat, outages: Nat, cancels: Nat, saves: Nat, crashes: Nat,
            claims: Nat, failures: Nat]

\* What is left of a page is the top of what lies below the cursor.
TopOf(page, cursor) ==
    /\ page # {} /\ page \subseteq Below(cursor)
    /\ \A m \in page, n \in Below(cursor) : n > m => n \in page

\* The row of a job, its worker and the messages it has covered, one fact a line.
Fresh(j) == request[j] \in {"none", "checked"} =>
    /\ row[j].state = "absent" /\ j \notin memory /\ worker[j].pc = "none"
    /\ j \notin condemned /\ \A m \in 1..Messages : <<j, m>> \notin queue
    /\ handled[j] = {}
Unwalked(j) == row[j].state # "absent" /\ ~row[j].initialized => handled[j] = {}
Walked(j) == row[j].state # "absent" /\ row[j].initialized =>
    /\ handled[j] = {m \in 1..Messages : m >= row[j].cursor}
    /\ row[j].state = "done" => handled[j] = 1..Messages
Grouped(j) == row[j].state # "absent" /\ (j \notin NamedJobs \/ row[j].initialized)
    => row[j].group = GroupOf[j]
Remembered(j) ==
    /\ j \in memory => row[j].state # "absent"
    /\ app = "up" /\ Running(j) => j \in memory
WorkerFits(j, w) == j \in memory =>
    /\ w.pc \notin {"none", "release"} => Running(j)
    /\ w.pc \in {"pages", "page"} => row[j].initialized
    /\ w.pc = "page" => TopOf(w.page, row[j].cursor)
    /\ w.pc = "finish" /\ ~w.failed => row[j].initialized /\ row[j].cursor <= 1
Employed(j) == WorkerFits(j, worker[j])
Removed(j) == j \in condemned =>
    /\ row[j].state = "absent" /\ j \notin memory /\ \A m \in 1..Messages : <<j, m>> \notin queue

JobFits(j) == Fresh(j) /\ Unwalked(j) /\ Walked(j) /\ Grouped(j) /\ Remembered(j) /\ Employed(j)
    /\ Removed(j)

\* Without the process nothing is in memory, and nothing runs.
AppFits == app # "up" =>
    /\ memory = {} /\ \A j \in Jobs : worker[j].pc = "none" /\ request[j] \notin {"checked", "inserted"}
    /\ monitor # "running" /\ op \in {"free", "purge", "resume"} /\ ~owed
    /\ \A k \in Keys : purge[k].pc # "claimed"

\* One purge is past its lock, and holds monitorOp.
LockFits == \A k, l \in Keys : purge[k].pc \in {"locked", "cleaning"} =>
    op = "purge" /\ (purge[l].pc \in {"locked", "cleaning"} => k = l)

\* The engine starts by itself only if it was left on.
SwitchFits ==
    /\ ~(saved.autoStart /\ saved.paused)
    /\ op \in {"boot", "booted"} => saved.autoStart

\* A single purge: the restart it owes is never left to a later one.
SoloFits == MaxPurges <= 1 =>
    /\ owed /\ op \in {"purge", "resume"} => ~saved.paused
    /\ app = "up" => \A k, l \in Keys : purge[k].pc # "none" =>
         used.claims >= 1 /\ (purge[l].pc # "none" => k = l)
    /\ owed => used.claims >= 1
    /\ owed /\ op # "purge" => \A k \in Keys : purge[k].pc = "none"

\* The saved choice of the operator holds the engine down and its gate up.
PauseFits == MaxPurges <= 1 =>
    (saved.paused /\ op \in {"free", "purge", "resume", "start"} /\ app # "down"
       => monitor # "running" /\ gate)

Budgeted == used \in Budgets

PurgeInv ==
    /\ TypeOK /\ Budgeted
    /\ \A j \in Jobs : JobFits(j)
    /\ OneBackfillPerChat
    /\ AppFits /\ LockFits /\ SwitchFits /\ SoloFits /\ PauseFits
-----------------------------------------------------------------------------
(* What a step leaves alone.                                               *)

LEMMA OneEntry ==
    ASSUME NEW D, NEW S, NEW f \in [D -> S], NEW d \in D, NEW r \in S, NEW g, g = [f EXCEPT ![d] = r]
    PROVE  /\ g \in [D -> S] /\ g[d] = r
           /\ \A e \in D \ {d} : g[e] = f[e]
    OBVIOUS

\* TypeOK, by the spaces.
Typed ==
    /\ row \in [Jobs -> Rows]
    /\ memory \subseteq Jobs /\ held \subseteq Jobs
    /\ condemned \subseteq Jobs /\ overtaken \subseteq Jobs
    /\ worker \in [Jobs -> WorkerStates]
    /\ request \in [Jobs -> {"none", "checked", "inserted", "answered"}]
    /\ gate \in BOOLEAN /\ restart \in BOOLEAN /\ owed \in BOOLEAN /\ stranded \in BOOLEAN
    /\ saved \in [autoStart: BOOLEAN, paused: BOOLEAN]
    /\ monitor \in {"running", "stopped", "error"}
    /\ op \in {"free", "start", "boot", "started", "booted", "purge", "resume"}
    /\ stopping \in {"none", "begun", "waiting"} /\ app \in {"up", "booting", "down"}
    /\ config \subseteq Groups /\ queue \subseteq Jobs \X (1..Messages)
    /\ purge \in [Keys -> PurgeRecords]
    /\ handled \in [Jobs -> SUBSET (1..Messages)]

LEMMA Spaces == (TypeOK <=> Typed) /\ (TypeOK' <=> Typed')
    BY DEF TypeOK, Typed, Rows, WorkerStates, PurgeRecords

\* A job and its worker are where they were; what waits may have been given up.
JobSame(i) ==
    /\ row'[i] = row[i] /\ handled'[i] = handled[i]
    /\ worker'[i].pc = worker[i].pc /\ worker'[i].page = worker[i].page
    /\ worker'[i].failed = worker[i].failed
    /\ i \in memory' <=> i \in memory
    /\ i \in condemned' <=> i \in condemned
    /\ request'[i] \in {"none", "checked"} => request[i] \in {"none", "checked"}
    /\ \A m \in 1..Messages : <<i, m>> \in queue' => <<i, m>> \in queue
    /\ app' = "up" => app = "up"

LEMMA JobKept ==
    ASSUME NEW i \in Jobs, JobFits(i), JobSame(i)
    PROVE  JobFits(i)'
<1>1. Fresh(i)' BY DEF JobFits, Fresh, JobSame
<1>2. Unwalked(i)' BY DEF JobFits, Unwalked, JobSame
<1>3. Walked(i)' BY DEF JobFits, Walked, JobSame
<1>4. Grouped(i)' BY DEF JobFits, Grouped, JobSame
<1>5. Remembered(i)' BY DEF JobFits, Remembered, JobSame, Running
<1>6. Employed(i)' BY DEF JobFits, Employed, WorkerFits, JobSame, Running, TopOf, Below
<1>7. Removed(i)' BY DEF JobFits, Removed, JobSame
<1> QED BY <1>1, <1>2, <1>3, <1>4, <1>5, <1>6, <1>7 DEF JobFits

\* A step of one job while the process is up.
EngineSame ==
    /\ UNCHANGED <<engineVars, purgeVars, app>>
    /\ used' \in Budgets /\ used'.claims = used.claims

LEMMA EngineKept ==
    ASSUME PurgeInv, EngineSame, app = "up"
    PROVE  AppFits' /\ LockFits' /\ SwitchFits' /\ SoloFits' /\ PauseFits'
<1>1. AppFits' BY DEF AppFits, EngineSame, engineVars, purgeVars
<1>2. LockFits' BY DEF PurgeInv, LockFits, EngineSame, engineVars, purgeVars
<1>3. SwitchFits' BY DEF PurgeInv, SwitchFits, EngineSame, engineVars, purgeVars
<1>4. SoloFits' BY DEF PurgeInv, SoloFits, EngineSame, engineVars, purgeVars
<1>5. PauseFits' BY DEF PurgeInv, PauseFits, EngineSame, engineVars, purgeVars
<1> QED BY <1>1, <1>2, <1>3, <1>4, <1>5

LEMMA RowsKept ==
    ASSUME OneBackfillPerChat, row' = row
    PROVE  OneBackfillPerChat'
    BY DEF OneBackfillPerChat, Running

\* A worker or a request in progress has its process.
LEMMA BusyIsUp ==
    ASSUME PurgeInv, NEW j \in Jobs,
           worker[j].pc # "none" \/ request[j] \in {"checked", "inserted"} \/ j \in memory
    PROVE  app = "up"
    BY DEF PurgeInv, AppFits

\* The invariant after a step of the job j that leaves the engine alone.
LEMMA OneJobMoves ==
    ASSUME PurgeInv, NEW j \in Jobs, TypeOK', EngineSame, app = "up",
           JobFits(j)', OneBackfillPerChat', \A i \in Jobs \ {j} : JobSame(i)
    PROVE  PurgeInv'
<1>1. \A i \in Jobs : JobFits(i)'
  <2> TAKE i \in Jobs
  <2>1. CASE i = j BY <2>1
  <2>2. CASE i # j BY <2>2, JobKept DEF PurgeInv
  <2> QED BY <2>1, <2>2
<1>2. Budgeted' BY DEF Budgeted, EngineSame
<1> QED BY <1>1, <1>2, EngineKept DEF PurgeInv
-----------------------------------------------------------------------------
(* Pages.                                                                  *)

\* A page is the top of what lies below the cursor; nothing is left below an empty one.
LEMMA PageIsTop ==
    ASSUME NEW c \in 0..Messages + 1
    PROVE  /\ Page(c) \subseteq 1..Messages
           /\ Page(c) # {} => TopOf(Page(c), c)
           /\ Page(c) = {} => c <= 1
<1> DEFINE Over(m) == {n \in Below(c) : n > m}
<1>0. PageSize \in Nat \ {0} /\ Messages \in Nat BY HistoryAssumption DEF HistoryAssumption
<1>1. IsFiniteSet(Below(c)) BY <1>0, FS_Interval DEF Below
<1>2. \A m : IsFiniteSet(Over(m)) /\ Cardinality(Over(m)) \in Nat
  <2> TAKE m
  <2>1. Over(m) \subseteq Below(c) OBVIOUS
  <2> QED BY <2>1, <1>1, FS_Subset, FS_CardinalityType
<1>3. \A m : m \in Page(c) <=> m \in Below(c) /\ Cardinality(Over(m)) < PageSize
  BY DEF Page
<1>b. Below(c) \subseteq 1..Messages BY <1>0 DEF Below
<1>4. Page(c) \subseteq 1..Messages BY <1>b DEF Page
<1>5. Page(c) # {} => TopOf(Page(c), c)
  <2> SUFFICES ASSUME NEW m \in Page(c), NEW n \in Below(c), n > m PROVE n \in Page(c)
    BY <1>3 DEF TopOf
  <2>0. m \in Nat /\ n \in Nat /\ \A o \in Below(c) : o \in Nat
    BY <1>0, <1>b, <1>4
  <2>1. Over(n) \subseteq Over(m)
    <3> SUFFICES ASSUME NEW o \in Below(c), o > n PROVE o > m
      OBVIOUS
    <3> QED BY <2>0
  <2>2. Cardinality(Over(n)) <= Cardinality(Over(m)) BY <2>1, <1>2, FS_Subset
  <2> HIDE DEF Over
  <2> QED BY <2>2, <1>0, <1>2, <1>3
<1>6. Page(c) = {} => c <= 1
  <2> SUFFICES ASSUME c > 1 PROVE c - 1 \in Page(c)
    BY <1>0
  <2>1. c - 1 \in Below(c) BY <1>0 DEF Below
  <2>2. Over(c - 1) = {} BY <1>0 DEF Below
  <2>3. Cardinality(Over(c - 1)) = 0 BY <2>2, FS_EmptySet
  <2> HIDE DEF Over
  <2> QED BY <2>1, <2>3, <1>0, <1>3
<1> QED BY <1>4, <1>5, <1>6

-----------------------------------------------------------------------------
(* The worker of a job.                                                    *)

\* The invariant after a step of a worker that touches no row.
LEMMA OneWorkerMoves ==
    ASSUME PurgeInv, NEW j \in Jobs, worker[j].pc # "none",
           worker' = [worker EXCEPT ![j] = worker'[j]], worker'[j] \in WorkerStates,
           held' \subseteq Jobs, WorkerFits(j, worker'[j]),
           UNCHANGED <<row, memory, request, queue, config, handled, engineVars, purgeVars, app, used>>
    PROVE  PurgeInv'
<1>1. TypeOK BY DEF PurgeInv
<1>2. worker' \in [Jobs -> WorkerStates] /\ \A i \in Jobs \ {j} : worker'[i] = worker[i]
  BY <1>1, Spaces, OneEntry DEF Typed
<1>3. TypeOK' BY <1>1, <1>2, Spaces DEF engineVars, purgeVars, Typed
<1>4. EngineSame BY DEF EngineSame, PurgeInv, Budgeted
<1>5. app = "up" BY BusyIsUp
<1>6. JobFits(j)'
  <2>1. JobFits(j) BY DEF PurgeInv
  <2>2. Fresh(j)' BY <2>1 DEF JobFits, Fresh
  <2>3. Employed(j)' BY DEF Employed, WorkerFits, Running
  <2> QED BY <2>1, <2>2, <2>3
        DEF JobFits, Unwalked, Walked, Grouped, Remembered, Removed, Running, purgeVars
<1>7. OneBackfillPerChat' BY RowsKept DEF PurgeInv
<1>8. \A i \in Jobs \ {j} : JobSame(i) BY <1>2 DEF JobSame, purgeVars
<1> QED BY <1>3, <1>4, <1>5, <1>6, <1>7, <1>8, OneJobMoves

LEMMA OpenHistoryKeeps ==
    ASSUME PurgeInv, NEW j \in Jobs, OpenHistory(j)
    PROVE  PurgeInv'
<1>1. worker \in [Jobs -> WorkerStates] /\ held \subseteq Jobs BY Spaces DEF PurgeInv, Typed
<1>2. PICK open \in BOOLEAN :
        /\ worker' = [worker EXCEPT ![j].pc = IF open THEN "init" ELSE "finish",
                                    ![j].live = open, ![j].failed = ~open]
        /\ open => j \in memory
  BY DEF OpenHistory
<1>3. worker' = [worker EXCEPT ![j] = worker'[j]] BY <1>1, <1>2
<1>4. worker'[j] \in WorkerStates BY <1>1, <1>2 DEF WorkerStates, WorkerPositions
<1>5. /\ worker'[j].pc \in {"init", "finish"}
      /\ worker'[j].pc = "finish" => worker'[j].failed
  BY <1>1, <1>2 DEF WorkerStates
<1>6. WorkerFits(j, worker[j]) /\ worker[j].pc = "open"
  BY DEF PurgeInv, JobFits, Employed, OpenHistory
<1>7. WorkerFits(j, worker'[j]) BY <1>5, <1>6 DEF WorkerFits
<1>8. held' \subseteq Jobs BY <1>1 DEF OpenHistory
<1> QED BY <1>3, <1>4, <1>6, <1>7, <1>8, OneWorkerMoves DEF OpenHistory

\* Both ends of a worker that fails.
LEMMA WorkerStops ==
    ASSUME PurgeInv, NEW j \in Jobs, worker[j].pc \in {"open", "init", "pages", "page"},
           worker' = [worker EXCEPT ![j].pc = "finish", ![j].failed = TRUE, ![j].page = {}],
           UNCHANGED <<row, memory, held, request, queue, config, handled, engineVars, purgeVars,
                       app, used>>
    PROVE  PurgeInv'
<1>1. worker \in [Jobs -> WorkerStates] /\ held \subseteq Jobs BY Spaces DEF PurgeInv, Typed
<1>2. worker' = [worker EXCEPT ![j] = worker'[j]] BY <1>1
<1>3. worker'[j] \in WorkerStates BY <1>1 DEF WorkerStates, WorkerPositions
<1>4. worker'[j].pc = "finish" /\ worker'[j].failed BY <1>1 DEF WorkerStates
<1>5. WorkerFits(j, worker[j]) BY DEF PurgeInv, JobFits, Employed
<1>6. WorkerFits(j, worker'[j]) BY <1>4, <1>5 DEF WorkerFits
<1> QED BY <1>1, <1>2, <1>3, <1>6, OneWorkerMoves

LEMMA StopWorkingKeeps ==
    ASSUME PurgeInv, NEW j \in Jobs, StopWorking(j)
    PROVE  PurgeInv'
    BY WorkerStops DEF StopWorking

LEMMA HistoryFailsKeeps ==
    ASSUME PurgeInv, NEW j \in Jobs, HistoryFails(j)
    PROVE  PurgeInv'
    BY WorkerStops DEF HistoryFails

LEMMA CopyRefusedKeeps ==
    ASSUME PurgeInv, NEW j \in Jobs, CopyRefused(j)
    PROVE  PurgeInv'
<1>1. worker \in [Jobs -> WorkerStates] /\ held \subseteq Jobs BY Spaces DEF PurgeInv, Typed
<1>2. /\ worker' = [worker EXCEPT ![j].pc = "finish", ![j].failed = TRUE] /\ worker[j].pc = "pages"
      /\ UNCHANGED <<row, memory, held, request, queue, config, handled, engineVars, purgeVars,
                     app, used>>
  BY DEF CopyRefused
<1>3. worker' = [worker EXCEPT ![j] = worker'[j]] BY <1>1, <1>2
<1>4. worker'[j] \in WorkerStates BY <1>1, <1>2 DEF WorkerStates, WorkerPositions
<1>5. worker'[j].pc = "finish" /\ worker'[j].failed BY <1>1, <1>2 DEF WorkerStates
<1>6. WorkerFits(j, worker[j]) BY DEF PurgeInv, JobFits, Employed
<1>7. WorkerFits(j, worker'[j]) BY <1>2, <1>5, <1>6 DEF WorkerFits
<1> QED BY <1>1, <1>2, <1>3, <1>4, <1>7, OneWorkerMoves

LEMMA ReadPageKeeps ==
    ASSUME PurgeInv, NEW j \in Jobs, ReadPage(j)
    PROVE  PurgeInv'
<1>1. worker \in [Jobs -> WorkerStates] /\ held \subseteq Jobs /\ row \in [Jobs -> Rows]
  BY Spaces DEF PurgeInv, Typed
<1> DEFINE page == Page(row[j].cursor)
<1>2. /\ worker' = [worker EXCEPT ![j].pc = IF page = {} THEN "finish" ELSE "page", ![j].page = page]
      /\ worker[j].pc = "pages"
      /\ UNCHANGED <<row, memory, held, request, queue, config, handled, engineVars, purgeVars,
                     app, used>>
  BY DEF ReadPage
<1>3. row[j].cursor \in 0..Messages + 1 BY <1>1 DEF Rows
<1>4. /\ page \subseteq 1..Messages
      /\ page # {} => TopOf(page, row[j].cursor)
      /\ page = {} => row[j].cursor <= 1
  BY <1>3, PageIsTop
<1> HIDE DEF page
<1>5. worker' = [worker EXCEPT ![j] = worker'[j]] BY <1>1, <1>2
<1>6. worker'[j] \in WorkerStates BY <1>1, <1>2, <1>4 DEF WorkerStates, WorkerPositions
<1>7. /\ worker'[j].pc = IF page = {} THEN "finish" ELSE "page"
      /\ worker'[j].page = page /\ worker'[j].failed = worker[j].failed
  BY <1>1, <1>2 DEF WorkerStates
<1>8. WorkerFits(j, worker[j]) BY DEF PurgeInv, JobFits, Employed
<1>9. WorkerFits(j, worker'[j]) BY <1>2, <1>4, <1>7, <1>8 DEF WorkerFits
<1> QED BY <1>1, <1>2, <1>5, <1>6, <1>9, OneWorkerMoves

LEMMA ReleaseWorkerKeeps ==
    ASSUME PurgeInv, NEW j \in Jobs, ReleaseWorker(j)
    PROVE  PurgeInv'
<1>1. worker \in [Jobs -> WorkerStates] /\ held \subseteq Jobs BY Spaces DEF PurgeInv, Typed
<1>2. /\ worker' = [worker EXCEPT ![j] = IF Resumes(j) THEN [NoWorker EXCEPT !.pc = "open"] ELSE NoWorker]
      /\ worker[j].pc = "release" /\ held' \subseteq Jobs
      /\ UNCHANGED <<row, memory, request, queue, config, handled, engineVars, purgeVars, app, used>>
  BY <1>1 DEF ReleaseWorker
<1>3. /\ worker'[j] \in WorkerStates
      /\ worker'[j].pc = IF Resumes(j) THEN "open" ELSE "none"
  BY <1>1, <1>2 DEF NoWorker, WorkerStates, WorkerPositions
<1>4. worker' = [worker EXCEPT ![j] = worker'[j]] BY <1>1, <1>2
<1>5. WorkerFits(j, worker'[j]) BY <1>3 DEF WorkerFits, Resumes
<1> QED BY <1>2, <1>3, <1>4, <1>5, OneWorkerMoves

\* A row keeps its state and its group, or finds the group of its request: a chat still has
\* one backfill.
LEMMA OneBackfillKept ==
    ASSUME PurgeInv, NEW j \in Jobs, \A i \in Jobs \ {j} : row'[i] = row[i],
           row'[j].state = "running" => Running(j),
           row'[j].state = "running" => row'[j].group = row[j].group \/ j \in NamedJobs
    PROVE  OneBackfillPerChat'
<1> SUFFICES ASSUME NEW i \in Jobs \ NamedJobs, NEW l \in Jobs \ NamedJobs,
                    row'[i].state = "running", row'[l].state = "running",
                    row'[i].group = row'[l].group
             PROVE  i = l
  BY DEF OneBackfillPerChat, Running
<1>1. Running(i) /\ Running(l) BY DEF Running
<1>2. row[i].group = row[l].group OBVIOUS
<1> QED BY <1>1, <1>2 DEF PurgeInv, OneBackfillPerChat

LEMMA InitializeHistoryKeeps ==
    ASSUME PurgeInv, NEW j \in Jobs, InitializeHistory(j)
    PROVE  PurgeInv'
<1>1. /\ worker \in [Jobs -> WorkerStates] /\ row \in [Jobs -> Rows] /\ config \subseteq Groups
      /\ held \subseteq Jobs
  BY Spaces DEF PurgeInv, Typed
<1>2. /\ worker[j].pc = "init"
      /\ UNCHANGED <<memory, held, request, queue, handled, engineVars, purgeVars, app, used>>
  BY DEF InitializeHistory
<1>3. JobFits(j) BY DEF PurgeInv
<1>4. app = "up" BY <1>2, BusyIsUp
<1>5. CASE CanInitialize(j)
  <2>1. /\ row' = [row EXCEPT ![j].initialized = TRUE, ![j].group = GroupOf[j],
                              ![j].cursor = IF row[j].initialized THEN @ ELSE Messages + 1]
        /\ config' = config \cup {GroupOf[j]}
        /\ worker' = [worker EXCEPT ![j].pc = "pages"]
    BY <1>5 DEF InitializeHistory
  <2>2. GroupOf[j] \in Groups /\ Messages \in Nat BY HistoryAssumption DEF HistoryAssumption
  <2>3. row' = [row EXCEPT ![j] = row'[j]] BY <1>1, <2>1
  <2>4. row'[j] \in Rows
    <3> DEFINE start == IF row[j].initialized THEN row[j].cursor ELSE Messages + 1
    <3>1. start \in 0..Messages + 1 BY <1>1, <2>2 DEF Rows
    <3>2. row'[j] = [row[j] EXCEPT !.initialized = TRUE, !.group = GroupOf[j], !.cursor = start]
      BY <1>1, <2>1
    <3> HIDE DEF start
    <3> QED BY <1>1, <2>2, <3>1, <3>2 DEF Rows
  <2>5. /\ row'[j].state = row[j].state /\ row'[j].initialized /\ row'[j].group = GroupOf[j]
        /\ row'[j].cursor = IF row[j].initialized THEN row[j].cursor ELSE Messages + 1
    BY <1>1, <2>1 DEF Rows
  <2>6. worker' = [worker EXCEPT ![j] = worker'[j]] BY <1>1, <2>1
  <2>7. worker'[j] \in WorkerStates /\ worker'[j].pc = "pages"
    BY <1>1, <2>1 DEF WorkerStates, WorkerPositions
  <2>8. row' \in [Jobs -> Rows] /\ \A i \in Jobs \ {j} : row'[i] = row[i]
    BY <1>1, <2>3, <2>4, OneEntry
  <2>9. worker' \in [Jobs -> WorkerStates] /\ \A i \in Jobs \ {j} : worker'[i] = worker[i]
    BY <1>1, <2>6, <2>7, OneEntry
  <2>10. TypeOK'
    <3>1. TypeOK /\ config' \subseteq Groups BY <1>1, <2>1, <2>2 DEF PurgeInv
    <3> QED BY <1>2, <2>8, <2>9, <3>1, Spaces DEF engineVars, purgeVars, Typed
  <2>11. EngineSame BY <1>2 DEF EngineSame, PurgeInv, Budgeted
  <2>12. j \in memory /\ Running(j) /\ row[j].state = "running"
    BY <1>2, <1>3, <1>5 DEF CanInitialize, JobFits, Employed, WorkerFits, Running
  <2>13. handled' [j] = {m \in 1..Messages : m >= row'[j].cursor}
    <3>1. CASE row[j].initialized BY <1>2, <1>3, <2>5, <2>12, <3>1 DEF JobFits, Walked
    <3>2. CASE ~row[j].initialized
      <4>1. handled[j] = {} BY <1>3, <2>12, <3>2 DEF JobFits, Unwalked
      <4>2. row'[j].cursor = Messages + 1 BY <2>5, <3>2
      <4> QED BY <1>2, <2>2, <4>1, <4>2
    <3> QED BY <3>1, <3>2
  <2>14. JobFits(j)'
    <3>1. Fresh(j)' BY <1>2, <1>3, <2>12 DEF JobFits, Fresh
    <3>2. Unwalked(j)' BY <2>5 DEF Unwalked
    <3>3. Walked(j)' BY <2>5, <2>12, <2>13 DEF Walked
    <3>4. Grouped(j)' BY <2>5 DEF Grouped
    <3>5. Remembered(j)' BY <1>2, <2>5, <2>12 DEF Remembered, Running
    <3>6. Employed(j)' BY <2>5, <2>7, <2>12 DEF Employed, WorkerFits, Running
    <3>7. Removed(j)' BY <1>2, <1>3, <2>12 DEF JobFits, Removed, purgeVars
    <3> QED BY <3>1, <3>2, <3>3, <3>4, <3>5, <3>6, <3>7 DEF JobFits
  <2>15. OneBackfillPerChat'
    <3>1. j \notin NamedJobs => row[j].group = GroupOf[j]
      BY <1>3, <2>12 DEF JobFits, Grouped
    <3> QED BY <2>5, <2>8, <2>12, <3>1, OneBackfillKept
  <2>16. \A i \in Jobs \ {j} : JobSame(i) BY <1>2, <2>8, <2>9 DEF JobSame, purgeVars
  <2> QED BY <1>4, <2>10, <2>11, <2>14, <2>15, <2>16, OneJobMoves
<1>6. CASE ~CanInitialize(j)
  <2>1. worker' = [worker EXCEPT ![j].pc = "finish", ![j].failed = TRUE] /\ UNCHANGED <<row, config>>
    BY <1>6 DEF InitializeHistory
  <2>2. worker' = [worker EXCEPT ![j] = worker'[j]] BY <1>1, <2>1
  <2>3. worker'[j] \in WorkerStates BY <1>1, <2>1 DEF WorkerStates, WorkerPositions
  <2>4. worker'[j].pc = "finish" /\ worker'[j].failed BY <1>1, <2>1 DEF WorkerStates
  <2>5. WorkerFits(j, worker'[j]) BY <1>2, <1>3, <2>4 DEF JobFits, Employed, WorkerFits
  <2> QED BY <1>1, <1>2, <2>1, <2>2, <2>3, <2>5, OneWorkerMoves
<1> QED BY <1>5, <1>6

\* The newest message of a page is the one below the cursor.
LEMMA NewestIsNext ==
    ASSUME NEW c \in 0..Messages + 1, NEW page, TopOf(page, c)
    PROVE  LET m == CHOOSE n \in page : \A o \in page : n >= o
           IN  /\ m = c - 1 /\ m \in page /\ m \in 1..Messages /\ c >= 2
               /\ page \ {m} # {} => TopOf(page \ {m}, m)
<1>0. Messages \in Nat BY HistoryAssumption DEF HistoryAssumption
<1>1. page # {} /\ page \subseteq 1..(c - 1) /\ \A p \in page, n \in 1..(c - 1) : n > p => n \in page
  BY DEF TopOf, Below
<1>2. c - 1 \in page
  <2>1. PICK p \in page : TRUE BY <1>1
  <2>2. p \in 1..(c - 1) BY <1>1
  <2>3. c - 1 \in 1..(c - 1) BY <2>2
  <2>4. CASE p = c - 1 BY <2>4
  <2>5. CASE p # c - 1 BY <1>1, <2>2, <2>3, <2>5
  <2> QED BY <2>4, <2>5
<1>3. \A o \in page : c - 1 >= o BY <1>1
<1> DEFINE m == CHOOSE n \in page : \A o \in page : n >= o
<1>4. m \in page /\ \A o \in page : m >= o BY <1>2, <1>3
<1>5. m = c - 1
  <2>1. m >= c - 1 /\ m \in 1..(c - 1) BY <1>1, <1>2, <1>4
  <2> QED BY <2>1
<1> HIDE DEF m
<1>6. m \in 1..Messages /\ c >= 2 BY <1>0, <1>1, <1>4, <1>5
<1>7. page \ {m} # {} => TopOf(page \ {m}, m)
  <2>1. page \ {m} \subseteq 1..(m - 1)
    <3> SUFFICES ASSUME NEW p \in page, p # m PROVE p \in 1..(m - 1)
      OBVIOUS
    <3> QED BY <1>1, <1>5
  <2>2. ASSUME NEW p \in page \ {m}, NEW n \in 1..(m - 1), n > p PROVE n \in page \ {m}
    <3>1. n \in 1..(c - 1) /\ n # m BY <1>5, <1>6
    <3> QED BY <1>1, <2>2, <3>1
  <2> QED BY <2>1, <2>2 DEF TopOf, Below
<1> QED BY <1>4, <1>5, <1>6, <1>7 DEF m

LEMMA CheckpointKeeps ==
    ASSUME PurgeInv, NEW j \in Jobs, Checkpoint(j)
    PROVE  PurgeInv'
<1> DEFINE m == CHOOSE n \in worker[j].page : \A o \in worker[j].page : n >= o
           left == worker[j].page \ {m}
<1>1. /\ worker \in [Jobs -> WorkerStates] /\ row \in [Jobs -> Rows] /\ held \subseteq Jobs
      /\ handled \in [Jobs -> SUBSET (1..Messages)] /\ queue \subseteq Jobs \X (1..Messages)
  BY Spaces DEF PurgeInv, Typed
<1>2. /\ worker[j].pc = "page"
      /\ UNCHANGED <<memory, held, request, config, engineVars, purgeVars, app, used>>
  BY DEF Checkpoint
<1>3. JobFits(j) BY DEF PurgeInv
<1>4. app = "up" BY <1>2, BusyIsUp
<1>5. CASE CanCheckpoint(j) /\ m < row[j].cursor
  <2>1. /\ row' = [row EXCEPT ![j].cursor = m]
        /\ queue' = IF m \in Matching THEN queue \cup {<<j, m>>} ELSE queue
        /\ handled' = [handled EXCEPT ![j] = @ \cup {m}]
        /\ worker' = [worker EXCEPT ![j].pc = IF left = {} THEN "pages" ELSE "page",
                                    ![j].page = left]
    BY <1>5 DEF Checkpoint, CheckpointCursor
  <2>2. j \in memory /\ Running(j) /\ row[j].state = "running" /\ row[j].initialized
        /\ TopOf(worker[j].page, row[j].cursor)
    BY <1>2, <1>3, <1>5 DEF CanCheckpoint, JobFits, Employed, WorkerFits, Running
  <2>3. row[j].cursor \in 0..Messages + 1 BY <1>1 DEF Rows
  <2>4. /\ m = row[j].cursor - 1 /\ m \in worker[j].page /\ m \in 1..Messages /\ row[j].cursor >= 2
        /\ left # {} => TopOf(left, m)
    BY <2>2, <2>3, NewestIsNext
  <2>5. left \subseteq 1..Messages BY <1>1 DEF WorkerStates
  <2> HIDE DEF m, left
  <2>6. row' = [row EXCEPT ![j] = row'[j]] BY <1>1, <2>1
  <2>7. row'[j] \in Rows BY <1>1, <2>1, <2>4, HistoryAssumption DEF Rows, HistoryAssumption
  <2>8. /\ row'[j].state = row[j].state /\ row'[j].initialized = row[j].initialized
        /\ row'[j].group = row[j].group /\ row'[j].cursor = m
    BY <1>1, <2>1 DEF Rows
  <2>9. worker' = [worker EXCEPT ![j] = worker'[j]] BY <1>1, <2>1
  <2>10. worker'[j] \in WorkerStates BY <1>1, <2>1, <2>5 DEF WorkerStates, WorkerPositions
  <2>11. worker'[j].pc = (IF left = {} THEN "pages" ELSE "page") /\ worker'[j].page = left
    BY <1>1, <2>1 DEF WorkerStates
  <2>12. row' \in [Jobs -> Rows] /\ \A i \in Jobs \ {j} : row'[i] = row[i]
    BY <1>1, <2>6, <2>7, OneEntry
  <2>13. worker' \in [Jobs -> WorkerStates] /\ \A i \in Jobs \ {j} : worker'[i] = worker[i]
    BY <1>1, <2>9, <2>10, OneEntry
  <2>14. /\ handled' \in [Jobs -> SUBSET (1..Messages)] /\ handled'[j] = handled[j] \cup {m}
         /\ \A i \in Jobs \ {j} : handled'[i] = handled[i]
    BY <1>1, <2>1, <2>4
  <2>15. queue' \subseteq Jobs \X (1..Messages) /\ queue \subseteq queue' /\ queue' \subseteq queue \cup {<<j, m>>}
    BY <1>1, <2>1, <2>4
  <2>16. TypeOK'
    <3>1. TypeOK BY DEF PurgeInv
    <3> QED BY <1>2, <2>12, <2>13, <2>14, <2>15, <3>1, Spaces DEF engineVars, purgeVars, Typed
  <2>17. EngineSame BY <1>2 DEF EngineSame, PurgeInv, Budgeted
  <2>18. handled'[j] = {n \in 1..Messages : n >= row'[j].cursor}
    <3>1. handled[j] = {n \in 1..Messages : n >= row[j].cursor} BY <1>3, <2>2 DEF JobFits, Walked
    <3> QED BY <2>3, <2>4, <2>8, <2>14, <3>1
  <2>19. JobFits(j)'
    <3>1. Fresh(j)' BY <1>2, <1>3, <2>2 DEF JobFits, Fresh
    <3>2. Unwalked(j)' BY <2>2, <2>8 DEF Unwalked
    <3>3. Walked(j)' BY <2>8, <2>2, <2>18 DEF Walked
    <3>4. Grouped(j)' BY <1>3, <2>2, <2>8 DEF JobFits, Grouped
    <3>5. Remembered(j)' BY <1>2, <2>8, <2>2 DEF Remembered, Running
    <3>6. Employed(j)' BY <2>2, <2>4, <2>8, <2>11 DEF Employed, WorkerFits, Running, TopOf, Below
    <3>7. Removed(j)' BY <1>2, <1>3, <2>2 DEF JobFits, Removed, purgeVars
    <3> QED BY <3>1, <3>2, <3>3, <3>4, <3>5, <3>6, <3>7 DEF JobFits
  <2>20. OneBackfillPerChat' BY <2>2, <2>8, <2>12, OneBackfillKept
  <2>21. \A i \in Jobs \ {j} : JobSame(i)
    BY <1>2, <2>12, <2>13, <2>14, <2>15 DEF JobSame, purgeVars
  <2> QED BY <1>4, <2>16, <2>17, <2>19, <2>20, <2>21, OneJobMoves
<1>6. CASE ~(CanCheckpoint(j) /\ m < row[j].cursor)
  <2>1. /\ worker' = [worker EXCEPT ![j].pc = "finish", ![j].failed = TRUE, ![j].page = {}]
        /\ UNCHANGED <<row, queue, handled>>
    BY <1>6 DEF Checkpoint
  <2> QED BY <1>2, <2>1, WorkerStops
<1> QED BY <1>5, <1>6

LEMMA FinishHistoryKeeps ==
    ASSUME PurgeInv, NEW j \in Jobs, NEW persisted \in BOOLEAN, FinishHistory(j, persisted)
    PROVE  PurgeInv'
<1>1. /\ worker \in [Jobs -> WorkerStates] /\ row \in [Jobs -> Rows] /\ held \subseteq Jobs
      /\ used \in Budgets
  BY Spaces DEF PurgeInv, Typed, Budgeted
<1>2. /\ worker[j].pc = "finish"
      /\ used' = IF persisted THEN used ELSE [used EXCEPT !.saves = @ + 1]
      /\ row' = IF j \in memory /\ persisted THEN [row EXCEPT ![j].state = Outcome(j)] ELSE row
      /\ worker' = [worker EXCEPT ![j].pc = "release"]
      /\ UNCHANGED <<memory, held, request, queue, config, handled, engineVars, purgeVars, app>>
  BY DEF FinishHistory
<1>3. JobFits(j) BY DEF PurgeInv
<1>4. app = "up" BY <1>2, BusyIsUp
<1>5. worker' = [worker EXCEPT ![j] = worker'[j]] BY <1>1, <1>2
<1>6. worker'[j] \in WorkerStates /\ worker'[j].pc = "release"
  BY <1>1, <1>2 DEF WorkerStates, WorkerPositions
<1>7. worker' \in [Jobs -> WorkerStates] /\ \A i \in Jobs \ {j} : worker'[i] = worker[i]
  BY <1>1, <1>5, <1>6, OneEntry
<1>8. /\ row' = [row EXCEPT ![j] = row'[j]] /\ row'[j] \in Rows
      /\ row'[j].initialized = row[j].initialized
      /\ row'[j].group = row[j].group /\ row'[j].cursor = row[j].cursor
  <2>1. Outcome(j) \in States BY DEF Outcome, States
  <2>2. CASE j \in memory /\ persisted BY <1>1, <1>2, <2>1, <2>2 DEF Rows
  <2>3. CASE ~(j \in memory /\ persisted) BY <1>1, <1>2, <2>3
  <2> QED BY <2>2, <2>3
<1>9. row'[j].state = IF j \in memory /\ persisted THEN Outcome(j) ELSE row[j].state
  BY <1>1, <1>2 DEF Rows
<1>10. row' \in [Jobs -> Rows] /\ \A i \in Jobs \ {j} : row'[i] = row[i]
  BY <1>1, <1>8, OneEntry
<1>11. used' \in Budgets /\ used'.claims = used.claims BY <1>1, <1>2 DEF Budgets
<1>12. TypeOK'
  <2>1. TypeOK BY DEF PurgeInv
  <2> QED BY <1>2, <1>7, <1>10, <2>1, Spaces DEF engineVars, purgeVars, Typed
<1>13. EngineSame BY <1>2, <1>11 DEF EngineSame
<1>14. /\ j \in memory => Running(j)
       /\ row'[j].state # "absent" <=> row[j].state # "absent"
       /\ row'[j].state = "running" => Running(j)
  BY <1>2, <1>3, <1>9 DEF JobFits, Employed, WorkerFits, Running, Outcome
<1>15. row'[j].state = "done" => row[j].state = "done" \/ (row[j].initialized /\ row[j].cursor <= 1)
  BY <1>2, <1>3, <1>9 DEF JobFits, Employed, WorkerFits, Outcome
<1>16. JobFits(j)'
  <2>1. Fresh(j)' BY <1>2, <1>3 DEF JobFits, Fresh
  <2>2. Unwalked(j)' BY <1>2, <1>3, <1>8, <1>14 DEF JobFits, Unwalked
  <2>3. Walked(j)'
    <3>1. row[j].cursor \in 0..Messages + 1 /\ Messages \in Nat
      BY <1>1, HistoryAssumption DEF Rows, HistoryAssumption
    <3>2. Walked(j) BY <1>3 DEF JobFits
    <3>3. row[j].cursor <= 1 => {n \in 1..Messages : n >= row[j].cursor} = 1..Messages
      BY <3>1
    <3> QED BY <1>2, <1>8, <1>14, <1>15, <3>2, <3>3 DEF Walked
  <2>4. Grouped(j)' BY <1>3, <1>8, <1>14 DEF JobFits, Grouped
  <2>5. Remembered(j)' BY <1>2, <1>3, <1>14 DEF JobFits, Remembered, Running
  <2>6. Employed(j)' BY <1>6 DEF Employed, WorkerFits
  <2>7. Removed(j)' BY <1>2, <1>3, <1>14 DEF JobFits, Removed, purgeVars
  <2> QED BY <2>1, <2>2, <2>3, <2>4, <2>5, <2>6, <2>7 DEF JobFits
<1>17. OneBackfillPerChat' BY <1>8, <1>10, <1>14, OneBackfillKept
<1>18. \A i \in Jobs \ {j} : JobSame(i) BY <1>2, <1>7, <1>10 DEF JobSame, purgeVars
<1> QED BY <1>4, <1>12, <1>13, <1>16, <1>17, <1>18, OneJobMoves
-----------------------------------------------------------------------------
(* Requests.                                                               *)

LEMMA CheckRequestKeeps ==
    ASSUME PurgeInv, NEW j \in Jobs, CheckRequest(j)
    PROVE  PurgeInv'
<1>1. /\ request[j] = "none" /\ app = "up" /\ request' = [request EXCEPT ![j] = "checked"]
      /\ UNCHANGED <<row, memory, held, worker, queue, config, handled, engineVars, purgeVars, app, used>>
  BY DEF CheckRequest
<1>2. Typed BY Spaces DEF PurgeInv
<1>3. TypeOK' BY <1>1, <1>2, Spaces DEF engineVars, purgeVars, Typed
<1>4. EngineSame BY <1>1 DEF EngineSame, PurgeInv, Budgeted
<1>5. \A i \in Jobs : JobSame(i) BY <1>1, <1>2 DEF JobSame, purgeVars, Typed
<1>6. JobFits(j)' BY <1>5, JobKept DEF PurgeInv
<1>7. OneBackfillPerChat' BY <1>1, RowsKept DEF PurgeInv
<1> QED BY <1>1, <1>3, <1>4, <1>5, <1>6, <1>7, OneJobMoves

LEMMA InsertJobKeeps ==
    ASSUME PurgeInv, NEW j \in Jobs, InsertJob(j)
    PROVE  PurgeInv'
<1>1. /\ request[j] = "checked"
      /\ UNCHANGED <<held, worker, queue, config, handled, engineVars, purgeVars, app, used>>
  BY DEF InsertJob
<1>2. Typed BY Spaces DEF PurgeInv
<1>3. app = "up" BY <1>1, BusyIsUp
<1>4. EngineSame BY <1>1 DEF EngineSame, PurgeInv, Budgeted
<1>5. Fresh(j) BY DEF PurgeInv, JobFits
<1>6. /\ row[j].state = "absent" /\ j \notin memory /\ worker[j].pc = "none"
      /\ j \notin condemned /\ handled[j] = {}
  BY <1>1, <1>5 DEF Fresh
<1>7. CASE OccupiedNow(j)
  <2>1. request' = [request EXCEPT ![j] = "answered"] /\ UNCHANGED <<row, memory>>
    BY <1>7 DEF InsertJob
  <2>2. TypeOK' BY <1>1, <1>2, <2>1, Spaces DEF engineVars, purgeVars, Typed
  <2>3. \A i \in Jobs : JobSame(i) BY <1>1, <1>2, <2>1 DEF JobSame, purgeVars, Typed
  <2>4. JobFits(j)' BY <2>3, JobKept DEF PurgeInv
  <2>5. OneBackfillPerChat' BY <2>1, RowsKept DEF PurgeInv
  <2> QED BY <1>3, <1>4, <2>2, <2>3, <2>4, <2>5, OneJobMoves
<1>8. CASE ~OccupiedNow(j)
  <2>1. /\ request' = [request EXCEPT ![j] = "inserted"]
        /\ row' = [row EXCEPT ![j] = [NoRow EXCEPT !.state = "running", !.group = RequestedGroup(j)]]
        /\ memory' = memory \cup {j}
    BY <1>8 DEF InsertJob
  <2>2. RequestedGroup(j) \in Groups \cup {NoGroup}
    BY HistoryAssumption DEF HistoryAssumption, RequestedGroup
  <2>3. [NoRow EXCEPT !.state = "running", !.group = RequestedGroup(j)] \in Rows
    <3>1. NoRow \in Rows BY HistoryAssumption DEF NoRow, Rows, States, HistoryAssumption
    <3> QED BY <2>2, <3>1 DEF Rows, States
  <2>4. /\ row' \in [Jobs -> Rows]
        /\ row'[j] = [NoRow EXCEPT !.state = "running", !.group = RequestedGroup(j)]
        /\ \A i \in Jobs \ {j} : row'[i] = row[i]
    BY <1>2, <2>1, <2>3, OneEntry DEF Typed
  <2>5. row'[j].state = "running" /\ ~row'[j].initialized /\ row'[j].group = RequestedGroup(j)
    BY <2>4 DEF NoRow
  <2>6. /\ request'[j] = "inserted" /\ \A i \in Jobs \ {j} : request'[i] = request[i]
        /\ TypeOK'
    BY <1>1, <1>2, <2>1, <2>4, Spaces DEF engineVars, purgeVars, Typed
  <2>7. JobFits(j)'
    <3>1. Fresh(j)' BY <2>6 DEF Fresh
    <3>2. Unwalked(j)' BY <1>1, <1>6 DEF Unwalked
    <3>3. Walked(j)' BY <2>5 DEF Walked
    <3>4. Grouped(j)' BY <2>5 DEF Grouped, RequestedGroup
    <3>5. Remembered(j)' BY <2>1, <2>5 DEF Remembered
    <3>6. Employed(j)' BY <1>1, <1>6 DEF Employed, WorkerFits
    <3>7. Removed(j)' BY <1>1, <1>6 DEF Removed, purgeVars
    <3> QED BY <3>1, <3>2, <3>3, <3>4, <3>5, <3>6, <3>7 DEF JobFits
  <2>8. \A i \in Jobs \ {j} : JobSame(i) BY <1>1, <2>1, <2>4, <2>6 DEF JobSame, purgeVars
  <2>9. ASSUME NEW i \in Jobs \ NamedJobs, Running(i), j \notin NamedJobs
        PROVE  row[i].group # GroupOf[j]
    <3>1. i \in memory BY <1>3, <2>9 DEF PurgeInv, JobFits, Remembered
    <3> QED BY <1>8, <2>9, <3>1 DEF OccupiedNow, Occupied
  <2>10. OneBackfillPerChat'
    <3> SUFFICES ASSUME NEW i \in Jobs \ NamedJobs, NEW l \in Jobs \ NamedJobs,
                        row'[i].state = "running", row'[l].state = "running",
                        row'[i].group = row'[l].group, i # l
                 PROVE  FALSE
      BY DEF OneBackfillPerChat, Running
    <3>1. CASE i = j
      <4>1. Running(l) /\ row[l].group = GroupOf[j] /\ j \notin NamedJobs
        BY <2>4, <2>5, <3>1 DEF Running, RequestedGroup
      <4> QED BY <2>9, <4>1
    <3>2. CASE l = j
      <4>1. Running(i) /\ row[i].group = GroupOf[j] /\ j \notin NamedJobs
        BY <2>4, <2>5, <3>2 DEF Running, RequestedGroup
      <4> QED BY <2>9, <4>1
    <3>3. CASE i # j /\ l # j
      <4>1. Running(i) /\ Running(l) /\ row[i].group = row[l].group BY <2>4, <3>3 DEF Running
      <4> QED BY <4>1 DEF PurgeInv, OneBackfillPerChat
    <3> QED BY <3>1, <3>2, <3>3
  <2> QED BY <1>3, <1>4, <2>6, <2>7, <2>8, <2>10, OneJobMoves
<1> QED BY <1>7, <1>8

\* Started workers fit their jobs.
LEMMA StartedWorkers ==
    ASSUME PurgeInv, NEW js \in SUBSET Jobs, StartWorkers(js)
    PROVE  /\ worker' \in [Jobs -> WorkerStates] /\ held' \subseteq Jobs
           /\ \A i \in Jobs : worker'[i] = worker[i] \/ (Startable(i) /\ worker'[i].pc = "open")
<1>1. worker \in [Jobs -> WorkerStates] /\ held \subseteq Jobs BY Spaces DEF PurgeInv, Typed
<1>2. [NoWorker EXCEPT !.pc = "open"] \in WorkerStates /\ [NoWorker EXCEPT !.pc = "open"].pc = "open"
  BY DEF NoWorker, WorkerStates, WorkerPositions
<1> QED BY <1>1, <1>2 DEF StartWorkers

LEMMA StartedFit ==
    ASSUME PurgeInv, NEW js \in SUBSET Jobs, StartWorkers(js),
           UNCHANGED <<row, memory, queue, handled, condemned, app>>,
           \A i \in Jobs : request'[i] \in {"none", "checked"} => request[i] \in {"none", "checked"}
    PROVE  \A i \in Jobs : JobFits(i)'
<1> TAKE i \in Jobs
<1>1. CASE worker'[i] = worker[i]
  <2>1. JobSame(i) BY <1>1 DEF JobSame
  <2> QED BY <2>1, JobKept DEF PurgeInv
<1>2. CASE Startable(i) /\ worker'[i].pc = "open"
  <2>1. JobFits(i) BY DEF PurgeInv
  <2>2. Fresh(i)' BY <1>2, <2>1 DEF JobFits, Fresh, Startable
  <2>3. Employed(i)' BY <1>2 DEF Employed, WorkerFits, Startable, Running
  <2> QED BY <2>1, <2>2, <2>3
        DEF JobFits, Unwalked, Walked, Grouped, Remembered, Removed, Running
<1> QED BY <1>1, <1>2, StartedWorkers

LEMMA StartJobKeeps ==
    ASSUME PurgeInv, NEW j \in Jobs, StartJob(j)
    PROVE  PurgeInv'
<1>1. /\ request[j] = "inserted" /\ request' = [request EXCEPT ![j] = "answered"]
      /\ UNCHANGED <<row, memory, queue, config, handled, engineVars, purgeVars, app, used>>
      /\ StartWorkers({j}) \/ UNCHANGED <<worker, held>>
  BY DEF StartJob
<1>2. Typed BY Spaces DEF PurgeInv
<1>3. app = "up" BY <1>1, BusyIsUp
<1>4. EngineSame BY <1>1 DEF EngineSame, PurgeInv, Budgeted
<1>5. \A i \in Jobs : request'[i] \in {"none", "checked"} => request[i] \in {"none", "checked"}
  BY <1>1, <1>2 DEF Typed
<1>6. worker' \in [Jobs -> WorkerStates] /\ held' \subseteq Jobs
  BY <1>1, <1>2, StartedWorkers DEF Typed
<1>7. TypeOK' BY <1>1, <1>2, <1>6, Spaces DEF engineVars, purgeVars, Typed
<1>8. \A i \in Jobs : JobFits(i)'
  <2>1. CASE StartWorkers({j}) BY <1>1, <1>5, <2>1, StartedFit DEF purgeVars
  <2>2. CASE UNCHANGED <<worker, held>>
    <3>1. \A i \in Jobs : JobSame(i) BY <1>1, <1>5, <2>2 DEF JobSame, purgeVars
    <3> QED BY <3>1, JobKept DEF PurgeInv
  <2> QED BY <1>1, <2>1, <2>2
<1>9. OneBackfillPerChat' BY <1>1, RowsKept DEF PurgeInv
<1>10. Budgeted' BY <1>4 DEF EngineSame, Budgeted
<1> QED BY <1>3, <1>4, <1>7, <1>8, <1>9, <1>10, EngineKept DEF PurgeInv

LEMMA CancelJobKeeps ==
    ASSUME PurgeInv, NEW j \in Jobs, CancelJob(j)
    PROVE  PurgeInv'
<1>1. /\ app = "up" /\ j \in memory /\ Running(j)
      /\ row' = [row EXCEPT ![j].cancelled = TRUE]
      /\ worker' = [worker EXCEPT ![j].stop = @ \/ worker[j].pc # "none"]
      /\ used' = [used EXCEPT !.cancels = @ + 1]
      /\ UNCHANGED <<memory, held, request, queue, config, handled, engineVars, purgeVars, app>>
  BY DEF CancelJob
<1>2. Typed /\ used \in Budgets BY Spaces DEF PurgeInv, Budgeted
<1>3. row' = [row EXCEPT ![j] = row'[j]] /\ row'[j] \in Rows
  <2>1. row' = [row EXCEPT ![j] = row'[j]] BY <1>1, <1>2 DEF Typed
  <2>2. row'[j] = [row[j] EXCEPT !.cancelled = TRUE] /\ row[j] \in Rows BY <1>1, <1>2 DEF Typed
  <2>3. row'[j] \in Rows BY <2>2 DEF Rows
  <2> QED BY <2>1, <2>3
<1>4. /\ row'[j].state = row[j].state /\ row'[j].initialized = row[j].initialized
      /\ row'[j].group = row[j].group /\ row'[j].cursor = row[j].cursor
  BY <1>1, <1>2 DEF Typed, Rows
<1>5. worker' = [worker EXCEPT ![j] = worker'[j]] /\ worker'[j] \in WorkerStates
  <2>1. worker' = [worker EXCEPT ![j] = worker'[j]] BY <1>1, <1>2 DEF Typed
  <2>2. worker'[j] \in WorkerStates BY <1>1, <1>2 DEF Typed, WorkerStates
  <2> QED BY <2>1, <2>2
<1>6. /\ worker'[j].pc = worker[j].pc /\ worker'[j].page = worker[j].page
      /\ worker'[j].failed = worker[j].failed
  BY <1>1, <1>2 DEF Typed, WorkerStates
<1>7. row' \in [Jobs -> Rows] /\ \A i \in Jobs \ {j} : row'[i] = row[i]
  BY <1>2, <1>3, OneEntry DEF Typed
<1>8. worker' \in [Jobs -> WorkerStates] /\ \A i \in Jobs \ {j} : worker'[i] = worker[i]
  BY <1>2, <1>5, OneEntry DEF Typed
<1>9. TypeOK' BY <1>1, <1>2, <1>7, <1>8, Spaces DEF engineVars, purgeVars, Typed
<1>10. EngineSame BY <1>1, <1>2 DEF EngineSame, Budgets
<1>11. JobFits(j)'
  <2>1. JobFits(j) BY DEF PurgeInv
  <2>2. Fresh(j)' BY <1>1, <2>1 DEF JobFits, Fresh
  <2>3. Employed(j)'
    <3>1. WorkerFits(j, worker[j]) BY <2>1 DEF JobFits, Employed
    <3> QED BY <1>1, <1>4, <1>6, <3>1 DEF Employed, WorkerFits, Running
  <2>4. Walked(j)' BY <1>1, <1>4, <2>1 DEF JobFits, Walked
  <2>5. Unwalked(j)' BY <1>1, <1>4, <2>1 DEF JobFits, Unwalked
  <2> QED BY <1>1, <1>4, <2>1, <2>2, <2>3, <2>4, <2>5
        DEF JobFits, Grouped, Remembered, Removed, Running, purgeVars
<1>12. OneBackfillPerChat' BY <1>1, <1>4, <1>7, OneBackfillKept
<1>13. \A i \in Jobs \ {j} : JobSame(i) BY <1>1, <1>7, <1>8 DEF JobSame, purgeVars
<1> QED BY <1>1, <1>9, <1>10, <1>11, <1>12, <1>13, OneJobMoves

\* Finished jobs leave: what is gone was not running.
LEMMA DeleteJobsKeeps ==
    ASSUME PurgeInv, NEW js \in SUBSET Jobs, DeleteJobs(js)
    PROVE  PurgeInv'
<1>1. /\ app = "up"
      /\ row' = [j \in Jobs |-> IF j \in js /\ Finished(j) THEN NoRow ELSE row[j]]
      /\ memory' = memory \ {j \in js : Finished(j)}
      /\ UNCHANGED <<held, worker, request, queue, config, handled, engineVars, purgeVars, app, used>>
  BY DEF DeleteJobs
<1>2. Typed BY Spaces DEF PurgeInv
<1>3. NoRow \in Rows /\ NoRow.state = "absent"
  BY HistoryAssumption DEF NoRow, Rows, States, HistoryAssumption
<1>4. row' \in [Jobs -> Rows] BY <1>1, <1>2, <1>3 DEF Typed
<1>5. TypeOK' BY <1>1, <1>2, <1>4, Spaces DEF engineVars, purgeVars, Typed
<1>6. EngineSame BY <1>1 DEF EngineSame, PurgeInv, Budgeted
<1>7. ASSUME NEW i \in Jobs PROVE JobFits(i)'
  <2>0. JobFits(i) BY DEF PurgeInv
  <2>1. CASE i \in js /\ Finished(i)
    <3>1. row'[i].state = "absent" /\ i \notin memory' BY <1>1, <1>3, <2>1
    <3>2. row[i].state # "absent" BY <2>1 DEF Finished
    <3>3. Fresh(i)' BY <1>1, <2>0, <3>2 DEF JobFits, Fresh
    <3>4. Employed(i)' BY <3>1 DEF Employed, WorkerFits
    <3>5. Removed(i)' BY <1>1, <2>0, <3>1 DEF JobFits, Removed, purgeVars
    <3> QED BY <3>1, <3>3, <3>4, <3>5 DEF JobFits, Unwalked, Walked, Grouped, Remembered, Running
  <2>2. CASE ~(i \in js /\ Finished(i))
    <3>1. JobSame(i) BY <1>1, <2>2 DEF JobSame, purgeVars
    <3> QED BY <2>0, <3>1, JobKept
  <2> QED BY <2>1, <2>2
<1>8. OneBackfillPerChat'
  <2>1. \A i \in Jobs : row'[i].state = "running" => row'[i] = row[i] BY <1>1, <1>3
  <2> QED BY <2>1 DEF PurgeInv, OneBackfillPerChat, Running
<1>9. Budgeted' BY <1>6 DEF EngineSame, Budgeted
<1> QED BY <1>1, <1>5, <1>6, <1>7, <1>8, <1>9, EngineKept DEF PurgeInv
-----------------------------------------------------------------------------
(* The engine.                                                             *)

\* Nothing but the hope of the workers changes when the engine does.
LEMMA JobsWait ==
    ASSUME PurgeInv, UNCHANGED <<row, memory, request, queue, handled, condemned>>,
           app' = "up" => app = "up",
           worker' \in {worker, Disconnected(worker), Disconnected(Cancelled(worker))}
    PROVE  /\ worker' \in [Jobs -> WorkerStates] /\ \A i \in Jobs : worker'[i].pc = worker[i].pc
           /\ \A i \in Jobs : JobFits(i)'
           /\ OneBackfillPerChat'
<1>1. worker \in [Jobs -> WorkerStates] BY Spaces DEF PurgeInv, Typed
<1>2. /\ Cancelled(worker) \in [Jobs -> WorkerStates]
      /\ \A i \in Jobs : /\ Cancelled(worker)[i].pc = worker[i].pc
                         /\ Cancelled(worker)[i].page = worker[i].page
                         /\ Cancelled(worker)[i].failed = worker[i].failed
  BY <1>1 DEF Cancelled, WorkerStates
<1>3. ASSUME NEW v \in [Jobs -> WorkerStates]
      PROVE  /\ Disconnected(v) \in [Jobs -> WorkerStates]
             /\ \A i \in Jobs : /\ Disconnected(v)[i].pc = v[i].pc
                                /\ Disconnected(v)[i].page = v[i].page
                                /\ Disconnected(v)[i].failed = v[i].failed
  BY DEF Disconnected, WorkerStates
<1>4. /\ worker' \in [Jobs -> WorkerStates]
      /\ \A i \in Jobs : /\ worker'[i].pc = worker[i].pc /\ worker'[i].page = worker[i].page
                         /\ worker'[i].failed = worker[i].failed
  BY <1>1, <1>2, <1>3
<1>5. \A i \in Jobs : JobSame(i) BY <1>4 DEF JobSame
<1>6. \A i \in Jobs : JobFits(i)' BY <1>5, JobKept DEF PurgeInv
<1>7. OneBackfillPerChat' BY RowsKept DEF PurgeInv
<1> QED BY <1>4, <1>6, <1>7

LEMMA BeginStopKeeps ==
    ASSUME PurgeInv, BeginStop
    PROVE  PurgeInv'
<1>1. /\ app = "up" /\ stopping' = "begun" /\ used' = [used EXCEPT !.stops = @ + 1]
      /\ gate' = TRUE /\ monitor' = "stopped" /\ held' = held \cup PausedJobs
      /\ worker' = Disconnected(Cancelled(worker))
      /\ UNCHANGED <<row, memory, request, queue, config, handled, saved, op, restart, stranded, purgeVars, app>>
  BY DEF BeginStop, PauseAndStop
<1>2. Typed /\ used \in Budgets BY Spaces DEF PurgeInv, Budgeted
<1>3. /\ worker' \in [Jobs -> WorkerStates] /\ \A i \in Jobs : worker'[i].pc = worker[i].pc
      /\ \A i \in Jobs : JobFits(i)'
      /\ OneBackfillPerChat'
  BY <1>1, JobsWait DEF historyVars, purgeVars
<1>4. TypeOK' BY <1>1, <1>2, <1>3, Spaces DEF Typed, historyVars, purgeVars, PausedJobs
<1>5. used' \in Budgets /\ used'.claims = used.claims BY <1>1, <1>2 DEF Budgets
<1>6. AppFits' BY <1>1, <1>3 DEF PurgeInv, AppFits, historyVars, purgeVars
<1>7. LockFits' BY <1>1 DEF PurgeInv, LockFits, purgeVars
<1>8. SwitchFits' BY <1>1, <1>2 DEF PurgeInv, SwitchFits, Typed
<1>9. SoloFits' BY <1>1, <1>2, <1>5 DEF PurgeInv, SoloFits, AppFits, SwitchFits, purgeVars, Typed
<1>10. PauseFits' BY <1>1, <1>2 DEF PurgeInv, PauseFits, AppFits, SoloFits, SwitchFits, Typed
<1> QED BY <1>3, <1>4, <1>5, <1>6, <1>7, <1>8, <1>9, <1>10 DEF PurgeInv, Budgeted

LEMMA EndStopKeeps ==
    ASSUME PurgeInv, EndStop
    PROVE  PurgeInv'
<1>1. /\ op = "free" /\ stopping' = "waiting" /\ saved' = [autoStart |-> FALSE, paused |-> TRUE]
      /\ gate' = TRUE /\ monitor' = "stopped" /\ held' = held \cup PausedJobs
      /\ worker' = Disconnected(Cancelled(worker))
      /\ UNCHANGED <<row, memory, request, queue, config, handled, op, restart, stranded, purgeVars, app, used>>
  BY DEF EndStop, PauseAndStop
<1>2. Typed /\ used \in Budgets BY Spaces DEF PurgeInv, Budgeted
<1>3. /\ worker' \in [Jobs -> WorkerStates] /\ \A i \in Jobs : worker'[i].pc = worker[i].pc
      /\ \A i \in Jobs : JobFits(i)'
      /\ OneBackfillPerChat'
  BY <1>1, JobsWait DEF historyVars, purgeVars
<1>4. TypeOK' BY <1>1, <1>2, <1>3, Spaces DEF Typed, historyVars, purgeVars, PausedJobs
<1>5. used' \in Budgets /\ used'.claims = used.claims BY <1>1, <1>2 DEF Budgets
<1>6. AppFits' BY <1>1, <1>3 DEF PurgeInv, AppFits, historyVars, purgeVars
<1>7. LockFits' BY <1>1 DEF PurgeInv, LockFits, purgeVars
<1>8. SwitchFits' BY <1>1, <1>2 DEF PurgeInv, SwitchFits, Typed
<1>9. SoloFits' BY <1>1, <1>2, <1>5 DEF PurgeInv, SoloFits, AppFits, SwitchFits, purgeVars, Typed
<1>10. PauseFits' BY <1>1, <1>2 DEF PurgeInv, PauseFits, AppFits, SoloFits, SwitchFits, Typed
<1> QED BY <1>3, <1>4, <1>5, <1>6, <1>7, <1>8, <1>9, <1>10 DEF PurgeInv, Budgeted

LEMMA AnswerStopKeeps ==
    ASSUME PurgeInv, AnswerStop
    PROVE  PurgeInv'
<1>1. /\ stopping' = "none"
      /\ UNCHANGED <<historyVars, gate, saved, monitor, op, restart, stranded, purgeVars, app, used>>
  BY DEF AnswerStop
<1>2. Typed /\ used \in Budgets BY Spaces DEF PurgeInv, Budgeted
<1>3. /\ worker' \in [Jobs -> WorkerStates] /\ \A i \in Jobs : worker'[i].pc = worker[i].pc
      /\ \A i \in Jobs : JobFits(i)'
      /\ OneBackfillPerChat'
  BY <1>1, JobsWait DEF historyVars, purgeVars
<1>4. TypeOK' BY <1>1, <1>2, <1>3, Spaces DEF Typed, historyVars, purgeVars, PausedJobs
<1>5. used' \in Budgets /\ used'.claims = used.claims BY <1>1, <1>2 DEF Budgets
<1>6. AppFits' BY <1>1, <1>3 DEF PurgeInv, AppFits, historyVars, purgeVars
<1>7. LockFits' BY <1>1 DEF PurgeInv, LockFits, purgeVars
<1>8. SwitchFits' BY <1>1, <1>2 DEF PurgeInv, SwitchFits, Typed
<1>9. SoloFits' BY <1>1, <1>2, <1>5 DEF PurgeInv, SoloFits, AppFits, SwitchFits, purgeVars, Typed
<1>10. PauseFits' BY <1>1, <1>2 DEF PurgeInv, PauseFits, AppFits, SoloFits, SwitchFits, Typed
<1> QED BY <1>3, <1>4, <1>5, <1>6, <1>7, <1>8, <1>9, <1>10 DEF PurgeInv, Budgeted

LEMMA BeginStartKeeps ==
    ASSUME PurgeInv, NEW again \in BOOLEAN, BeginStart(again)
    PROVE  PurgeInv'
<1>1. /\ app = "up" /\ op = "free" /\ op' = "start" /\ used' = [used EXCEPT !.starts = @ + 1]
      /\ \/ gate' = TRUE /\ monitor' = "stopped" /\ held' = held \cup PausedJobs /\ worker' = Disconnected(Cancelled(worker))
         \/ UNCHANGED <<gate, monitor, held, worker>>
      /\ UNCHANGED <<row, memory, request, queue, config, handled, saved, stopping, restart, stranded, purgeVars, app>>
  BY DEF BeginStart, PauseAndStop
<1>2. Typed /\ used \in Budgets BY Spaces DEF PurgeInv, Budgeted
<1>3. /\ worker' \in [Jobs -> WorkerStates] /\ \A i \in Jobs : worker'[i].pc = worker[i].pc
      /\ \A i \in Jobs : JobFits(i)'
      /\ OneBackfillPerChat'
  BY <1>1, JobsWait DEF historyVars, purgeVars
<1>4. TypeOK' BY <1>1, <1>2, <1>3, Spaces DEF Typed, historyVars, purgeVars, PausedJobs
<1>5. used' \in Budgets /\ used'.claims = used.claims BY <1>1, <1>2 DEF Budgets
<1>6. AppFits' BY <1>1, <1>3 DEF PurgeInv, AppFits, historyVars, purgeVars
<1>7. LockFits' BY <1>1 DEF PurgeInv, LockFits, purgeVars
<1>8. SwitchFits' BY <1>1, <1>2 DEF PurgeInv, SwitchFits, Typed
<1>9. SoloFits' BY <1>1, <1>2, <1>5 DEF PurgeInv, SoloFits, AppFits, SwitchFits, purgeVars, Typed
<1>10. PauseFits' BY <1>1, <1>2 DEF PurgeInv, PauseFits, AppFits, SoloFits, SwitchFits, Typed
<1> QED BY <1>3, <1>4, <1>5, <1>6, <1>7, <1>8, <1>9, <1>10 DEF PurgeInv, Budgeted

LEMMA StartEngineKeeps ==
    ASSUME PurgeInv, StartEngine
    PROVE  PurgeInv'
<1>1. /\ op \in {"start", "boot"} /\ op' = (IF op = "start" THEN "started" ELSE "booted")
      /\ monitor' = "running"
      /\ UNCHANGED <<historyVars, gate, saved, stopping, restart, stranded, purgeVars, app, used>>
  BY DEF StartEngine
<1>2. Typed /\ used \in Budgets BY Spaces DEF PurgeInv, Budgeted
<1>3. /\ worker' \in [Jobs -> WorkerStates] /\ \A i \in Jobs : worker'[i].pc = worker[i].pc
      /\ \A i \in Jobs : JobFits(i)'
      /\ OneBackfillPerChat'
  BY <1>1, JobsWait DEF historyVars, purgeVars
<1>4. TypeOK' BY <1>1, <1>2, <1>3, Spaces DEF Typed, historyVars, purgeVars, PausedJobs
<1>5. used' \in Budgets /\ used'.claims = used.claims BY <1>1, <1>2 DEF Budgets
<1>6. AppFits' BY <1>1, <1>3 DEF PurgeInv, AppFits, historyVars, purgeVars
<1>7. LockFits' BY <1>1 DEF PurgeInv, LockFits, purgeVars
<1>8. SwitchFits' BY <1>1, <1>2 DEF PurgeInv, SwitchFits, Typed
<1>9. SoloFits' BY <1>1, <1>2, <1>5 DEF PurgeInv, SoloFits, AppFits, SwitchFits, purgeVars, Typed
<1>10. PauseFits' BY <1>1, <1>2 DEF PurgeInv, PauseFits, AppFits, SoloFits, SwitchFits, Typed
<1> QED BY <1>3, <1>4, <1>5, <1>6, <1>7, <1>8, <1>9, <1>10 DEF PurgeInv, Budgeted

LEMMA StartFailsKeeps ==
    ASSUME PurgeInv, StartFails
    PROVE  PurgeInv'
<1>1. /\ op \in {"start", "boot"} /\ op' = "free"
      /\ UNCHANGED <<historyVars, gate, saved, monitor, stopping, restart, stranded, purgeVars, app, used>>
  BY DEF StartFails
<1>2. Typed /\ used \in Budgets BY Spaces DEF PurgeInv, Budgeted
<1>3. /\ worker' \in [Jobs -> WorkerStates] /\ \A i \in Jobs : worker'[i].pc = worker[i].pc
      /\ \A i \in Jobs : JobFits(i)'
      /\ OneBackfillPerChat'
  BY <1>1, JobsWait DEF historyVars, purgeVars
<1>4. TypeOK' BY <1>1, <1>2, <1>3, Spaces DEF Typed, historyVars, purgeVars, PausedJobs
<1>5. used' \in Budgets /\ used'.claims = used.claims BY <1>1, <1>2 DEF Budgets
<1>6. AppFits' BY <1>1, <1>3 DEF PurgeInv, AppFits, historyVars, purgeVars
<1>7. LockFits' BY <1>1 DEF PurgeInv, LockFits, purgeVars
<1>8. SwitchFits' BY <1>1, <1>2 DEF PurgeInv, SwitchFits, Typed
<1>9. SoloFits' BY <1>1, <1>2, <1>5 DEF PurgeInv, SoloFits, AppFits, SwitchFits, purgeVars, Typed
<1>10. PauseFits' BY <1>1, <1>2 DEF PurgeInv, PauseFits, AppFits, SoloFits, SwitchFits, Typed
<1> QED BY <1>3, <1>4, <1>5, <1>6, <1>7, <1>8, <1>9, <1>10 DEF PurgeInv, Budgeted

LEMMA MonitorFailsKeeps ==
    ASSUME PurgeInv, MonitorFails
    PROVE  PurgeInv'
<1>1. /\ monitor = "running" /\ monitor' = "error" /\ restart' = TRUE /\ stranded' = TRUE
      /\ worker' = Disconnected(worker) /\ used' = [used EXCEPT !.outages = @ + 1]
      /\ UNCHANGED <<row, memory, held, request, queue, config, handled, gate, saved, op, stopping, purgeVars, app>>
  BY DEF MonitorFails
<1>2. Typed /\ used \in Budgets BY Spaces DEF PurgeInv, Budgeted
<1>3. /\ worker' \in [Jobs -> WorkerStates] /\ \A i \in Jobs : worker'[i].pc = worker[i].pc
      /\ \A i \in Jobs : JobFits(i)'
      /\ OneBackfillPerChat'
  BY <1>1, JobsWait DEF historyVars, purgeVars
<1>4. TypeOK' BY <1>1, <1>2, <1>3, Spaces DEF Typed, historyVars, purgeVars, PausedJobs
<1>5. used' \in Budgets /\ used'.claims = used.claims BY <1>1, <1>2 DEF Budgets
<1>6. AppFits' BY <1>1, <1>3 DEF PurgeInv, AppFits, historyVars, purgeVars
<1>7. LockFits' BY <1>1 DEF PurgeInv, LockFits, purgeVars
<1>8. SwitchFits' BY <1>1, <1>2 DEF PurgeInv, SwitchFits, Typed
<1>9. SoloFits' BY <1>1, <1>2, <1>5 DEF PurgeInv, SoloFits, AppFits, SwitchFits, purgeVars, Typed
<1>10. PauseFits' BY <1>1, <1>2 DEF PurgeInv, PauseFits, AppFits, SoloFits, SwitchFits, Typed
<1> QED BY <1>3, <1>4, <1>5, <1>6, <1>7, <1>8, <1>9, <1>10 DEF PurgeInv, Budgeted

LEMMA RestartMonitorKeeps ==
    ASSUME PurgeInv, RestartMonitor
    PROVE  PurgeInv'
<1>1. /\ app = "up" /\ op = "free" /\ restart' = FALSE
      /\ monitor' = "running" => saved.autoStart \/ monitor = "running"
      /\ monitor' \in {"running", monitor}
      /\ UNCHANGED <<historyVars, gate, saved, op, stopping, stranded, purgeVars, app, used>>
  BY DEF RestartMonitor, ShouldRestart
<1>2. Typed /\ used \in Budgets BY Spaces DEF PurgeInv, Budgeted
<1>3. /\ worker' \in [Jobs -> WorkerStates] /\ \A i \in Jobs : worker'[i].pc = worker[i].pc
      /\ \A i \in Jobs : JobFits(i)'
      /\ OneBackfillPerChat'
  BY <1>1, JobsWait DEF historyVars, purgeVars
<1>4. TypeOK' BY <1>1, <1>2, <1>3, Spaces DEF Typed, historyVars, purgeVars, PausedJobs
<1>5. used' \in Budgets /\ used'.claims = used.claims BY <1>1, <1>2 DEF Budgets
<1>6. AppFits' BY <1>1, <1>3 DEF PurgeInv, AppFits, historyVars, purgeVars
<1>7. LockFits' BY <1>1 DEF PurgeInv, LockFits, purgeVars
<1>8. SwitchFits' BY <1>1, <1>2 DEF PurgeInv, SwitchFits, Typed
<1>9. SoloFits' BY <1>1, <1>2, <1>5 DEF PurgeInv, SoloFits, AppFits, SwitchFits, purgeVars, Typed
<1>10. PauseFits' BY <1>1, <1>2 DEF PurgeInv, PauseFits, AppFits, SoloFits, SwitchFits, Typed
<1> QED BY <1>3, <1>4, <1>5, <1>6, <1>7, <1>8, <1>9, <1>10 DEF PurgeInv, Budgeted

LEMMA BootKeeps ==
    ASSUME PurgeInv, Boot
    PROVE  PurgeInv'
<1>1. /\ app = "down" /\ app' = "booting" /\ gate' = saved.paused
      /\ UNCHANGED <<historyVars, saved, monitor, op, stopping, restart, stranded, purgeVars, used>>
  BY DEF Boot, BootGate
<1>2. Typed /\ used \in Budgets BY Spaces DEF PurgeInv, Budgeted
<1>3. /\ worker' \in [Jobs -> WorkerStates] /\ \A i \in Jobs : worker'[i].pc = worker[i].pc
      /\ \A i \in Jobs : JobFits(i)'
      /\ OneBackfillPerChat'
  BY <1>1, JobsWait DEF historyVars, purgeVars
<1>4. TypeOK' BY <1>1, <1>2, <1>3, Spaces DEF Typed, historyVars, purgeVars, PausedJobs
<1>5. used' \in Budgets /\ used'.claims = used.claims BY <1>1, <1>2 DEF Budgets
<1>6. AppFits' BY <1>1, <1>3 DEF PurgeInv, AppFits, historyVars, purgeVars
<1>7. LockFits' BY <1>1 DEF PurgeInv, LockFits, purgeVars
<1>8. SwitchFits' BY <1>1, <1>2 DEF PurgeInv, SwitchFits, Typed
<1>9. SoloFits' BY <1>1, <1>2, <1>5 DEF PurgeInv, SoloFits, AppFits, SwitchFits, purgeVars, Typed
<1>10. PauseFits' BY <1>1, <1>2 DEF PurgeInv, PauseFits, AppFits, SoloFits, SwitchFits, Typed
<1> QED BY <1>3, <1>4, <1>5, <1>6, <1>7, <1>8, <1>9, <1>10 DEF PurgeInv, Budgeted

LEMMA ResumeEngineKeeps ==
    ASSUME PurgeInv, ResumeEngine
    PROVE  PurgeInv'
<1>1. /\ op = "resume" /\ op' = "free" /\ owed' \in {FALSE, owed}
      /\ monitor' \in {"running", monitor} /\ (monitor' = "running" => monitor = "running" \/ (owed /\ app = "up"))
      /\ UNCHANGED <<historyVars, gate, saved, stopping, restart, stranded, purge, condemned, overtaken, app, used>>
  BY DEF ResumeEngine, ResumeDue
<1>2. Typed /\ used \in Budgets BY Spaces DEF PurgeInv, Budgeted
<1>3. /\ worker' \in [Jobs -> WorkerStates] /\ \A i \in Jobs : worker'[i].pc = worker[i].pc
      /\ \A i \in Jobs : JobFits(i)'
      /\ OneBackfillPerChat'
  BY <1>1, JobsWait DEF historyVars, purgeVars
<1>4. TypeOK' BY <1>1, <1>2, <1>3, Spaces DEF Typed, historyVars, purgeVars, PausedJobs
<1>5. used' \in Budgets /\ used'.claims = used.claims BY <1>1, <1>2 DEF Budgets
<1>6. AppFits' BY <1>1, <1>3 DEF PurgeInv, AppFits, historyVars, purgeVars
<1>7. LockFits' BY <1>1 DEF PurgeInv, LockFits, purgeVars
<1>8. SwitchFits' BY <1>1, <1>2 DEF PurgeInv, SwitchFits, Typed
<1>9. SoloFits' BY <1>1, <1>2, <1>5 DEF PurgeInv, SoloFits, AppFits, SwitchFits, purgeVars, Typed
<1>10. PauseFits' BY <1>1, <1>2 DEF PurgeInv, PauseFits, AppFits, SoloFits, SwitchFits, Typed
<1> QED BY <1>3, <1>4, <1>5, <1>6, <1>7, <1>8, <1>9, <1>10 DEF PurgeInv, Budgeted

LEMMA ResumeHistoryKeeps ==
    ASSUME PurgeInv, ResumeHistory
    PROVE  PurgeInv'
<1> DEFINE js == {j \in memory : Running(j) /\ ~row[j].cancelled}
<1>1. /\ op \in {"started", "booted"} /\ op' = "free" /\ gate' = FALSE
      /\ saved' = IF op = "started" THEN [autoStart |-> TRUE, paused |-> FALSE] ELSE saved
      /\ \/ StartWorkers(js) /\ stranded' = FALSE
         \/ UNCHANGED <<worker, held, stranded>>
      /\ UNCHANGED <<row, memory, request, queue, config, handled, monitor, stopping, restart,
                     purgeVars, app, used>>
  BY DEF ResumeHistory
<1>2. Typed /\ used \in Budgets BY Spaces DEF PurgeInv, Budgeted
<1>3. app = "up" BY <1>1 DEF PurgeInv, AppFits
<1>4. /\ worker' \in [Jobs -> WorkerStates] /\ held' \subseteq Jobs
      /\ \A i \in Jobs : JobFits(i)'
  <2>1. js \in SUBSET Jobs BY <1>2 DEF Typed
  <2>2. CASE StartWorkers(js) BY <1>1, <2>1, <2>2, StartedWorkers, StartedFit DEF purgeVars
  <2>3. CASE UNCHANGED <<worker, held, stranded>>
    BY <1>1, <1>2, <2>3, JobsWait DEF purgeVars, Typed
  <2> QED BY <1>1, <2>2, <2>3
<1>5. TypeOK' BY <1>1, <1>2, <1>4, Spaces DEF Typed, purgeVars
<1>6. OneBackfillPerChat' BY <1>1, RowsKept DEF PurgeInv
<1>7. AppFits' BY <1>1, <1>3 DEF AppFits
<1>8. LockFits' BY <1>1 DEF PurgeInv, LockFits, purgeVars
<1>9. saved'.paused = FALSE
  BY <1>1, <1>2 DEF PurgeInv, SwitchFits, Typed
<1>10. SwitchFits' BY <1>1, <1>9 DEF SwitchFits
<1>11. SoloFits' BY <1>1, <1>3, <1>9 DEF PurgeInv, SoloFits, purgeVars
<1>12. PauseFits' BY <1>9 DEF PauseFits
<1> QED BY <1>1, <1>2, <1>4, <1>5, <1>6, <1>7, <1>8, <1>10, <1>11, <1>12 DEF PurgeInv, Budgeted

LEMMA ServeKeeps ==
    ASSUME PurgeInv, Serve
    PROVE  PurgeInv'
<1>1. /\ app = "booting" /\ op = "free" /\ app' = "up"
      /\ memory' = {j \in Jobs : Running(j)}
      /\ op' = IF saved.autoStart THEN "boot" ELSE "free"
      /\ UNCHANGED <<row, held, worker, request, queue, config, handled, gate, saved, monitor,
                     stopping, restart, stranded, purgeVars, used>>
  BY DEF Serve
<1>2. Typed /\ used \in Budgets BY Spaces DEF PurgeInv, Budgeted
<1>3. /\ memory = {} /\ \A j \in Jobs : worker[j].pc = "none" /\ request[j] \notin {"checked", "inserted"}
      /\ monitor # "running" /\ ~owed /\ \A k \in Keys : purge[k].pc # "claimed"
  BY <1>1 DEF PurgeInv, AppFits
<1>4. TypeOK' BY <1>1, <1>2, Spaces DEF Typed, purgeVars
<1>5. ASSUME NEW j \in Jobs PROVE JobFits(j)'
  <2>1. JobFits(j) BY DEF PurgeInv
  <2>2. Fresh(j)' BY <1>1, <2>1 DEF JobFits, Fresh, Running, purgeVars
  <2>3. Remembered(j)' BY <1>1 DEF Remembered, Running
  <2>4. Employed(j)' BY <1>1, <1>3 DEF Employed, WorkerFits, Running
  <2>5. Removed(j)' BY <1>1, <2>1 DEF JobFits, Removed, Running, purgeVars
  <2> QED BY <1>1, <2>1, <2>2, <2>3, <2>4, <2>5 DEF JobFits, Unwalked, Walked, Grouped
<1>6. OneBackfillPerChat' BY <1>1, RowsKept DEF PurgeInv
<1>7. AppFits' BY <1>1 DEF AppFits
<1>8. \A k \in Keys : purge[k].pc = "none"
  <2>1. \A k \in Keys : purge[k].pc \in PurgePositions BY <1>2 DEF Typed, PurgeRecords
  <2> QED BY <1>1, <1>3, <2>1 DEF PurgeInv, LockFits, PurgePositions
<1>9. LockFits' BY <1>1, <1>8 DEF LockFits, purgeVars
<1>10. SwitchFits' BY <1>1, <1>2 DEF PurgeInv, SwitchFits
<1>11. SoloFits' BY <1>1, <1>3, <1>8 DEF SoloFits, purgeVars
<1>12. PauseFits' BY <1>1 DEF PurgeInv, PauseFits, AppFits
<1> QED BY <1>1, <1>2, <1>4, <1>5, <1>6, <1>7, <1>9, <1>10, <1>11, <1>12 DEF PurgeInv, Budgeted

LEMMA CrashKeeps ==
    ASSUME PurgeInv, Crash
    PROVE  PurgeInv'
<1>1. /\ app' = "down" /\ used' = [used EXCEPT !.crashes = @ + 1]
      /\ memory' = {} /\ held' = {} /\ worker' = [j \in Jobs |-> NoWorker]
      /\ request' = [j \in Jobs |-> IF request[j] = "none" THEN "none" ELSE "answered"]
      /\ monitor' = "stopped" /\ op' = "free" /\ stopping' = "none" /\ restart' = FALSE
      /\ stranded' = FALSE
      /\ purge' = [k \in Keys |-> [purge[k] EXCEPT !.pc = "none"]] /\ owed' = FALSE
      /\ UNCHANGED <<row, queue, config, handled, gate, saved, condemned, overtaken>>
  BY DEF Crash
<1>2. Typed /\ used \in Budgets BY Spaces DEF PurgeInv, Budgeted
<1>3. NoWorker \in WorkerStates /\ NoWorker.pc = "none"
  BY DEF NoWorker, WorkerStates, WorkerPositions
<1>4. worker' \in [Jobs -> WorkerStates] /\ \A j \in Jobs : worker'[j].pc = "none"
  BY <1>1, <1>3
<1>5. /\ purge' \in [Keys -> PurgeRecords] /\ \A k \in Keys : purge'[k].pc = "none"
  BY <1>1, <1>2 DEF Typed, PurgeRecords, PurgePositions
<1>6. request' \in [Jobs -> {"none", "checked", "inserted", "answered"}] BY <1>1
<1>7. TypeOK' BY <1>1, <1>2, <1>4, <1>5, <1>6, Spaces DEF Typed
<1>8. used' \in Budgets BY <1>1, <1>2 DEF Budgets
<1>9. ASSUME NEW j \in Jobs PROVE JobFits(j)'
  <2>1. JobFits(j) BY DEF PurgeInv
  <2>2. Fresh(j)' BY <1>1, <1>4, <2>1 DEF JobFits, Fresh
  <2>3. Employed(j)' BY <1>1 DEF Employed, WorkerFits
  <2> QED BY <1>1, <2>1, <2>2, <2>3
        DEF JobFits, Unwalked, Walked, Grouped, Remembered, Removed, Running
<1>10. OneBackfillPerChat' BY <1>1, RowsKept DEF PurgeInv
<1>11. AppFits' BY <1>1, <1>4, <1>5 DEF AppFits
<1>12. LockFits' BY <1>5 DEF LockFits
<1>13. SwitchFits' BY <1>1 DEF PurgeInv, SwitchFits
<1>14. SoloFits' /\ PauseFits' BY <1>1 DEF SoloFits, PauseFits
<1> QED BY <1>7, <1>8, <1>9, <1>10, <1>11, <1>12, <1>13, <1>14 DEF PurgeInv, Budgeted
-----------------------------------------------------------------------------
(* Purges.                                                                 *)

\* A purge that moves is one of the keys; the others stay.
LEMMA PurgeMoves ==
    ASSUME PurgeInv, NEW k \in Keys, NEW r \in PurgeRecords, purge' = [purge EXCEPT ![k] = r]
    PROVE  /\ purge' \in [Keys -> PurgeRecords] /\ purge'[k] = r
           /\ \A l \in Keys \ {k} : purge'[l] = purge[l]
    BY Spaces, OneEntry DEF PurgeInv, Typed

LEMMA ClaimPurgeKeeps ==
    ASSUME PurgeInv, NEW k \in Keys, NEW filesOnly \in BOOLEAN, ClaimPurge(k, filesOnly)
    PROVE  PurgeInv'
<1> DEFINE r == [phase |-> IF Pending(k) THEN purge[k].phase ELSE "queued",
                 running |-> TRUE, filesOnly |-> filesOnly, pc |-> "claimed"]
<1>1. /\ app = "up" /\ used.claims < MaxPurges
      /\ purge' = [purge EXCEPT ![k] = r]
      /\ used' = [used EXCEPT !.claims = @ + 1]
      /\ UNCHANGED <<historyVars, engineVars, owed, condemned, overtaken, app>>
  BY DEF ClaimPurge
<1>2. Typed /\ used \in Budgets BY Spaces DEF PurgeInv, Budgeted
<1>3. r \in PurgeRecords /\ r.pc = "claimed"
  BY <1>2 DEF Typed, PurgeRecords, PurgePositions, Phases
<1> HIDE DEF r
<1>4. /\ purge' \in [Keys -> PurgeRecords] /\ purge'[k].pc = "claimed"
      /\ \A l \in Keys \ {k} : purge'[l] = purge[l]
  BY <1>1, <1>3, PurgeMoves
<1>5. /\ \A i \in Jobs : JobFits(i)'
      /\ OneBackfillPerChat'
  BY <1>1, JobsWait DEF historyVars
<1>6. used' \in Budgets /\ used'.claims = used.claims + 1 /\ used.claims \in Nat
  BY <1>1, <1>2 DEF Budgets
<1>7. TypeOK' BY <1>1, <1>2, <1>4, Spaces DEF Typed, historyVars, engineVars
<1>8. AppFits' BY <1>1 DEF AppFits
<1>9. LockFits' BY <1>1, <1>4 DEF PurgeInv, LockFits, engineVars
<1>10. SwitchFits' BY <1>1 DEF PurgeInv, SwitchFits, engineVars
<1>11. SoloFits'
  <2> SUFFICES ASSUME MaxPurges <= 1 PROVE SoloFits'
    BY DEF SoloFits
  <2>1. used.claims = 0 BY <1>1, <1>6, PurgeAssumption DEF PurgeAssumption
  <2>2. ~owed /\ \A l \in Keys : purge[l].pc = "none" BY <1>1, <2>1 DEF PurgeInv, SoloFits
  <2> QED BY <1>1, <1>4, <1>6, <2>2 DEF SoloFits
<1>12. PauseFits' BY <1>1 DEF PurgeInv, PauseFits, engineVars
<1> QED BY <1>5, <1>6, <1>7, <1>8, <1>9, <1>10, <1>11, <1>12 DEF PurgeInv, Budgeted

LEMMA LockPurgeKeeps ==
    ASSUME PurgeInv, NEW k \in Keys, LockPurge(k)
    PROVE  PurgeInv'
<1>1. /\ op = "free" /\ op' = "purge"
      /\ \/ app = "up" /\ purge[k].pc = "claimed"
         \/ app = "booting" /\ purge[k].pc = "none"
      /\ purge' = [purge EXCEPT ![k].pc = "locked", ![k].running = TRUE]
      /\ owed' = (owed \/ monitor = "running")
      /\ stranded' = (stranded \/ monitor = "running")
      /\ monitor' = IF monitor = "running" THEN "stopped" ELSE monitor
      /\ worker' = Disconnected(worker)
      /\ UNCHANGED <<row, memory, held, request, queue, config, handled, gate, saved, stopping,
                     restart, condemned, overtaken, app, used>>
  BY DEF LockPurge
<1>2. Typed /\ used \in Budgets BY Spaces DEF PurgeInv, Budgeted
<1>3. purge' = [purge EXCEPT ![k] = purge'[k]] BY <1>1, <1>2 DEF Typed
<1>4. purge'[k] \in PurgeRecords /\ purge'[k].pc = "locked"
  BY <1>1, <1>2 DEF Typed, PurgeRecords, PurgePositions
<1>5. purge' \in [Keys -> PurgeRecords] /\ \A l \in Keys \ {k} : purge'[l] = purge[l]
  BY <1>3, <1>4, PurgeMoves
<1>6. /\ worker' \in [Jobs -> WorkerStates] /\ \A i \in Jobs : worker'[i].pc = worker[i].pc
      /\ \A i \in Jobs : JobFits(i)'
      /\ OneBackfillPerChat'
  BY <1>1, JobsWait
<1>7. TypeOK' BY <1>1, <1>2, <1>5, <1>6, Spaces DEF Typed
<1>8. AppFits' BY <1>1, <1>4, <1>5, <1>6 DEF PurgeInv, AppFits
<1>9. LockFits' BY <1>1, <1>4, <1>5 DEF PurgeInv, LockFits
<1>10. SwitchFits' BY <1>1 DEF PurgeInv, SwitchFits
<1>11. SoloFits'
  <2> SUFFICES ASSUME MaxPurges <= 1 PROVE SoloFits'
    BY DEF SoloFits
  <2>1. CASE app = "up" /\ purge[k].pc = "claimed"
    <3>1. used.claims >= 1 /\ ~owed /\ \A l \in Keys : purge[l].pc # "none" => l = k
      BY <1>1, <2>1 DEF PurgeInv, SoloFits
    <3>2. owed' => ~saved.paused BY <1>1, <2>1, <3>1 DEF PurgeInv, PauseFits
    <3> QED BY <1>1, <1>4, <1>5, <3>1, <3>2 DEF SoloFits
  <2>2. CASE app = "booting" /\ purge[k].pc = "none"
    <3>1. ~owed' BY <1>1, <2>2 DEF PurgeInv, AppFits
    <3> QED BY <1>1, <2>2, <3>1 DEF SoloFits
  <2> QED BY <1>1, <2>1, <2>2
<1>12. PauseFits' BY <1>1 DEF PurgeInv, PauseFits
<1> QED BY <1>1, <1>2, <1>6, <1>7, <1>8, <1>9, <1>10, <1>11, <1>12 DEF PurgeInv, Budgeted

\* The end of a purge that holds monitorOp, done or not.
LEMMA EndedPurge ==
    ASSUME PurgeInv, NEW k \in Keys, purge[k].pc \in {"locked", "cleaning"},
           purge' = [purge EXCEPT ![k] = purge'[k]], purge'[k] \in PurgeRecords, purge'[k].pc = "none",
           op' \in {"resume", "free"}, app' = app \/ (app = "booting" /\ app' = "down"),
           used' \in Budgets, used'.claims = used.claims,
           UNCHANGED <<historyVars, gate, saved, monitor, stopping, restart, stranded, owed, condemned,
                       overtaken>>
    PROVE  PurgeInv'
<1>1. Typed BY Spaces DEF PurgeInv
<1>2. purge' \in [Keys -> PurgeRecords] /\ \A l \in Keys \ {k} : purge'[l] = purge[l]
  BY PurgeMoves
<1>3. /\ \A i \in Jobs : JobFits(i)'
      /\ OneBackfillPerChat'
  BY JobsWait DEF historyVars
<1>4. op = "purge" /\ \A l \in Keys \ {k} : purge[l].pc \notin {"locked", "cleaning"}
  BY DEF PurgeInv, LockFits
<1>5. TypeOK' BY <1>1, <1>2, Spaces DEF Typed, historyVars
<1>6. AppFits' BY <1>2 DEF PurgeInv, AppFits, historyVars
<1>7. LockFits' BY <1>2, <1>4 DEF LockFits
<1>8. SwitchFits' BY DEF PurgeInv, SwitchFits
<1>9. SoloFits'
  <2> SUFFICES ASSUME MaxPurges <= 1 PROVE SoloFits'
    BY DEF SoloFits
  <2>1. CASE app = "up"
    <3>1. \A l \in Keys : purge[l].pc # "none" => l = k
      BY <2>1 DEF PurgeInv, SoloFits
    <3>2. \A l \in Keys : purge'[l].pc = "none" BY <1>2, <3>1
    <3> QED BY <1>4, <2>1, <3>2 DEF PurgeInv, SoloFits
  <2>2. CASE app # "up" BY <2>2 DEF PurgeInv, SoloFits, AppFits
  <2> QED BY <2>1, <2>2
<1>10. PauseFits' BY <1>4 DEF PurgeInv, PauseFits
<1> QED BY <1>3, <1>5, <1>6, <1>7, <1>8, <1>9, <1>10 DEF PurgeInv, Budgeted

LEMMA CleanPurgeKeeps ==
    ASSUME PurgeInv, NEW k \in Keys, CleanPurge(k)
    PROVE  PurgeInv'
<1>1. Typed /\ used \in Budgets BY Spaces DEF PurgeInv, Budgeted
<1>2. purge' = [purge EXCEPT ![k].pc = "none", ![k].phase = "done", ![k].running = FALSE]
  BY DEF CleanPurge
<1>3. purge' = [purge EXCEPT ![k] = purge'[k]] BY <1>1, <1>2 DEF Typed
<1>4. purge'[k] \in PurgeRecords /\ purge'[k].pc = "none"
  BY <1>1, <1>2 DEF Typed, PurgeRecords, PurgePositions, Phases
<1> QED BY <1>1, <1>3, <1>4, EndedPurge DEF CleanPurge

LEMMA FailPurgeKeeps ==
    ASSUME PurgeInv, NEW k \in Keys, FailPurge(k)
    PROVE  PurgeInv'
<1>1. Typed /\ used \in Budgets BY Spaces DEF PurgeInv, Budgeted
<1>2. purge' = [purge EXCEPT ![k].pc = "none", ![k].running = FALSE]
  BY DEF FailPurge
<1>3. purge' = [purge EXCEPT ![k] = purge'[k]] BY <1>1, <1>2 DEF Typed
<1>4. purge'[k] \in PurgeRecords /\ purge'[k].pc = "none"
  BY <1>1, <1>2 DEF Typed, PurgeRecords, PurgePositions
<1>5. used' \in Budgets /\ used'.claims = used.claims BY <1>1 DEF FailPurge, Budgets
<1> QED BY <1>3, <1>4, <1>5, EndedPurge DEF FailPurge, OpAfterFailure

\* What a purge commits to remove is gone with its worker's hold on it.
LEMMA CommitPurgeKeeps ==
    ASSUME PurgeInv, NEW k \in Keys, CommitPurge(k)
    PROVE  PurgeInv'
<1> DEFINE gone == {j \in Jobs : PurgedJob(k, j)}
<1>1. /\ purge[k].pc = "locked"
      /\ UNCHANGED <<held, request, handled, engineVars, owed, app, used>>
  BY DEF CommitPurge
<1>2. Typed /\ used \in Budgets BY Spaces DEF PurgeInv, Budgeted
<1>3. /\ purge' = [purge EXCEPT ![k] = purge'[k]] /\ purge'[k] \in PurgeRecords
      /\ purge'[k].pc = "cleaning"
  <2>1. CASE purge[k].phase = "queued"
    <3>1. purge' = [purge EXCEPT ![k].pc = "cleaning", ![k].phase = "committed"]
      BY <2>1 DEF CommitPurge
    <3>2. purge' = [purge EXCEPT ![k] = purge'[k]] BY <1>2, <3>1 DEF Typed
    <3> QED BY <1>2, <3>1, <3>2 DEF Typed, PurgeRecords, PurgePositions, Phases
  <2>2. CASE purge[k].phase # "queued"
    <3>1. purge' = [purge EXCEPT ![k].pc = "cleaning"] BY <2>2 DEF CommitPurge
    <3>2. purge' = [purge EXCEPT ![k] = purge'[k]] BY <1>2, <3>1 DEF Typed
    <3> QED BY <1>2, <3>1, <3>2 DEF Typed, PurgeRecords, PurgePositions
  <2> QED BY <2>1, <2>2
<1>4. purge' \in [Keys -> PurgeRecords] /\ \A l \in Keys \ {k} : purge'[l] = purge[l]
  BY <1>3, PurgeMoves
<1>5. AppFits' /\ LockFits' /\ SwitchFits' /\ SoloFits' /\ PauseFits'
  <2>1. op = "purge" BY <1>1 DEF PurgeInv, LockFits
  <2>2. AppFits'
    <3> SUFFICES ASSUME app # "up" PROVE AppFits'
      BY <1>1 DEF AppFits
    <3>1. memory = {} /\ \A j \in Jobs : worker[j].pc = "none" BY DEF PurgeInv, AppFits
    <3>2. memory' = {} BY <3>1 DEF CommitPurge
    <3>3. worker' = worker \/ worker' = [j \in Jobs |->
             [worker[j] EXCEPT !.stop = @ \/ (j \in gone /\ worker[j].pc # "none")]]
      BY DEF CommitPurge
    <3>4. \A j \in Jobs : worker'[j].pc = "none"
      BY <1>2, <3>1, <3>3 DEF Typed, WorkerStates
    <3> QED BY <1>1, <1>3, <1>4, <3>2, <3>4 DEF PurgeInv, AppFits, engineVars
  <2>3. LockFits' BY <1>1, <1>3, <1>4, <2>1 DEF PurgeInv, LockFits, engineVars
  <2>4. SwitchFits' BY <1>1 DEF PurgeInv, SwitchFits, engineVars
  <2>5. SoloFits' BY <1>1, <1>3, <1>4, <2>1 DEF PurgeInv, SoloFits, engineVars
  <2>6. PauseFits' BY <1>1 DEF PurgeInv, PauseFits, engineVars
  <2> QED BY <2>2, <2>3, <2>4, <2>5, <2>6
<1>6. CASE purge[k].phase # "queued"
  <2>1. UNCHANGED <<row, memory, worker, queue, config, condemned, overtaken>>
    BY <1>6 DEF CommitPurge
  <2>2. TypeOK' BY <1>1, <1>2, <1>4, <2>1, Spaces DEF Typed, engineVars
  <2>3. (\A i \in Jobs : JobFits(i)') /\ OneBackfillPerChat' BY <1>1, <2>1, JobsWait
  <2> QED BY <1>1, <1>2, <1>5, <2>2, <2>3 DEF PurgeInv, Budgeted
<1>7. CASE purge[k].phase = "queued"
  <2>1. /\ row' = [j \in Jobs |-> IF j \in gone THEN NoRow ELSE row[j]]
        /\ memory' = memory \ gone
        /\ worker' = [j \in Jobs |->
              [worker[j] EXCEPT !.stop = @ \/ (j \in gone /\ worker[j].pc # "none")]]
        /\ queue' = PurgedQueue(k)
        /\ config' \subseteq config
        /\ condemned' = condemned \cup {j \in Jobs : Running(j) /\ GroupOf[j] \in PurgedGroups(k)}
        /\ overtaken' \subseteq overtaken \cup Jobs
    BY <1>7 DEF CommitPurge
  <2>2. \A j : j \in gone <=> j \in Jobs /\ PurgedJob(k, j) OBVIOUS
  <2> HIDE DEF gone
  <2>3. NoRow \in Rows /\ NoRow.state = "absent"
    BY HistoryAssumption DEF NoRow, Rows, States, HistoryAssumption
  <2>4. /\ row' \in [Jobs -> Rows]
        /\ \A j \in gone : row'[j].state = "absent"
        /\ \A j \in Jobs \ gone : row'[j] = row[j]
    BY <1>2, <2>1, <2>2, <2>3 DEF Typed
  <2>5. /\ worker' \in [Jobs -> WorkerStates]
        /\ \A j \in Jobs : /\ worker'[j].pc = worker[j].pc /\ worker'[j].page = worker[j].page
                           /\ worker'[j].failed = worker[j].failed
    BY <1>2, <2>1 DEF Typed, WorkerStates
  <2>6. /\ queue' \subseteq queue
        /\ \A j \in Jobs, m \in 1..Messages : GroupOf[j] \in PurgedGroups(k) => <<j, m>> \notin queue'
    BY <2>1 DEF PurgedQueue
  <2>7. TypeOK'
    <3>1. memory' \subseteq Jobs /\ condemned' \subseteq Jobs /\ overtaken' \subseteq Jobs
          /\ config' \subseteq Groups /\ queue' \subseteq Jobs \X (1..Messages)
      BY <1>2, <2>1, <2>6 DEF Typed
    <3> QED BY <1>1, <1>2, <1>4, <2>4, <2>5, <3>1, Spaces DEF Typed, engineVars
  <2>8. ASSUME NEW j \in Jobs PROVE JobFits(j)'
    <3>1. JobFits(j) BY DEF PurgeInv
    <3>2. Running(j) /\ GroupOf[j] \in PurgedGroups(k) => j \in gone
      BY <2>2, <3>1 DEF PurgedJob, PurgedGroups, JobFits, Grouped, Running
    <3>3. CASE j \in gone
      <4>1. row'[j].state = "absent" /\ j \notin memory' /\ Running(j)
        BY <2>1, <2>2, <2>4, <3>3 DEF PurgedJob
      <4>2. Fresh(j)' BY <1>1, <3>1, <4>1 DEF JobFits, Fresh, Running
      <4>3. Employed(j)' BY <4>1 DEF Employed, WorkerFits
      <4>4. Removed(j)'
        <5>1. CASE j \in condemned BY <2>6, <3>1, <4>1, <5>1 DEF JobFits, Removed
        <5>2. CASE j \notin condemned
          <6>1. j \in condemned' => GroupOf[j] \in PurgedGroups(k) BY <2>1, <5>2
          <6> QED BY <2>6, <4>1, <6>1 DEF Removed
        <5> QED BY <5>1, <5>2
      <4> QED BY <4>1, <4>2, <4>3, <4>4 DEF JobFits, Unwalked, Walked, Grouped, Remembered, Running
    <3>4. CASE j \notin gone
      <4>1. JobSame(j)
        <5>1. j \in condemned' <=> j \in condemned BY <2>1, <3>2, <3>4
        <5>2. j \in memory' <=> j \in memory BY <2>1, <3>4
        <5> QED BY <1>1, <2>4, <2>5, <2>6, <3>4, <5>1, <5>2 DEF JobSame
      <4> QED BY <3>1, <4>1, JobKept
    <3> QED BY <3>3, <3>4
  <2>9. OneBackfillPerChat'
    <3>1. \A j \in Jobs : row'[j].state = "running" => row'[j] = row[j] BY <2>4
    <3> QED BY <3>1 DEF PurgeInv, OneBackfillPerChat, Running
  <2> QED BY <1>1, <1>2, <1>5, <2>7, <2>8, <2>9 DEF PurgeInv, Budgeted
<1> QED BY <1>6, <1>7
-----------------------------------------------------------------------------
(* The invariant.                                                          *)

LEMMA InitPurgeInv == Init => PurgeInv
<1> SUFFICES ASSUME Init PROVE PurgeInv
  OBVIOUS
<1>1. Typed
  <2>1. NoRow \in Rows BY HistoryAssumption DEF NoRow, Rows, States, HistoryAssumption
  <2>2. NoWorker \in WorkerStates BY DEF NoWorker, WorkerStates, WorkerPositions
  <2>3. NoPurge \in PurgeRecords BY DEF NoPurge, PurgeRecords, Phases, PurgePositions
  <2> QED BY <2>1, <2>2, <2>3 DEF Init, Typed
<1>2. Budgeted BY DEF Init, Budgeted, Budgets
<1>3. \A j \in Jobs : row[j].state = "absent" /\ worker[j].pc = "none" /\ handled[j] = {}
  BY DEF Init, NoRow, NoWorker
<1>4. \A j \in Jobs : JobFits(j)
  BY <1>3 DEF Init, JobFits, Fresh, Unwalked, Walked, Grouped, Remembered, Employed, WorkerFits,
              Removed, Running
<1>5. OneBackfillPerChat BY <1>3 DEF OneBackfillPerChat, Running
<1>6. \A k \in Keys : purge[k].pc = "none" BY DEF Init, NoPurge
<1>7. AppFits /\ LockFits /\ SwitchFits /\ SoloFits /\ PauseFits
  BY <1>6 DEF Init, AppFits, LockFits, SwitchFits, SoloFits, PauseFits
<1> QED BY <1>1, <1>2, <1>4, <1>5, <1>7, Spaces DEF PurgeInv

LEMMA PurgeInvKept == PurgeInv /\ [Next]_vars => PurgeInv'
<1> SUFFICES ASSUME PurgeInv, [Next]_vars PROVE PurgeInv'
  OBVIOUS
<1>1. CASE UNCHANGED vars
  <2>1. Typed /\ used \in Budgets BY Spaces DEF PurgeInv, Budgeted
  <2>2. TypeOK' BY <1>1, <2>1, Spaces DEF Typed, vars, historyVars, engineVars, purgeVars
  <2>3. (\A i \in Jobs : JobFits(i)') /\ OneBackfillPerChat'
    BY <1>1, JobsWait DEF vars, historyVars, purgeVars
  <2>4. AppFits' BY <1>1 DEF PurgeInv, AppFits, vars, historyVars, engineVars, purgeVars
  <2>5. LockFits' BY <1>1 DEF PurgeInv, LockFits, vars, engineVars, purgeVars
  <2>6. SwitchFits' BY <1>1 DEF PurgeInv, SwitchFits, vars, engineVars, purgeVars
  <2>7. SoloFits' BY <1>1 DEF PurgeInv, SoloFits, vars, engineVars, purgeVars
  <2>8. PauseFits' BY <1>1 DEF PurgeInv, PauseFits, vars, engineVars, purgeVars
  <2> QED BY <1>1, <2>1, <2>2, <2>3, <2>4, <2>5, <2>6, <2>7, <2>8 DEF PurgeInv, Budgeted, vars
<1>2. ASSUME NEW j \in Jobs, WorkerStep(j) \/ HistoryFails(j) PROVE PurgeInv'
  BY <1>2, OpenHistoryKeeps, StopWorkingKeeps, InitializeHistoryKeeps, ReadPageKeeps,
     CopyRefusedKeeps, CheckpointKeeps, FinishHistoryKeeps, ReleaseWorkerKeeps, HistoryFailsKeeps
     DEF WorkerStep
<1>3. CASE RequestStep
  BY <1>3, CheckRequestKeeps, InsertJobKeeps, StartJobKeeps, CancelJobKeeps DEF RequestStep
<1>4. CASE DeleteJob \/ ClearJobs BY <1>4, DeleteJobsKeeps DEF DeleteJob, ClearJobs
<1>5. CASE EngineStep
  BY <1>5, BeginStopKeeps, EndStopKeeps, AnswerStopKeeps, BeginStartKeeps, StartEngineKeeps,
     StartFailsKeeps, ResumeHistoryKeeps, MonitorFailsKeeps, RestartMonitorKeeps DEF EngineStep
<1>6. CASE Crash \/ Boot \/ Serve BY <1>6, CrashKeeps, BootKeeps, ServeKeeps
<1>7. CASE ResumeEngine BY <1>7, ResumeEngineKeeps
<1>8. ASSUME NEW k \in Keys, PurgeStep(k) \/ FailPurge(k) PROVE PurgeInv'
  BY <1>8, LockPurgeKeeps, CommitPurgeKeeps, CleanPurgeKeeps, FailPurgeKeeps DEF PurgeStep
<1>9. ASSUME NEW k \in Keys, NEW filesOnly \in BOOLEAN, ClaimPurge(k, filesOnly) PROVE PurgeInv'
  BY <1>9, ClaimPurgeKeeps
<1> QED BY <1>1, <1>2, <1>3, <1>4, <1>5, <1>6, <1>7, <1>8, <1>9 DEF Next, HistoryNext

THEOREM PurgeInvariant == Spec => []PurgeInv
<1> QED BY InitPurgeInv, PurgeInvKept, PTL DEF Spec
-----------------------------------------------------------------------------
\* Rows, workers, purges and the engine's flags keep the values the code stores.
THEOREM PurgeTypeCorrect == Spec => []TypeOK
<1>1. PurgeInv => TypeOK BY DEF PurgeInv
<1> QED BY <1>1, PurgeInvariant, PTL

\* What a purge removed stays removed: a backfill of a purged chat never comes back or queues
\* a message, however late its worker notices (commitPurge, checkpointHistory).
THEOREM PurgedStaysGone == Spec => []PurgedJobsAreGone
<1>1. PurgeInv => PurgedJobsAreGone
  BY DEF PurgeInv, PurgedJobsAreGone, JobFits, Removed, TypeOK
<1> QED BY <1>1, PurgeInvariant, PTL

\* Through pauses, crashes and errors a walk has handled exactly the messages at and above its
\* durable cursor, and a chat has one backfill at a time (checkpointHistory, insertHistory).
THEOREM WalksStayCovered == Spec => [](CursorCoversHandled /\ OneBackfillPerChat)
<1>1. PurgeInv => CursorCoversHandled
  BY DEF PurgeInv, CursorCoversHandled, JobFits, Walked
<1>2. PurgeInv => OneBackfillPerChat BY DEF PurgeInv
<1> QED BY <1>1, <1>2, PurgeInvariant, PTL

\* An operator's stop that was answered survives crashes, scheduled restarts and one purge;
\* with this a backfill that was stopped stays so (handleMonitorStop, monitorShouldRestart).
\* The restart that one purge owes can be left to a second one, hence the bound.
THEOREM BackfillsStaySound ==
    ASSUME MaxPurges <= 1
    PROVE  Spec => []BackfillsAreSound
<1>1. PurgeInv => BackfillsAreSound
  <2> SUFFICES ASSUME PurgeInv PROVE BackfillsAreSound
    OBVIOUS
  <2>1. CursorCoversHandled BY DEF PurgeInv, CursorCoversHandled, JobFits, Walked
  <2>2. OneBackfillPerChat BY DEF PurgeInv
  <2>3. AnsweredStopHolds BY DEF PurgeInv, PauseFits, AnsweredStopHolds
  <2> QED BY <2>1, <2>2, <2>3 DEF BackfillsAreSound
<1> QED BY <1>1, PurgeInvariant, PTL
=============================================================================
