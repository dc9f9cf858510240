--------------------------- MODULE WorkQueue_proofs ---------------------------
(***************************************************************************)
(* Proofs about WorkQueue, for every set of keys, workers, accounts and    *)
(* messages and every bound: its types; that claims are exclusive, never   *)
(* orphaned and acknowledge only what was stored; that work is owed until  *)
(* it is done, and transfers are wanted; and, of WorkQueueOrder, that a    *)
(* row describes the latest observation of its message.                    *)
(***************************************************************************)
EXTENDS WorkQueueOrder, TLAPS

-----------------------------------------------------------------------------
(* The shapes an action gives a row or a worker are well typed.            *)

\* A key without a row is a well-typed row.
LEMMA NoRowTyped == NoRow \in TypedRow
  BY QueueAssumption DEF QueueAssumption, NoRow, TypedRow, Row, Statuses, Origins

\* The row enqueueWork inserts.
LEMMA InsertedTyped ==
    ASSUME NEW i \in 0..MaxId, i # 0, NEW v \in Nat, NEW p \in Nat, NEW d \in Identities,
           NEW a \in Accounts, NEW o \in Origins, NEW t \in BOOLEAN
    PROVE  [NoRow EXCEPT !.id = i, !.status = "pending", !.gen = 1, !.version = v, !.pts = p,
                         !.identity = d, !.account = a, !.origin = o, !.ttl = t, !.body = TRUE]
             \in TypedRow
  <1>1. ASSUME NEW r \in TypedRow
        PROVE  [r EXCEPT !.id = i, !.status = "pending", !.gen = 1, !.version = v, !.pts = p,
                         !.identity = d, !.account = a, !.origin = o, !.ttl = t, !.body = TRUE]
                 \in TypedRow
    BY DEF TypedRow, Row, Statuses
  <1> QED
    BY <1>1, NoRowTyped

\* The row enqueueWork updates.
LEMMA UpdatedTyped ==
    ASSUME NEW r \in TypedRow, r.id # 0, NEW v \in Nat, NEW p \in Nat, NEW d \in Identities,
           NEW a \in Accounts, NEW o \in Origins, NEW t \in BOOLEAN, NEW g \in Nat,
           NEW s \in Statuses
    PROVE  [r EXCEPT !.account = a, !.version = v, !.pts = p, !.identity = d, !.body = TRUE,
                     !.ttl = t, !.gen = g, !.attempts = 0, !.backoff = FALSE,
                     !.refresh = FALSE, !.origin = o, !.status = s] \in TypedRow
  BY DEF TypedRow, Row

\* A row a worker claims.
LEMMA ClaimedTyped ==
    ASSUME NEW r \in TypedRow, r.id # 0, NEW g \in Nat, NEW n \in Nat
    PROVE  [r EXCEPT !.status = "processing", !.claim = g, !.attempts = n] \in TypedRow
  BY DEF TypedRow, Row, Statuses

\* A row a worker finishes.
LEMMA FinishedTyped ==
    ASSUME NEW r \in TypedRow, r.id # 0, NEW s \in Statuses, NEW b \in BOOLEAN,
           NEW c \in BOOLEAN, NEW n \in Nat
    PROVE  /\ [r EXCEPT !.status = s, !.backoff = b, !.body = c, !.attempts = n, !.claim = 0]
                \in TypedRow
           /\ [r EXCEPT !.status = "pending", !.backoff = FALSE, !.claim = 0] \in TypedRow
  BY DEF TypedRow, Row, Statuses

\* A row whose message a worker refreshes.
LEMMA RefreshedTyped ==
    ASSUME NEW r \in TypedRow, NEW g \in Nat, NEW n \in Nat, NEW v \in Nat, NEW d \in Identities
    PROVE  [r EXCEPT !.gen = g, !.attempts = n, !.version = v, !.identity = d, !.body = TRUE,
                     !.refresh = FALSE] \in TypedRow
  BY DEF TypedRow, Row

\* The rows queue operations, timers and Recover leave behind.
LEMMA OperatedTyped ==
    ASSUME NEW r \in TypedRow, r.id # 0, NEW b \in BOOLEAN, NEW n \in Nat
    PROVE  /\ [r EXCEPT !.paused = b] \in TypedRow
           /\ [r EXCEPT !.backoff = FALSE] \in TypedRow
           /\ [r EXCEPT !.pts = n] \in TypedRow
           /\ [r EXCEPT !.status = "pending", !.claim = 0] \in TypedRow
           /\ CancelledRow(r) \in TypedRow
           /\ RetriedRow(r) \in TypedRow
  <1>1. /\ [r EXCEPT !.paused = b] \in TypedRow
        /\ [r EXCEPT !.backoff = FALSE] \in TypedRow
        /\ [r EXCEPT !.pts = n] \in TypedRow
        /\ [r EXCEPT !.status = "pending", !.claim = 0] \in TypedRow
    BY DEF TypedRow, Row, Statuses
  <1>2. CancelledRow(r) \in TypedRow
    BY DEF CancelledRow, TypedRow, Row, Statuses
  <1>3. RetriedRow(r) \in TypedRow
    BY DEF RetriedRow, TypedRow, Row, Statuses
  <1> QED
    BY <1>1, <1>2, <1>3

\* The row ReassignGroup leaves behind.
LEMMA ReassignedTyped ==
    ASSUME NEW r \in TypedRow, r.id # 0, NEW a \in Accounts, NEW n \in Nat, NEW g \in Nat
    PROVE  [r EXCEPT !.account = a, !.refresh = TRUE, !.pts = n, !.gen = g, !.claim = 0,
                     !.status = "pending", !.attempts = 0, !.backoff = FALSE] \in TypedRow
  BY DEF TypedRow, Row, Statuses

\* An idle worker is well typed.
LEMMA IdleTyped == IdleWorker \in TypedWorker
  BY QueueAssumption DEF QueueAssumption, IdleWorker, TypedWorker, WorkerState, Origins, Phases, Results

\* A worker between two polls.
LEMMA PolledTyped ==
    ASSUME NEW s \in TypedWorker, NEW b \in BOOLEAN
    PROVE  [s EXCEPT !.phase = "polled", !.manual = b] \in TypedWorker
  BY DEF TypedWorker, WorkerState, Phases

\* A worker with a claim.
LEMMA ClaimingTyped ==
    ASSUME NEW k \in Keys, NEW i \in 0..MaxId, i \in Ids, NEW g \in Nat, NEW n \in Nat,
           NEW a \in Accounts \cup {None}, NEW o \in Origins, NEW f \in BOOLEAN
    PROVE  [IdleWorker EXCEPT !.phase = "claimed", !.key = k, !.id = i, !.gen = g, !.attempts = n,
                              !.account = a, !.origin = o, !.force = f] \in TypedWorker
  <1>1. ASSUME NEW s \in TypedWorker
        PROVE  [s EXCEPT !.phase = "claimed", !.key = k, !.id = i, !.gen = g, !.attempts = n,
                         !.account = a, !.origin = o, !.force = f] \in TypedWorker
    BY DEF TypedWorker, WorkerState, Phases
  <1> QED
    BY <1>1, IdleTyped

\* A worker that moves on with its claim.
LEMMA BusyTyped ==
    ASSUME NEW s \in TypedWorker, s.phase \notin {"idle", "polled"},
           NEW p \in Phases, NEW x \in Results, NEW b \in BOOLEAN
    PROVE  /\ [s EXCEPT !.phase = p] \in TypedWorker
           /\ [s EXCEPT !.phase = p, !.cancelled = b] \in TypedWorker
           /\ [s EXCEPT !.phase = p, !.result = x] \in TypedWorker
           /\ [s EXCEPT !.phase = p, !.result = x, !.cancelled = b] \in TypedWorker
           /\ [s EXCEPT !.cancelled = b] \in TypedWorker
  BY DEF TypedWorker, WorkerState

\* A worker that left the active map.
LEMMA UnregisteredTyped ==
    ASSUME NEW k \in Keys, NEW i \in 0..MaxId, i \in Ids, NEW g \in Nat, NEW n \in Nat, NEW c \in BOOLEAN,
           NEW x \in Results
    PROVE  [IdleWorker EXCEPT !.phase = "finishing", !.key = k, !.id = i, !.gen = g,
                              !.attempts = n, !.wasCancelled = c, !.result = x] \in TypedWorker
  <1>1. ASSUME NEW s \in TypedWorker
        PROVE  [s EXCEPT !.phase = "finishing", !.key = k, !.id = i, !.gen = g,
                         !.attempts = n, !.wasCancelled = c, !.result = x] \in TypedWorker
    BY DEF TypedWorker, WorkerState, Phases
  <1> QED
    BY <1>1, IdleTyped

-----------------------------------------------------------------------------
(* Type correctness.                                                       *)

\* What TypeOK says of a single row and a single worker.
LEMMA Typed ==
    ASSUME TypeOK
    PROVE  /\ \A k \in Keys :
                /\ rows[k] \in TypedRow
                /\ rows[k].id \in 0..MaxId
                /\ rows[k].id # 0 => rows[k].id \in Ids
                /\ {rows[k].gen, rows[k].claim, rows[k].version, rows[k].pts, rows[k].attempts} \subseteq Nat
                /\ rows[k].account \in Accounts \cup {None}
                /\ rows[k].origin \in Origins
                /\ {rows[k].ttl, rows[k].body, rows[k].paused, rows[k].refresh, rows[k].backoff}
                     \subseteq BOOLEAN
                /\ rows[k].status \in Statuses
                /\ rows[k].status # "completed" => rows[k].id # 0
           /\ \A w \in Workers :
                /\ worker[w] \in TypedWorker
                /\ worker[w].phase \in Phases
                /\ worker[w].result \in Results
                /\ {worker[w].gen, worker[w].attempts} \subseteq Nat
                /\ worker[w].id \in 0..MaxId
                /\ worker[w].account \in Accounts \cup {None}
                /\ {worker[w].force, worker[w].manual, worker[w].cancelled, worker[w].wasCancelled}
                     \subseteq BOOLEAN
                /\ worker[w].phase \notin {"idle", "polled"} =>
                     worker[w].key \in Keys /\ worker[w].id \in Ids
  <1> USE DEF TypeOK
  <1>1. ASSUME NEW k \in Keys
        PROVE  /\ rows[k] \in TypedRow
               /\ rows[k].id \in 0..MaxId
               /\ rows[k].id # 0 => rows[k].id \in Ids
               /\ {rows[k].gen, rows[k].claim, rows[k].version, rows[k].pts, rows[k].attempts} \subseteq Nat
               /\ rows[k].account \in Accounts \cup {None}
               /\ rows[k].origin \in Origins
               /\ {rows[k].ttl, rows[k].body, rows[k].paused, rows[k].refresh, rows[k].backoff}
                    \subseteq BOOLEAN
               /\ rows[k].status \in Statuses
               /\ rows[k].status # "completed" => rows[k].id # 0
    <2>1. rows[k] \in TypedRow
      OBVIOUS
    <2>2. ASSUME NEW r \in TypedRow
          PROVE  /\ r.id \in 0..MaxId
                 /\ r.id # 0 => r.id \in Ids
                 /\ {r.gen, r.claim, r.version, r.pts, r.attempts} \subseteq Nat
                 /\ r.account \in Accounts \cup {None}
                 /\ r.origin \in Origins
                 /\ {r.ttl, r.body, r.paused, r.refresh, r.backoff} \subseteq BOOLEAN
                 /\ r.status \in Statuses
                 /\ r.status # "completed" => r.id # 0
      BY DEF TypedRow, Row, Ids
    <2> QED
      BY <2>1, <2>2
  <1>2. ASSUME NEW w \in Workers
        PROVE  worker[w] \in TypedWorker
    OBVIOUS
  <1>3. ASSUME NEW s \in TypedWorker
        PROVE  /\ s.phase \in Phases
               /\ s.result \in Results
               /\ {s.gen, s.attempts} \subseteq Nat
               /\ s.id \in 0..MaxId
               /\ s.account \in Accounts \cup {None}
               /\ {s.force, s.manual, s.cancelled, s.wasCancelled} \subseteq BOOLEAN
               /\ s.phase \notin {"idle", "polled"} => s.key \in Keys /\ s.id \in Ids
    BY DEF TypedWorker, WorkerState
  <1> QED
    BY <1>1, <1>2, <1>3

\* The initial state is well typed.
LEMMA InitTypeOK == Init => TypeOK
  <1> SUFFICES ASSUME Init PROVE TypeOK
    OBVIOUS
  <1>1. MaxId \in Nat
    BY QueueAssumption DEF QueueAssumption
  <1>2. nextId \in 1..(MaxId + 1)
    BY <1>1 DEF Init
  <1>3. rows \in [Keys -> TypedRow] /\ worker \in [Workers -> TypedWorker]
    BY NoRowTyped, IdleTyped DEF Init
  <1> QED
    BY <1>2, <1>3 DEF Init, TypeOK

\* What Finish makes of the row it owns: a status that is not processing.
LEMMA FinishedRowTyped ==
    ASSUME TypeOK, NEW w \in Workers, worker[w].key \in Keys, worker[w].id \in Ids, HoldsClaim(w)
    PROVE  /\ FinishedRow(rows[worker[w].key], w) \in TypedRow
           /\ FinalStatus(w) \in {"pending", "completed", "skipped", "failed"}
  <1> DEFINE r == rows[worker[w].key]
             n == IF worker[w].wasCancelled \/ Flooded(w)
                  THEN IF r.attempts = 0 THEN 0 ELSE r.attempts - 1
                  ELSE r.attempts
             b == r.body /\ FinalStatus(w) \notin {"completed", "skipped"}
  <1>1. r \in TypedRow /\ r.id # 0 /\ r.attempts \in Nat /\ r.body \in BOOLEAN
    BY Typed DEF HoldsClaim, Ids
  <1>2. n \in Nat
    BY <1>1
  <1>3. FinalStatus(w) \in {"pending", "completed", "skipped", "failed"}
    BY DEF FinalStatus
  <1>4. Retried(w) \in BOOLEAN /\ b \in BOOLEAN
    BY DEF Retried
  <1>5. FinalStatus(w) \in Statuses
    BY <1>3 DEF Statuses
  <1>6. /\ [r EXCEPT !.status = FinalStatus(w), !.backoff = Retried(w), !.body = b, !.attempts = n,
                     !.claim = 0] \in TypedRow
        /\ [r EXCEPT !.status = "pending", !.backoff = FALSE, !.claim = 0] \in TypedRow
    BY <1>1, <1>2, <1>4, <1>5, FinishedTyped
  <1>7. FinishedRow(r, w) \in TypedRow
    BY <1>6 DEF FinishedRow
  <1> QED
    BY <1>3, <1>7

\* Every step of a worker keeps the state well typed.
LEMMA WorkerTypeOK == ASSUME TypeOK, NEW w \in Workers, WorkerStep(w) PROVE TypeOK'
  <1> USE DEF queueVars, runVars, ghostVars
  <1>t. /\ rows \in [Keys -> TypedRow]
        /\ worker \in [Workers -> TypedWorker]
        /\ observing \in BOOLEAN
    BY DEF TypeOK
  <1>1. CASE Poll(w)
    <2>1. [worker[w] EXCEPT !.phase = "polled", !.manual = ~observing] \in TypedWorker
      BY <1>t, PolledTyped, Typed
    <2>2. worker' \in [Workers -> TypedWorker]
      BY <1>1, <1>t, <2>1 DEF Poll
    <2> QED
      BY <1>1, <2>2 DEF Poll, TypeOK
  <1>2. CASE Claim(w)
    <2>1. PICK k \in Keys :
            /\ FirstEligible(k, worker[w].manual)
            /\ ClaimRow(k)
            /\ worker' = [worker EXCEPT ![w] =
                 [IdleWorker EXCEPT !.phase = "claimed", !.key = k, !.id = rows[k].id,
                                    !.gen = rows[k].gen, !.attempts = rows[k].attempts + 1,
                                    !.account = rows[k].account,
                                    !.origin = rows[k].origin, !.force = rows[k].refresh]]
      BY <1>2 DEF Claim
    <2>2. rows[k].id # 0 /\ rows[k].attempts + 1 \in Nat
      BY <2>1, Typed DEF FirstEligible, Eligible
    <2>3. [rows[k] EXCEPT !.status = "processing", !.claim = rows[k].gen,
                          !.attempts = rows[k].attempts + 1] \in TypedRow
      BY <2>2, ClaimedTyped, Typed
    <2>4. rows' \in [Keys -> TypedRow]
      BY <1>t, <2>1, <2>3 DEF ClaimRow
    <2>5. [IdleWorker EXCEPT !.phase = "claimed", !.key = k, !.id = rows[k].id,
                             !.gen = rows[k].gen, !.attempts = rows[k].attempts + 1,
                             !.account = rows[k].account,
                             !.origin = rows[k].origin, !.force = rows[k].refresh] \in TypedWorker
      <3>1. /\ k \in Keys /\ rows[k].id \in 0..MaxId /\ rows[k].id \in Ids /\ rows[k].gen \in Nat
            /\ rows[k].attempts + 1 \in Nat
            /\ rows[k].account \in Accounts \cup {None} /\ rows[k].origin \in Origins
            /\ rows[k].refresh \in BOOLEAN
        BY <2>2, Typed
      <3> QED
        BY ONLY <3>1, ClaimingTyped, ZenonT(30)
    <2>6. worker' \in [Workers -> TypedWorker]
      BY <1>t, <2>1, <2>5
    <2> QED
      BY <1>2, <2>4, <2>6 DEF Claim, TypeOK
  <1>3. CASE ClaimNothing(w)
    <2>1. worker' \in [Workers -> TypedWorker]
      BY <1>3, <1>t, IdleTyped DEF ClaimNothing
    <2> QED
      BY <1>3, <2>1 DEF ClaimNothing, TypeOK
  <1>4. CASE ClaimLost(w)
    <2>1. PICK k \in Keys : FirstEligible(k, worker[w].manual) /\ ClaimRow(k)
      BY <1>4 DEF ClaimLost
    <2>2. rows[k].id # 0 /\ rows[k].attempts + 1 \in Nat
      BY <2>1, Typed DEF FirstEligible, Eligible
    <2>3. [rows[k] EXCEPT !.status = "processing", !.claim = rows[k].gen,
                          !.attempts = rows[k].attempts + 1] \in TypedRow
      BY <2>2, ClaimedTyped, Typed
    <2>4. rows' \in [Keys -> TypedRow]
      BY <1>t, <2>1, <2>3 DEF ClaimRow
    <2>5. worker' \in [Workers -> TypedWorker]
      BY <1>4, <1>t, IdleTyped DEF ClaimLost
    <2> QED
      BY <1>4, <2>4, <2>5 DEF ClaimLost, TypeOK
  <1>5. CASE Register(w)
    <2>1. \A b \in BOOLEAN : [worker[w] EXCEPT !.phase = "registered", !.cancelled = b] \in TypedWorker
      BY <1>5, BusyTyped, Typed DEF Register, Phases
    <2>2. PICK b \in BOOLEAN :
            worker' = [worker EXCEPT ![w] = [worker[w] EXCEPT !.phase = "registered", !.cancelled = b]]
      BY <1>5, Typed DEF Register
    <2>3. worker' \in [Workers -> TypedWorker]
      BY <1>t, <2>1, <2>2
    <2>4. active' \in [Ids -> Workers \cup {None}]
      BY <1>5, Typed DEF Register, TypeOK
    <2> QED
      BY <1>5, <2>3, <2>4 DEF Register, TypeOK
  <1>6. CASE CheckCurrent(w)
    <2>1. /\ [worker[w] EXCEPT !.phase = "ending", !.result = "error"] \in TypedWorker
          /\ [worker[w] EXCEPT !.phase = "checked"] \in TypedWorker
          /\ [worker[w] EXCEPT !.phase = "ending", !.result = "error", !.cancelled = TRUE] \in TypedWorker
      BY <1>6, BusyTyped, Typed DEF CheckCurrent, Phases, Results
    <2>2. worker' \in [Workers -> TypedWorker]
      BY <1>6, <1>t, <2>1 DEF CheckCurrent
    <2> QED
      BY <1>6, <2>2 DEF CheckCurrent, TypeOK
  <1>7. CASE StartTransfer(w)
    <2>1. [worker[w] EXCEPT !.phase = "transfer"] \in TypedWorker
      BY <1>7, BusyTyped, Typed DEF StartTransfer, Phases
    <2>2. worker' \in [Workers -> TypedWorker]
      BY <1>7, <1>t, <2>1 DEF StartTransfer
    <2> QED
      BY <1>7, <2>2 DEF StartTransfer, TypeOK
  <1>8. ASSUME NEW res \in {"ok", "error", "flood", "filtered"},
               worker[w].phase \notin {"idle", "polled"}, EndAttempt(w, res)
        PROVE  /\ worker' \in [Workers -> TypedWorker]
               /\ floods' \in Nat
               /\ gated' \subseteq Accounts \cup {None}
    <2>1. [worker[w] EXCEPT !.phase = "ending", !.result = res] \in TypedWorker
      BY <1>8, BusyTyped, Typed DEF Phases, Results
    <2>2. gated' \subseteq Accounts \cup {None}
      BY <1>8, Typed DEF EndAttempt, TypeOK
    <2> QED
      BY <1>8, <1>t, <2>1, <2>2 DEF EndAttempt, TypeOK
  <1>9. ASSUME NEW res \in {"ok", "error", "flood", "filtered"}, RefreshFailed(w, res) PROVE TypeOK'
    <2>1. /\ worker' \in [Workers -> TypedWorker]
          /\ floods' \in Nat
          /\ gated' \subseteq Accounts \cup {None}
      BY <1>8, <1>9 DEF RefreshFailed
    <2> QED
      BY <1>9, <2>1 DEF RefreshFailed, TypeOK
  <1>10. ASSUME NEW res \in {"ok", "error", "flood", "filtered"}, EndTransfer(w, res) PROVE TypeOK'
    <2>1. /\ worker' \in [Workers -> TypedWorker]
          /\ floods' \in Nat
          /\ gated' \subseteq Accounts \cup {None}
      BY <1>8, <1>10 DEF EndTransfer
    <2>2. stored' \subseteq Ids \X Nat
      BY <1>10, Typed DEF EndTransfer, TypeOK
    <2> QED
      BY <1>10, <2>1, <2>2 DEF EndTransfer, TypeOK
  <1>11. ASSUME NEW m \in Messages, Refresh(w, m.version, m.identity) PROVE TypeOK'
    <2> DEFINE k == worker[w].key
               other == m.identity # rows[k].identity
               fresh == [rows[k] EXCEPT
                           !.gen = IF other THEN rows[k].gen + 1 ELSE rows[k].gen,
                           !.attempts = IF other THEN 0 ELSE rows[k].attempts,
                           !.version = Larger(rows[k].version, m.version),
                           !.identity = m.identity, !.body = TRUE, !.refresh = FALSE]
    <2>1. /\ k \in Keys
          /\ m.version \in Nat
          /\ m.identity \in Identities
          /\ worker[w].phase \notin {"idle", "polled"}
      BY <1>11, Typed, QueueAssumption DEF Refresh, QueueAssumption
    <2>2. /\ (IF other THEN rows[k].gen + 1 ELSE rows[k].gen) \in Nat
          /\ (IF other THEN 0 ELSE rows[k].attempts) \in Nat
          /\ Larger(rows[k].version, m.version) \in Nat
      BY <2>1, Typed DEF Larger
    <2>3. fresh \in TypedRow
      <3>1. rows[k] \in TypedRow
        BY <2>1, Typed
      <3> QED
        BY ONLY <2>1, <2>2, <3>1, RefreshedTyped
    <2>4. rows' = rows \/ rows' = [rows EXCEPT ![k] = fresh]
      BY <1>11 DEF Refresh
    <2>5. rows' \in [Keys -> TypedRow]
      BY <1>t, <2>1, <2>3, <2>4
    <2>6. /\ [worker[w] EXCEPT !.phase = "transfer"] \in TypedWorker
          /\ [worker[w] EXCEPT !.phase = "ending", !.result = "error", !.cancelled = TRUE] \in TypedWorker
      BY <2>1, BusyTyped, Typed DEF Phases, Results
    <2>7. worker' \in [Workers -> TypedWorker]
      BY <1>11, <1>t, <2>6 DEF Refresh
    <2> QED
      BY <1>11, <2>5, <2>7 DEF Refresh, TypeOK
  <1>12. CASE Unregister(w)
    <2>1. [IdleWorker EXCEPT !.phase = "finishing", !.key = worker[w].key, !.id = worker[w].id,
                             !.gen = worker[w].gen, !.attempts = worker[w].attempts,
                             !.wasCancelled = worker[w].cancelled, !.result = worker[w].result]
            \in TypedWorker
      <3>1. /\ worker[w].key \in Keys /\ worker[w].id \in 0..MaxId /\ worker[w].id \in Ids
            /\ worker[w].gen \in Nat /\ worker[w].attempts \in Nat
            /\ worker[w].cancelled \in BOOLEAN /\ worker[w].result \in Results
        BY <1>12, Typed DEF Unregister
      <3> QED
        BY <3>1, UnregisteredTyped
    <2>2. worker' \in [Workers -> TypedWorker]
      BY <1>12, <1>t, <2>1 DEF Unregister
    <2>3. active' \in [Ids -> Workers \cup {None}]
      BY <1>12, Typed DEF Unregister, TypeOK
    <2> QED
      BY <1>12, <2>2, <2>3 DEF Unregister, TypeOK
  <1>13. CASE Finish(w)
    <2> DEFINE k == worker[w].key
    <2>1. k \in Keys /\ worker[w].id \in Ids
      BY <1>13, Typed DEF Finish
    <2>2. HoldsClaim(w) => FinishedRow(rows[k], w) \in TypedRow
      BY <2>1, FinishedRowTyped
    <2>3. rows' \in [Keys -> TypedRow]
      BY <1>13, <1>t, <2>1, <2>2 DEF Finish
    <2>4. worker' \in [Workers -> TypedWorker]
      BY <1>13, <1>t, IdleTyped DEF Finish
    <2> QED
      BY <1>13, <2>3, <2>4 DEF Finish, TypeOK
  <1> QED
    BY <1>1, <1>2, <1>3, <1>4, <1>5, <1>6, <1>7, <1>9, <1>10, <1>11, <1>12, <1>13 DEF WorkerProgress, WorkerStep

\* enqueueWork keeps the state well typed.
LEMMA EnqueueTypeOK == ASSUME TypeOK, NEW k \in Keys, NEW m \in Messages, Enqueue(k, m) PROVE TypeOK'
  <1> USE DEF queueVars, runVars, ghostVars
  <1>1. /\ m.version \in Nat /\ m.pts \in Nat /\ m.identity \in Identities /\ m.account \in Accounts
        /\ m.origin \in Origins /\ m.ttl \in BOOLEAN
    BY QueueAssumption DEF QueueAssumption, Origins
  <1>2. SourcePts(k, m) \in Nat
    BY <1>1, Typed DEF SourcePts
  <1>3. rows \in [Keys -> TypedRow]
    BY DEF TypeOK
  <1>4. Larger(rows[k].pts, SourcePts(k, m)) \in Nat
    BY <1>2, Typed DEF Larger
  <1>5. CASE /\ nextId <= MaxId
             /\ rows' = [rows EXCEPT ![k] = InsertedRow(k, m)]
             /\ nextId' = nextId + 1
             /\ UNCHANGED signals
    <2>1. MaxId \in Nat
      BY QueueAssumption DEF QueueAssumption
    <2>2. nextId \in 0..MaxId /\ nextId # 0 /\ nextId' \in 1..(MaxId + 1)
      BY <1>5, <2>1 DEF TypeOK
    <2>3. InsertedRow(k, m) \in TypedRow
      <3>1. [NoRow EXCEPT !.id = nextId, !.status = "pending", !.gen = 1, !.version = m.version,
                          !.pts = SourcePts(k, m), !.identity = m.identity, !.account = m.account,
                          !.origin = m.origin, !.ttl = m.ttl, !.body = TRUE] \in TypedRow
        BY ONLY <1>1, <1>2, <2>2, InsertedTyped, ZenonT(30)
      <3> QED
        BY <3>1 DEF InsertedRow
    <2>4. rows' \in [Keys -> TypedRow]
      BY <1>3, <1>5, <2>3
    <2> QED
      BY <1>5, <2>2, <2>4 DEF Enqueue, TypeOK
  <1>6. CASE /\ Exists(k)
             /\ rows' = [rows EXCEPT ![k] = UpdatedRow(k, m)]
             /\ signals' = signals \cup {<<"id", rows[k].id>>}
             /\ UNCHANGED nextId
    <2> DEFINE r == rows[k]
               p == IF SameObservation(k, m) /\ (Comparable(k) \/ m.account = r.account)
                    THEN Larger(r.pts, SourcePts(k, m)) ELSE SourcePts(k, m)
               t == r.ttl \/ m.ttl
               g == r.gen + 1
               o == IF m.origin = "url" THEN "url" ELSE IF r.origin # "live" THEN r.origin ELSE m.origin
               s == IF r.status = "processing" THEN "processing" ELSE "pending"
    <2>1. r \in TypedRow /\ r.id # 0 /\ r.id \in Ids
      BY <1>6, Typed DEF Exists
    <2>2. p \in Nat /\ g \in Nat /\ o \in Origins /\ s \in Statuses
      BY <1>1, <1>2, <1>4, Typed DEF Origins, Statuses
    <2>3. t \in BOOLEAN
      OBVIOUS
    <2>4. [r EXCEPT !.account = m.account, !.version = m.version, !.pts = p,
                    !.identity = m.identity, !.body = TRUE, !.ttl = t, !.gen = g, !.attempts = 0,
                    !.backoff = FALSE, !.refresh = FALSE, !.origin = o, !.status = s] \in TypedRow
      <3> HIDE DEF r, p, t, g, o, s
      <3> QED
        BY ONLY <1>1, <2>1, <2>2, <2>3, UpdatedTyped, ZenonT(30)
    <2>5. UpdatedRow(k, m) \in TypedRow
      BY <2>4, Zenon DEF UpdatedRow
    <2>6. rows' \in [Keys -> TypedRow]
      BY <1>3, <1>6, <2>5
    <2>7. signals' \subseteq ({"id"} \X Ids) \cup ({"key"} \X Keys)
      BY <1>6, <2>1 DEF TypeOK
    <2> QED
      BY <1>6, <2>6, <2>7 DEF Enqueue, TypeOK
  <1>7. CASE /\ Exists(k)
             /\ rows' = [rows EXCEPT ![k] = WatermarkedRow(k, m)]
             /\ UNCHANGED <<nextId, signals>>
    <2>1. WatermarkedRow(k, m) \in TypedRow
      <3>1. rows[k] \in TypedRow /\ rows[k].id # 0
        BY <1>7, Typed DEF Exists
      <3>2. ASSUME NEW n \in Nat PROVE [rows[k] EXCEPT !.pts = n] \in TypedRow
        <4>1. TRUE \in BOOLEAN
          OBVIOUS
        <4> QED
          BY ONLY <3>1, <3>2, <4>1, OperatedTyped, ZenonT(30)
      <3> QED
        BY <1>4, <3>1, <3>2 DEF WatermarkedRow
    <2>2. rows' \in [Keys -> TypedRow]
      BY <1>3, <1>7, <2>1
    <2> QED
      BY <1>7, <2>2 DEF Enqueue, TypeOK
  <1> QED
    BY <1>5, <1>6, <1>7 DEF Enqueue

\* Any step that changes nothing but rows, each to a well-typed row.
LEMMA RowsTypeOK ==
    ASSUME TypeOK, rows' \in [Keys -> TypedRow],
           UNCHANGED <<nextId, gated, worker, active, stored, crashes, floods>>,
           queuePaused' \in BOOLEAN, run' \in {"down", "up", "stopping"}, observing' \in BOOLEAN,
           signals' \subseteq ({"id"} \X Ids) \cup ({"key"} \X Keys)
    PROVE  TypeOK'
  BY DEF TypeOK

\* Queue operations and timers keep the state well typed.
LEMMA OperatorTypeOK ==
    ASSUME TypeOK, Operator \/ (\E k \in Keys : BackoffEnds(k))
    PROVE  TypeOK'
  <1> USE DEF queueVars, runVars, ghostVars
  <1>t. /\ rows \in [Keys -> TypedRow]
        /\ queuePaused \in BOOLEAN /\ run \in {"down", "up", "stopping"} /\ observing \in BOOLEAN
        /\ signals \subseteq ({"id"} \X Ids) \cup ({"key"} \X Keys)
    BY DEF TypeOK
  <1>o. ASSUME NEW k \in Keys, rows[k].id # 0, NEW b \in BOOLEAN
        PROVE  /\ [rows[k] EXCEPT !.paused = b] \in TypedRow
               /\ [rows[k] EXCEPT !.backoff = FALSE] \in TypedRow
               /\ CancelledRow(rows[k]) \in TypedRow
               /\ RetriedRow(rows[k]) \in TypedRow
    <2>1. rows[k] \in TypedRow /\ 0 \in Nat
      BY Typed
    <2> QED
      BY ONLY <1>o, <2>1, OperatedTyped, ZenonT(30)
  <1>s. \A k \in Keys : rows[k].status # "completed" => rows[k].id # 0
    BY Typed
  <1>1. ASSUME NEW paused \in BOOLEAN, SetQueuePaused(paused) PROVE TypeOK'
    <2>1. rows' \in [Keys -> TypedRow]
      BY <1>1, <1>t, <1>o, <1>s DEF SetQueuePaused
    <2> QED
      BY <1>1, <1>t, <2>1, RowsTypeOK DEF SetQueuePaused
  <1>2. ASSUME NEW k \in Keys, NEW paused \in BOOLEAN, PauseJob(k, paused) PROVE TypeOK'
    <2>1. rows' \in [Keys -> TypedRow]
      BY <1>2, <1>t, <1>o, <1>s DEF PauseJob
    <2> QED
      BY <1>2, <1>t, <2>1, RowsTypeOK DEF PauseJob
  <1>3. CASE CancelAllQueued
    <2>1. rows' \in [Keys -> TypedRow]
      BY <1>3, <1>t, <1>o, <1>s DEF CancelAllQueued
    <2> QED
      BY <1>3, <1>t, <2>1, RowsTypeOK DEF CancelAllQueued
  <1>4. ASSUME NEW k \in Keys, CancelJob(k) PROVE TypeOK'
    <2>1. rows' \in [Keys -> TypedRow]
      BY <1>4, <1>t, <1>o, <1>s DEF CancelJob
    <2>2. signals' \subseteq ({"id"} \X Ids) \cup ({"key"} \X Keys)
      BY <1>4, <1>t DEF CancelJob
    <2> QED
      BY <1>4, <1>t, <2>1, <2>2, RowsTypeOK DEF CancelJob
  <1>5. ASSUME NEW ks \in {{k} : k \in Keys} \cup {Keys}, RetryJobs(ks) PROVE TypeOK'
    <2>1. rows' \in [Keys -> TypedRow]
      BY <1>5, <1>t, <1>o, <1>s DEF RetryJobs, Retryable
    <2> QED
      BY <1>5, <1>t, <2>1, RowsTypeOK DEF RetryJobs
  <1>6. ASSUME NEW ks \in {{k} : k \in Keys} \cup {Keys}, DeleteFinished(ks) PROVE TypeOK'
    <2>1. rows' \in [Keys -> TypedRow]
      BY <1>6, <1>t, NoRowTyped DEF DeleteFinished
    <2> QED
      BY <1>6, <1>t, <2>1, RowsTypeOK DEF DeleteFinished
  <1>7. ASSUME NEW k \in Keys, BackoffEnds(k) PROVE TypeOK'
    <2>1. [rows[k] EXCEPT !.backoff = FALSE] \in TypedRow
      <3>1. rows[k] \in TypedRow
        BY Typed
      <3>2. ASSUME NEW r \in TypedRow PROVE [r EXCEPT !.backoff = FALSE] \in TypedRow
        BY DEF TypedRow, Row
      <3> QED
        BY <3>1, <3>2
    <2>2. rows' \in [Keys -> TypedRow]
      BY <1>7, <1>t, <2>1 DEF BackoffEnds
    <2> QED
      BY <1>7, <1>t, <2>2, RowsTypeOK DEF BackoffEnds
  <1> QED
    BY <1>1, <1>2, <1>3, <1>4, <1>5, <1>6, <1>7 DEF Operator

\* Cancelling whatever the active map names keeps workers well typed.
LEMMA SignalledTyped ==
    ASSUME NEW f \in [Workers -> TypedWorker], NEW v
    PROVE  [f EXCEPT ![v].cancelled = TRUE] \in [Workers -> TypedWorker]
  <1>1. ASSUME NEW s \in TypedWorker PROVE [s EXCEPT !.cancelled = TRUE] \in TypedWorker
    BY DEF TypedWorker, WorkerState
  <1> QED
    BY <1>1

\* Signals, flood timers and the lifetime of the run keep the state well typed.
LEMMA LifecycleTypeOK ==
    ASSUME TypeOK,
           \/ Lifecycle
           \/ \E s \in signals : Signal(s)
           \/ \E a \in Accounts : FloodWaitEnds(a)
    PROVE  TypeOK'
  <1> USE DEF queueVars, runVars, ghostVars
  <1>t. /\ rows \in [Keys -> TypedRow]
        /\ worker \in [Workers -> TypedWorker]
    BY DEF TypeOK
  <1>c. ASSUME NEW w \in Workers, worker[w].phase \notin {"idle", "polled"}
        PROVE  [worker[w] EXCEPT !.cancelled = TRUE] \in TypedWorker
    BY <1>c, Typed, BusyTyped DEF Phases, Results
  <1>w. ASSUME NEW ws, CancelWorkers(ws) PROVE worker' \in [Workers -> TypedWorker]
    <2>1. \A w \in Workers : worker[w] \in TypedWorker
      BY <1>t
    <2> QED
      BY <1>w, <1>c, <2>1 DEF CancelWorkers
  <1>1. ASSUME NEW s \in signals, Signal(s) PROVE TypeOK'
    <2>0. signals' \subseteq ({"id"} \X Ids) \cup ({"key"} \X Keys)
      BY <1>1 DEF Signal, TypeOK
    <2>1. worker' \in [Workers -> TypedWorker]
      <3>1. CASE UNCHANGED worker
        BY <3>1, <1>t
      <3>2. ASSUME NEW i, worker' = [worker EXCEPT ![active[i]].cancelled = TRUE]
            PROVE  worker' \in [Workers -> TypedWorker]
        BY <3>2, <1>t, SignalledTyped
      <3> QED
        BY <1>1, <3>1, <3>2 DEF Signal
    <2> QED
      BY <1>1, <2>0, <2>1 DEF Signal, TypeOK
  <1>2. ASSUME NEW a \in Accounts, FloodWaitEnds(a) PROVE TypeOK'
    BY <1>2 DEF FloodWaitEnds, TypeOK
  <1>3. ASSUME NEW obs \in BOOLEAN, Start(obs) PROVE TypeOK'
    <2>1. ASSUME NEW k \in Keys, rows[k].status = "processing"
          PROVE  [rows[k] EXCEPT !.status = "pending", !.claim = 0] \in TypedRow
      <3>1. rows[k] \in TypedRow /\ rows[k].id # 0 /\ 0 \in Nat /\ TRUE \in BOOLEAN
        BY <2>1, Typed
      <3> QED
        BY ONLY <3>1, OperatedTyped, ZenonT(30)
    <2>2. rows' \in [Keys -> TypedRow]
      BY <1>3, <1>t, <2>1 DEF Start
    <2> QED
      BY <1>3, <2>2 DEF Start, TypeOK
  <1>4. CASE Promote
    BY <1>4 DEF Promote, TypeOK
  <1>5. CASE StopObserving
    <2>1. worker' \in [Workers -> TypedWorker]
      BY <1>5, <1>w DEF StopObserving
    <2> QED
      BY <1>5, <2>1 DEF StopObserving, TypeOK
  <1>6. CASE Stop
    <2>1. worker' \in [Workers -> TypedWorker]
      BY <1>6, <1>w DEF Stop
    <2> QED
      BY <1>6, <2>1 DEF Stop, TypeOK
  <1>7. CASE Stopped
    BY <1>7 DEF Stopped, TypeOK
  <1>8. CASE Crash
    BY <1>8, IdleTyped DEF Crash, TypeOK
  <1>9. ASSUME NEW k \in Keys, NEW a \in Accounts, Reassign(k, a) PROVE TypeOK'
    <2> DEFINE p == IF k \in ChannelKeys THEN rows[k].pts ELSE 0
               g == rows[k].gen + 1
    <2>1. /\ rows[k] \in TypedRow /\ rows[k].id # 0 /\ p \in Nat /\ g \in Nat
      BY <1>9, Typed DEF Reassign
    <2>2. [rows[k] EXCEPT !.account = a, !.refresh = TRUE, !.pts = p, !.gen = g, !.claim = 0,
                          !.status = "pending", !.attempts = 0, !.backoff = FALSE] \in TypedRow
      <3> HIDE DEF p, g
      <3> QED
        BY ONLY <2>1, a \in Accounts, ReassignedTyped, ZenonT(30)
    <2>3. rows' \in [Keys -> TypedRow]
      BY <1>9, <1>t, <2>2 DEF Reassign
    <2> QED
      BY <1>9, <2>3 DEF Reassign, TypeOK
  <1> QED
    BY <1>1, <1>2, <1>3, <1>4, <1>5, <1>6, <1>7, <1>8, <1>9 DEF Lifecycle

\* Rows, workers and the active map keep the types the schema and the Go
\* declarations give them, whatever interleaving of workers, operators,
\* observations and crashes (engine/work.go, engine/controller.go).
THEOREM TypeCorrect == Spec => []TypeOK
  <1>1. TypeOK /\ [Next]_vars => TypeOK'
    <2>1. CASE UNCHANGED vars
      BY <2>1 DEF vars, TypeOK
    <2> QED
      BY <2>1, WorkerTypeOK, EnqueueTypeOK, OperatorTypeOK, LifecycleTypeOK DEF Next
  <1> QED
    BY InitTypeOK, <1>1, PTL DEF Spec

-----------------------------------------------------------------------------
(* What those shapes keep of a row and of a worker.                        *)

\* The identifying columns of the rows the statements leave behind: enqueueWork,
LEMMA UpdatedColumns ==
    ASSUME NEW k \in Keys, NEW m, rows[k] \in TypedRow
    PROVE  /\ UpdatedRow(k, m).id = rows[k].id /\ UpdatedRow(k, m).gen = rows[k].gen + 1
           /\ UpdatedRow(k, m).claim = rows[k].claim
           /\ UpdatedRow(k, m).status = IF rows[k].status = "processing" THEN "processing" ELSE "pending"
           /\ WatermarkedRow(k, m).id = rows[k].id /\ WatermarkedRow(k, m).gen = rows[k].gen
           /\ WatermarkedRow(k, m).status = rows[k].status
           /\ WatermarkedRow(k, m).claim = rows[k].claim
  BY DEF TypedRow, Row, UpdatedRow, WatermarkedRow

\* Refresh, Claim,
LEMMA RefreshedColumns ==
    ASSUME NEW r \in TypedRow, NEW g, NEW n, NEW v, NEW d
    PROVE  LET u == [r EXCEPT !.gen = g, !.attempts = n, !.version = v, !.identity = d,
                              !.body = TRUE, !.refresh = FALSE]
           IN u.id = r.id /\ u.gen = g /\ u.status = r.status /\ u.claim = r.claim
  BY DEF TypedRow, Row

LEMMA ClaimedColumns ==
    ASSUME NEW r \in TypedRow, NEW n
    PROVE  LET u == [r EXCEPT !.status = "processing", !.claim = r.gen, !.attempts = n]
           IN u.id = r.id /\ u.gen = r.gen /\ u.status = "processing" /\ u.claim = r.gen
  BY DEF TypedRow, Row

\* Finish,
LEMMA FinishedColumns ==
    ASSUME NEW r \in TypedRow, NEW w
    PROVE  /\ FinishedRow(r, w).id = r.id /\ FinishedRow(r, w).gen = r.gen
           /\ FinishedRow(r, w).status = IF r.gen # worker[w].gen THEN "pending" ELSE FinalStatus(w)
  BY DEF TypedRow, Row, FinishedRow

\* queue operations, timers and Recover.
LEMMA OperatedColumns ==
    ASSUME NEW r \in TypedRow, NEW b
    PROVE  /\ LET u == [r EXCEPT !.status = "pending", !.claim = 0]
              IN u.id = r.id /\ u.gen = r.gen /\ u.status = "pending"
           /\ LET u == [r EXCEPT !.paused = b]
              IN u.id = r.id /\ u.gen = r.gen /\ u.status = r.status /\ u.claim = r.claim
           /\ LET u == [r EXCEPT !.backoff = FALSE]
              IN u.id = r.id /\ u.gen = r.gen /\ u.status = r.status /\ u.claim = r.claim
           /\ CancelledRow(r).id = r.id /\ CancelledRow(r).gen = r.gen
           /\ CancelledRow(r).status = "skipped"
           /\ RetriedRow(r).id = r.id /\ RetriedRow(r).gen = r.gen
           /\ RetriedRow(r).status = "pending"
  BY DEF TypedRow, Row, CancelledRow, RetriedRow

\* ReassignGroup.
LEMMA ReassignedColumns ==
    ASSUME NEW r \in TypedRow, NEW a, NEW p, NEW g
    PROVE  LET u == [r EXCEPT !.account = a, !.refresh = TRUE, !.pts = p, !.gen = g, !.claim = 0,
                              !.status = "pending", !.attempts = 0, !.backoff = FALSE]
           IN u.id = r.id /\ u.status = "pending"
  BY DEF TypedRow, Row

LEMMA ReassignStep ==
    ASSUME NEW k \in Keys, NEW a \in Accounts, Reassign(k, a), rows \in [Keys -> TypedRow]
    PROVE  /\ rows'[k].id = rows[k].id /\ rows'[k].status = "pending"
           /\ \A j \in Keys : j # k => rows'[j] = rows[j]
  <1> DEFINE p == IF k \in ChannelKeys THEN rows[k].pts ELSE 0
             g == rows[k].gen + 1
             u == [rows[k] EXCEPT !.account = a, !.refresh = TRUE, !.pts = p, !.gen = g, !.claim = 0,
                                  !.status = "pending", !.attempts = 0, !.backoff = FALSE]
  <1>1. rows[k] \in TypedRow
    OBVIOUS
  <1>2. u.id = rows[k].id /\ u.status = "pending"
    <2> HIDE DEF p, g
    <2> QED
      BY ONLY <1>1, ReassignedColumns
  <1>3. rows' = [rows EXCEPT ![k] = u]
    BY DEF Reassign
  <1>4. rows'[k] = u /\ \A j \in Keys : j # k => rows'[j] = rows[j]
    <2> HIDE DEF u
    <2> QED
      BY <1>3
  <1> HIDE DEF u
  <1> QED
    BY <1>2, <1>4

\* The same of the next state.
LEMMA TypedPrimed ==
    ASSUME TypeOK'
    PROVE  /\ \A k \in Keys : rows'[k] \in TypedRow /\ rows'[k].gen \in Nat /\ rows'[k].id \in Nat
           /\ \A w \in Workers : worker'[w] \in TypedWorker
  <1>1. /\ \A k \in Keys : rows'[k] \in TypedRow
        /\ \A w \in Workers : worker'[w] \in TypedWorker
    BY DEF TypeOK
  <1>2. ASSUME NEW r \in TypedRow PROVE r.gen \in Nat /\ r.id \in Nat
    BY QueueAssumption DEF TypedRow, Row, QueueAssumption
  <1> QED
    BY <1>1, <1>2

-----------------------------------------------------------------------------
(* Steps that take no claim.                                               *)

SameClaimColumns(k) ==
    /\ rows'[k].id = rows[k].id /\ rows'[k].gen = rows[k].gen
    /\ rows'[k].status = rows[k].status /\ rows'[k].claim = rows[k].claim

\* What a statement other than Claim, Finish, Recover and ReassignGroup does to a row.
RowStep(k) ==
    \/ SameClaimColumns(k)
    \/ /\ rows'[k].id = rows[k].id /\ rows'[k].gen > rows[k].gen
       /\ rows'[k].status = "processing" => /\ rows[k].status = "processing"
                                            /\ rows'[k].claim = rows[k].claim
    \/ /\ rows'[k].id = rows[k].id /\ rows'[k].gen = rows[k].gen
       /\ rows'[k].status = "skipped"
    \/ /\ rows'[k].id = rows[k].id /\ rows'[k].gen = rows[k].gen
       /\ rows[k].status \notin {"processing", "skipped"} /\ rows'[k].status # "processing"
    \/ /\ rows'[k].id \in {0, nextId} /\ rows'[k].status # "processing"

SameClaims ==
    \A w \in Workers : Busy(w)' => Busy(w) /\ ClaimOf(w)' = ClaimOf(w)

\* A step that takes no claim and moves every row by RowStep keeps ClaimInv, unless
\* it ends a worker whose claim is still good.
LEMMA KeptClaims ==
    ASSUME TypeOK, TypeOK', ClaimInv, SameClaims,
           nextId' >= nextId,
           \A k \in Keys : RowStep(k) /\ rows'[k].id < nextId',
           run' = "up" => run = "up",
           run' = "up" => \A w \in Workers : Busy(w) /\ HoldsClaim(w) => Busy(w)',
           run' = "down" => \A w \in Workers : worker'[w].phase = "idle"
    PROVE  ClaimInv'
  <1>1. \A w \in Workers : Busy(w) => worker[w].key \in Keys /\ worker[w].id \in Ids
    BY Typed DEF Busy
  <1>2. \A w \in Workers : Busy(w)' => /\ Busy(w)
                                       /\ worker'[w].key = worker[w].key
                                       /\ worker'[w].id = worker[w].id
                                       /\ worker'[w].gen = worker[w].gen
    BY DEF SameClaims, ClaimOf
  <1>n. nextId \in Nat /\ nextId' \in Nat
    BY QueueAssumption DEF TypeOK, QueueAssumption
  <1>3. ASSUME NEW w \in Workers, Busy(w)' PROVE worker'[w].id < nextId' /\ ClaimFits(w)'
    <2> DEFINE k == worker[w].key
    <2>1. /\ Busy(w) /\ k \in Keys /\ worker[w].id \in Ids /\ worker[w].gen \in Nat
          /\ worker'[w].key = k /\ worker'[w].id = worker[w].id /\ worker'[w].gen = worker[w].gen
          /\ worker[w].id \in Nat /\ worker[w].id # 0
      BY <1>1, <1>2, <1>3, Typed DEF Ids
    <2>2. worker[w].id < nextId /\ ClaimFits(w)
      BY <2>1 DEF ClaimInv
    <2>3. worker'[w].id < nextId'
      BY <1>n, <2>1, <2>2
    <2>4. rows[k].gen \in Nat /\ rows'[k].gen \in Nat
      BY <2>1, Typed, TypedPrimed
    <2>5. ClaimFits(w)'
      <3> SUFFICES ASSUME rows'[k].id = worker[w].id
                   PROVE  /\ worker[w].gen <= rows'[k].gen
                          /\ worker[w].gen = rows'[k].gen =>
                               \/ rows'[k].status = "processing" /\ rows'[k].claim = rows'[k].gen
                               \/ rows'[k].status = "skipped"
        BY <2>1 DEF ClaimFits
      <3>1. RowStep(k) /\ worker[w].id # nextId
        BY <1>n, <2>1, <2>2
      <3>2. rows'[k].id = rows[k].id
        BY <2>1, <3>1 DEF RowStep, SameClaimColumns
      <3>3. /\ worker[w].gen <= rows[k].gen
            /\ worker[w].gen = rows[k].gen =>
                 \/ rows[k].status = "processing" /\ rows[k].claim = rows[k].gen
                 \/ rows[k].status = "skipped"
        BY <2>2, <3>2 DEF ClaimFits
      <3>4. rows'[k].id # 0 /\ rows'[k].id # nextId
        BY <2>1, <3>1
      <3> HIDE DEF k
      <3> QED
        BY ONLY <2>1, <2>4, <3>1, <3>3, <3>4, SMT DEF RowStep, SameClaimColumns
    <2> QED
      BY <2>3, <2>5
  <1>4. ASSUME NEW w \in Workers, NEW v \in Workers, Busy(w)', Busy(v)', (ClaimOf(w) = ClaimOf(v))'
        PROVE  w = v
    BY <1>4, <1>2 DEF ClaimInv, ClaimOf, SameClaims
  <1>5. NoOrphanClaim'
    <2> SUFFICES ASSUME run' = "up", NEW k \in Keys, rows'[k].status = "processing"
                 PROVE  \E w \in Workers : (Busy(w) /\ worker[w].key = k /\ HoldsClaim(w))'
      BY DEF NoOrphanClaim
    <2>0. RowStep(k)
      OBVIOUS
    <2>1. /\ run = "up" /\ rows[k].status = "processing" /\ rows'[k].claim = rows[k].claim
          /\ rows'[k].id = rows[k].id
      BY <2>0 DEF RowStep, SameClaimColumns
    <2>2. PICK w \in Workers : Busy(w) /\ worker[w].key = k /\ HoldsClaim(w)
      BY <2>1 DEF ClaimInv, NoOrphanClaim
    <2>3. Busy(w)' /\ worker'[w].key = k /\ HoldsClaim(w)'
      BY <1>2, <2>1, <2>2 DEF HoldsClaim
    <2> QED
      BY <2>3
  <1> QED
    BY <1>3, <1>4, <1>5 DEF ClaimInv

-----------------------------------------------------------------------------
(* Steps of workers and of the run that leave every row alone.             *)

\* What a worker keeps of its claim while it moves on with it.
LEMMA WorkerShapes ==
    ASSUME NEW s \in TypedWorker, NEW p, NEW x, NEW c, NEW b
    PROVE  /\ LET u == [s EXCEPT !.phase = p, !.manual = b] IN u.phase = p
           /\ LET u == [s EXCEPT !.phase = p]
              IN u.phase = p /\ u.key = s.key /\ u.id = s.id /\ u.gen = s.gen
           /\ LET u == [s EXCEPT !.phase = p, !.cancelled = c]
              IN u.phase = p /\ u.key = s.key /\ u.id = s.id /\ u.gen = s.gen
           /\ LET u == [s EXCEPT !.phase = p, !.result = x]
              IN /\ u.phase = p /\ u.key = s.key /\ u.id = s.id /\ u.gen = s.gen
                 /\ u.result = x
           /\ LET u == [s EXCEPT !.phase = p, !.result = x, !.cancelled = c]
              IN /\ u.phase = p /\ u.key = s.key /\ u.id = s.id /\ u.gen = s.gen
                 /\ u.result = x
           /\ LET u == [s EXCEPT !.cancelled = c]
              IN /\ u.phase = s.phase /\ u.key = s.key /\ u.id = s.id /\ u.gen = s.gen
                 /\ u.result = s.result
  BY DEF TypedWorker, WorkerState

\* Every worker keeps its claim, except the one that steps, which keeps it too
\* or has none before and after.
ClaimKept(w) ==
    \/ worker'[w].phase \in {"idle", "polled"} /\ worker[w].phase \in {"idle", "polled"}
    \/ /\ Busy(w) /\ Busy(w)'
       /\ worker'[w].key = worker[w].key /\ worker'[w].id = worker[w].id
       /\ worker'[w].gen = worker[w].gen

\* KeptClaims for a step that moves workers but no row.
LEMMA WorkersMove ==
    ASSUME TypeOK, TypeOK', ClaimInv, UNCHANGED <<rows, nextId>>,
           run' = "up" => run = "up",
           run' = "down" => \A w \in Workers : worker'[w].phase = "idle",
           \A w \in Workers : ClaimKept(w) \/ (worker'[w].phase = "idle" /\ run' # "up")
    PROVE  ClaimInv'
  <1>1. SameClaims
    BY DEF SameClaims, ClaimKept, Busy, ClaimOf
  <1>2. \A k \in Keys : RowStep(k) /\ rows'[k].id < nextId'
    BY DEF RowStep, SameClaimColumns, ClaimInv
  <1>3. nextId' >= nextId
    BY QueueAssumption DEF QueueAssumption, TypeOK
  <1>4. run' = "up" => \A w \in Workers : Busy(w) /\ HoldsClaim(w) => Busy(w)'
    BY DEF ClaimKept, Busy
  <1> QED
    BY <1>1, <1>2, <1>3, <1>4, KeptClaims

\* A busy worker moves on: Register, CheckCurrent, the transfer and its end, Unregister.
LEMMA BusyStepClaims ==
    ASSUME TypeOK, TypeOK', ClaimInv, NEW w \in Workers,
           \/ Register(w) \/ CheckCurrent(w) \/ StartTransfer(w) \/ Unregister(w)
           \/ \E res \in {"ok", "error", "flood", "filtered"} :
                RefreshFailed(w, res) \/ EndTransfer(w, res)
    PROVE  /\ ClaimInv'
           /\ \A v \in Workers : v # w => worker'[v] = worker[v]
           /\ ClaimKept(w)
  <1> USE DEF queueVars, runVars, ghostVars
  <1> DEFINE s == worker[w]
  <1>1. worker \in [Workers -> TypedWorker] /\ s \in TypedWorker
    BY Typed DEF TypeOK
  <1>2. \A v \in Workers : v # w => worker'[v] = worker[v]
    BY <1>1 DEF Register, CheckCurrent, StartTransfer, Unregister, RefreshFailed, EndTransfer, EndAttempt
  <1>3. /\ worker'[w].phase \notin {"idle", "polled"}
        /\ worker'[w].key = s.key /\ worker'[w].id = s.id /\ worker'[w].gen = s.gen
    <2>1. CASE Register(w)
      <3>1. PICK c \in BOOLEAN : worker'[w] = [s EXCEPT !.phase = "registered", !.cancelled = c]
        BY <2>1, <1>1, Typed DEF Register
      <3> HIDE DEF s
      <3> QED
        BY ONLY <1>1, <3>1, WorkerShapes
    <2>2. CASE CheckCurrent(w)
      <3>1. \/ worker'[w] = [s EXCEPT !.phase = "ending", !.result = "error"]
            \/ worker'[w] = [s EXCEPT !.phase = "checked"]
            \/ worker'[w] = [s EXCEPT !.phase = "ending", !.result = "error", !.cancelled = TRUE]
        BY <2>2, <1>1 DEF CheckCurrent
      <3> HIDE DEF s
      <3>2. CASE worker'[w] = [s EXCEPT !.phase = "ending", !.result = "error"]
        BY ONLY <1>1, <3>2, WorkerShapes
      <3>3. CASE worker'[w] = [s EXCEPT !.phase = "checked"]
        BY ONLY <1>1, <3>3, WorkerShapes
      <3>4. CASE worker'[w] = [s EXCEPT !.phase = "ending", !.result = "error", !.cancelled = TRUE]
        BY ONLY <1>1, <3>4, WorkerShapes
      <3> QED
        BY <3>1, <3>2, <3>3, <3>4
    <2>3. CASE StartTransfer(w)
      <3>1. worker'[w] = [s EXCEPT !.phase = "transfer"]
        BY <2>3, <1>1 DEF StartTransfer
      <3> HIDE DEF s
      <3> QED
        BY ONLY <1>1, <3>1, WorkerShapes
    <2>4. CASE Unregister(w)
      BY <2>4, <1>1 DEF Unregister, IdleWorker
    <2>5. ASSUME NEW res \in {"ok", "error", "flood", "filtered"},
                 RefreshFailed(w, res) \/ EndTransfer(w, res)
          PROVE  worker'[w] = [s EXCEPT !.phase = "ending", !.result = res]
      BY <2>5, <1>1 DEF RefreshFailed, EndTransfer, EndAttempt
    <2>6. ASSUME NEW res, worker'[w] = [s EXCEPT !.phase = "ending", !.result = res]
          PROVE  /\ worker'[w].phase \notin {"idle", "polled"}
                 /\ worker'[w].key = s.key /\ worker'[w].id = s.id /\ worker'[w].gen = s.gen
      <3> HIDE DEF s
      <3> QED
        BY ONLY <1>1, <2>6, WorkerShapes
    <2> QED
      BY <2>1, <2>2, <2>3, <2>4, <2>5, <2>6
  <1>4. Busy(w) /\ UNCHANGED <<rows, nextId>> /\ run' = run
    BY DEF Busy, Register, CheckCurrent, StartTransfer, Unregister, RefreshFailed, EndTransfer
  <1>5. ClaimKept(w)
    BY <1>3, <1>4 DEF ClaimKept, Busy
  <1>7. \A v \in Workers : ClaimKept(v)
    BY <1>2, <1>5 DEF ClaimKept, Busy
  <1>8. run # "down"
    BY <1>4 DEF ClaimInv, Busy
  <1> QED
    BY <1>2, <1>4, <1>5, <1>7, <1>8, WorkersMove

\* The rest of the steps that leave every row alone.
LEMMA RunStepClaims ==
    ASSUME TypeOK, TypeOK', ClaimInv,
           \/ \E w \in Workers : Poll(w) \/ ClaimNothing(w)
           \/ \E s \in signals : Signal(s)
           \/ \E a \in Accounts : FloodWaitEnds(a)
           \/ Promote \/ StopObserving \/ Stop \/ Stopped \/ Crash
    PROVE  ClaimInv'
  <1> USE DEF queueVars, runVars, ghostVars
  <1>1. /\ worker \in [Workers -> TypedWorker]
        /\ \A w \in Workers : worker[w] \in TypedWorker
    BY Typed DEF TypeOK
  <1>2. ASSUME \A w \in Workers : worker'[w].phase = worker[w].phase /\ worker'[w].key = worker[w].key
                                   /\ worker'[w].id = worker[w].id /\ worker'[w].gen = worker[w].gen,
               UNCHANGED <<rows, nextId>>, run' = run \/ run' = "stopping"
        PROVE  ClaimInv'
    <2>1. \A w \in Workers : ClaimKept(w)
      BY <1>2 DEF ClaimKept, Busy
    <2>2. run' = "down" => \A w \in Workers : worker'[w].phase = "idle"
      BY <1>2 DEF ClaimInv
    <2> QED
      BY <1>2, <2>1, <2>2, WorkersMove
  <1>3. ASSUME NEW w \in Workers, Poll(w) PROVE ClaimInv'
    <2>1. /\ worker'[w] = [worker[w] EXCEPT !.phase = "polled", !.manual = ~observing]
          /\ \A v \in Workers : v # w => worker'[v] = worker[v]
      BY <1>1, <1>3 DEF Poll
    <2>2. worker'[w].phase = "polled"
      BY ONLY <2>1, <1>1, WorkerShapes
    <2>3. \A v \in Workers : ClaimKept(v)
      BY <1>3, <2>1, <2>2 DEF ClaimKept, Poll, Busy
    <2> QED
      BY <1>3, <2>3, WorkersMove DEF Poll
  <1>4. ASSUME NEW w \in Workers, ClaimNothing(w) PROVE ClaimInv'
    <2>1. /\ worker'[w].phase = "idle" /\ worker[w].phase = "polled"
          /\ \A v \in Workers : v # w => worker'[v] = worker[v]
      BY <1>1, <1>4 DEF ClaimNothing, IdleWorker
    <2>2. \A v \in Workers : ClaimKept(v)
      BY <2>1 DEF ClaimKept, Busy
    <2>3. run # "down"
      BY <2>1 DEF ClaimInv
    <2> QED
      BY <1>4, <2>2, <2>3, WorkersMove DEF ClaimNothing
  <1>5. ASSUME NEW s \in signals, Signal(s) PROVE ClaimInv'
    <2>1. ASSUME NEW v \in Workers
          PROVE  worker'[v] = worker[v] \/ worker'[v] = [worker[v] EXCEPT !.cancelled = TRUE]
      BY <1>1, <1>5 DEF Signal
    <2>2. ASSUME NEW v \in Workers
          PROVE  /\ worker'[v].phase = worker[v].phase /\ worker'[v].key = worker[v].key
                 /\ worker'[v].id = worker[v].id /\ worker'[v].gen = worker[v].gen
      <3>1. CASE worker'[v] = [worker[v] EXCEPT !.cancelled = TRUE]
        BY ONLY <1>1, <3>1, WorkerShapes
      <3> QED
        BY <2>1, <3>1
    <2> QED
      BY <1>2, <1>5, <2>2 DEF Signal
  <1>6. ASSUME NEW ws, CancelWorkers(ws), UNCHANGED <<rows, nextId>>, run' = run \/ run' = "stopping"
        PROVE  ClaimInv'
    <2>1. ASSUME NEW v \in Workers
          PROVE  worker'[v] = worker[v] \/ worker'[v] = [worker[v] EXCEPT !.cancelled = TRUE]
      BY <1>6 DEF CancelWorkers
    <2>2. ASSUME NEW v \in Workers
          PROVE  /\ worker'[v].phase = worker[v].phase /\ worker'[v].key = worker[v].key
                 /\ worker'[v].id = worker[v].id /\ worker'[v].gen = worker[v].gen
      <3>1. CASE worker'[v] = [worker[v] EXCEPT !.cancelled = TRUE]
        BY ONLY <1>1, <3>1, WorkerShapes
      <3> QED
        BY <2>1, <3>1
    <2> QED
      BY <1>2, <1>6, <2>2
  <1>7. CASE StopObserving
    BY <1>6, <1>7 DEF StopObserving
  <1>8. CASE Stop
    BY <1>6, <1>8 DEF Stop
  <1>9. ASSUME (\E a \in Accounts : FloodWaitEnds(a)) \/ Promote PROVE ClaimInv'
    BY <1>2, <1>9 DEF FloodWaitEnds, Promote
  <1>10. CASE Stopped
    <2>1. \A w \in Workers : worker'[w].phase = "idle"
      BY <1>10 DEF Stopped
    <2> QED
      BY <1>10, <2>1, WorkersMove DEF Stopped
  <1>11. CASE Crash
    <2>1. \A w \in Workers : worker'[w].phase = "idle"
      BY <1>11 DEF Crash, IdleWorker
    <2> QED
      BY <1>11, <2>1, WorkersMove DEF Crash
  <1> QED
    BY <1>3, <1>4, <1>5, <1>7, <1>8, <1>9, <1>10, <1>11

-----------------------------------------------------------------------------
(* Steps that change rows.                                                 *)

\* Updates, repairs, queue operations and timers take no claim.
LEMMA RowsMove ==
    ASSUME TypeOK, TypeOK', ClaimInv, UNCHANGED <<worker, run>>, nextId' >= nextId,
           \A k \in Keys : RowStep(k) /\ rows'[k].id < nextId'
    PROVE  ClaimInv'
  <1>1. SameClaims
    BY DEF SameClaims, Busy, ClaimOf
  <1>2. run' = "up" => \A w \in Workers : Busy(w) /\ HoldsClaim(w) => Busy(w)'
    BY DEF Busy
  <1>3. run' = "down" => \A w \in Workers : worker'[w].phase = "idle"
    BY DEF ClaimInv
  <1> QED
    BY <1>1, <1>2, <1>3, KeptClaims

\* enqueueWork: a new row, a new generation, or a watermark.
LEMMA EnqueueClaims ==
    ASSUME TypeOK, TypeOK', ClaimInv, NEW k \in Keys, NEW m \in Messages, Enqueue(k, m)
    PROVE  ClaimInv'
  <1> USE DEF queueVars, runVars, ghostVars
  <1>1. rows \in [Keys -> TypedRow] /\ rows[k] \in TypedRow /\ nextId \in Nat /\ rows[k].gen \in Nat
    BY Typed, QueueAssumption DEF TypeOK, QueueAssumption
  <1>2. \A j \in Keys : rows[j].id < nextId /\ rows[j].id \in Nat
    BY Typed, QueueAssumption DEF ClaimInv, QueueAssumption
  <1>3. \A j \in Keys : j # k => rows'[j] = rows[j]
    BY <1>1 DEF Enqueue
  <1>4. UNCHANGED <<worker, run>>
    BY DEF Enqueue
  <1>5. nextId' >= nextId /\ nextId' \in Nat
    BY <1>1 DEF Enqueue
  <1>6. RowStep(k) /\ rows'[k].id < nextId'
    <2>1. CASE rows' = [rows EXCEPT ![k] = InsertedRow(k, m)] /\ nextId' = nextId + 1
      <3>1. rows'[k].id = nextId /\ rows'[k].status = "pending"
        BY <1>1, <2>1 DEF InsertedRow, NoRow
      <3> QED
        BY <1>1, <2>1, <3>1 DEF RowStep
    <2>2. CASE rows' = [rows EXCEPT ![k] = UpdatedRow(k, m)] /\ UNCHANGED nextId
      <3>1. rows'[k] = UpdatedRow(k, m)
        BY <1>1, <2>2
      <3>2. /\ UpdatedRow(k, m).id = rows[k].id /\ UpdatedRow(k, m).gen = rows[k].gen + 1
            /\ UpdatedRow(k, m).claim = rows[k].claim
            /\ UpdatedRow(k, m).status = IF rows[k].status = "processing" THEN "processing" ELSE "pending"
        BY <1>1, UpdatedColumns
      <3> QED
        BY <1>1, <1>2, <2>2, <3>1, <3>2 DEF RowStep
    <2>3. CASE rows' = [rows EXCEPT ![k] = WatermarkedRow(k, m)] /\ UNCHANGED nextId
      <3>1. rows'[k] = WatermarkedRow(k, m)
        BY <1>1, <2>3
      <3>2. SameClaimColumns(k)
        BY <1>1, <3>1, UpdatedColumns DEF SameClaimColumns
      <3> QED
        BY <1>2, <2>3, <3>2 DEF RowStep, SameClaimColumns
    <2> QED
      BY <2>1, <2>2, <2>3 DEF Enqueue
  <1>7. \A j \in Keys : RowStep(j) /\ rows'[j].id < nextId'
    <2> SUFFICES ASSUME NEW j \in Keys, j # k PROVE RowStep(j) /\ rows'[j].id < nextId'
      BY <1>6
    <2>1. rows'[j] = rows[j] /\ rows[j].id < nextId /\ rows[j].id \in Nat
      BY <1>2, <1>3
    <2> QED
      BY <1>1, <1>5, <2>1 DEF RowStep, SameClaimColumns
  <1> QED
    BY <1>4, <1>5, <1>7, RowsMove

\* Queue operations and timers.
LEMMA OperatorClaims ==
    ASSUME TypeOK, TypeOK', ClaimInv, Operator \/ (\E k \in Keys : BackoffEnds(k))
    PROVE  ClaimInv'
  <1> USE DEF queueVars, runVars, ghostVars
  <1>1. /\ rows \in [Keys -> TypedRow]
        /\ \A k \in Keys : rows[k] \in TypedRow /\ rows[k].id < nextId /\ rows[k].id \in Nat
        /\ nextId \in Nat /\ nextId > 0
    BY Typed, QueueAssumption DEF TypeOK, ClaimInv, QueueAssumption
  <1>2. UNCHANGED <<worker, run, nextId>>
    BY DEF Operator, SetQueuePaused, PauseJob, CancelAllQueued, CancelJob, RetryJobs, DeleteFinished,
           BackoffEnds
  <1>3. ASSUME NEW k \in Keys
        PROVE  \/ rows'[k] = rows[k]
               \/ \E b \in BOOLEAN : rows'[k] = [rows[k] EXCEPT !.paused = b]
               \/ rows'[k] = [rows[k] EXCEPT !.backoff = FALSE]
               \/ rows'[k] = CancelledRow(rows[k])
               \/ rows[k].status = "failed" /\ rows'[k] = RetriedRow(rows[k])
               \/ rows'[k] = NoRow
    <2>1. ASSUME NEW b \in BOOLEAN, SetQueuePaused(b)
          PROVE  rows'[k] = rows[k] \/ rows'[k] = [rows[k] EXCEPT !.paused = FALSE]
      BY <2>1 DEF SetQueuePaused
    <2>2. ASSUME NEW b \in BOOLEAN, NEW j \in Keys, PauseJob(j, b)
          PROVE  rows'[k] = rows[k] \/ rows'[k] = [rows[k] EXCEPT !.paused = b]
      BY <1>1, <2>2 DEF PauseJob
    <2>3. ASSUME CancelAllQueued \/ \E j \in Keys : CancelJob(j)
          PROVE  rows'[k] = rows[k] \/ rows'[k] = CancelledRow(rows[k])
      BY <1>1, <2>3 DEF CancelAllQueued, CancelJob
    <2>4. ASSUME NEW ks, RetryJobs(ks)
          PROVE  rows'[k] = rows[k] \/ (rows[k].status = "failed" /\ rows'[k] = RetriedRow(rows[k]))
      BY <2>4 DEF RetryJobs, Retryable
    <2>5. ASSUME NEW ks, DeleteFinished(ks) PROVE rows'[k] = rows[k] \/ rows'[k] = NoRow
      BY <2>5 DEF DeleteFinished
    <2>6. ASSUME NEW j \in Keys, BackoffEnds(j)
          PROVE  rows'[k] = rows[k] \/ rows'[k] = [rows[k] EXCEPT !.backoff = FALSE]
      BY <1>1, <2>6 DEF BackoffEnds
    <2> QED
      BY <2>1, <2>2, <2>3, <2>4, <2>5, <2>6 DEF Operator
  <1>4. ASSUME NEW k \in Keys PROVE RowStep(k) /\ rows'[k].id < nextId
    <2>1. CASE rows'[k] = rows[k]
      BY <1>1, <2>1 DEF RowStep, SameClaimColumns
    <2>2. ASSUME NEW b \in BOOLEAN,
                 \/ rows'[k] = [rows[k] EXCEPT !.paused = b]
                 \/ rows'[k] = [rows[k] EXCEPT !.backoff = FALSE]
          PROVE  RowStep(k) /\ rows'[k].id < nextId
      <3>1. ASSUME rows'[k] = [rows[k] EXCEPT !.paused = b] PROVE SameClaimColumns(k)
        BY ONLY <1>1, <3>1, OperatedColumns DEF SameClaimColumns
      <3>2. ASSUME rows'[k] = [rows[k] EXCEPT !.backoff = FALSE] PROVE SameClaimColumns(k)
        BY ONLY <1>1, <3>2, OperatedColumns DEF SameClaimColumns
      <3> QED
        BY <1>1, <2>2, <3>1, <3>2 DEF RowStep, SameClaimColumns
    <2>3. CASE rows'[k] = CancelledRow(rows[k])
      <3>1. rows'[k].id = rows[k].id /\ rows'[k].gen = rows[k].gen /\ rows'[k].status = "skipped"
        BY ONLY <1>1, <2>3, OperatedColumns
      <3> QED
        BY <1>1, <3>1 DEF RowStep
    <2>4. CASE rows[k].status = "failed" /\ rows'[k] = RetriedRow(rows[k])
      <3>1. rows'[k].id = rows[k].id /\ rows'[k].gen = rows[k].gen /\ rows'[k].status = "pending"
        BY ONLY <1>1, <2>4, OperatedColumns
      <3> QED
        BY <1>1, <2>4, <3>1 DEF RowStep
    <2>5. CASE rows'[k] = NoRow
      <3>1. rows'[k].id = 0 /\ rows'[k].status = "completed"
        BY <2>5 DEF NoRow
      <3> QED
        BY <1>1, <3>1 DEF RowStep
    <2>6. TRUE \in BOOLEAN
      OBVIOUS
    <2> QED
      BY <1>3, <2>1, <2>2, <2>3, <2>4, <2>5, <2>6
  <1> QED
    BY <1>1, <1>2, <1>4, RowsMove

\* Refresh: another attachment gets a generation of its own; the claim stays.
LEMMA RefreshClaims ==
    ASSUME TypeOK, TypeOK', ClaimInv, NEW w \in Workers, NEW m \in Messages,
           Refresh(w, m.version, m.identity)
    PROVE  /\ ClaimInv' /\ ClaimKept(w) /\ \A v \in Workers : v # w => worker'[v] = worker[v]
           /\ rows'[worker[w].key].status = rows[worker[w].key].status
  <1> USE DEF queueVars, runVars, ghostVars
  <1> DEFINE k == worker[w].key
  <1>1. /\ k \in Keys /\ Busy(w) /\ worker \in [Workers -> TypedWorker] /\ worker[w] \in TypedWorker
        /\ rows \in [Keys -> TypedRow] /\ rows[k] \in TypedRow /\ rows[k].gen \in Nat
        /\ nextId \in Nat
        /\ \A j \in Keys : rows[j].id < nextId
    BY Typed, QueueAssumption DEF Refresh, Busy, TypeOK, ClaimInv, QueueAssumption
  <1>2. /\ UNCHANGED <<nextId, run>> /\ run # "down"
        /\ \A v \in Workers : v # w => worker'[v] = worker[v]
    BY <1>1 DEF Refresh, ClaimInv, Busy
  <1>3. ClaimKept(w)
    <2>1. CASE worker'[w] = [worker[w] EXCEPT !.phase = "transfer"]
      <3>1. /\ worker'[w].phase = "transfer" /\ worker'[w].key = worker[w].key
            /\ worker'[w].id = worker[w].id /\ worker'[w].gen = worker[w].gen
        BY ONLY <1>1, <2>1, WorkerShapes
      <3> QED
        BY <1>1, <3>1 DEF ClaimKept, Busy
    <2>2. CASE worker'[w] = [worker[w] EXCEPT !.phase = "ending", !.result = "error", !.cancelled = TRUE]
      <3>1. /\ worker'[w].phase = "ending" /\ worker'[w].key = worker[w].key
            /\ worker'[w].id = worker[w].id /\ worker'[w].gen = worker[w].gen
        BY ONLY <1>1, <2>2, WorkerShapes
      <3> QED
        BY <1>1, <3>1 DEF ClaimKept, Busy
    <2> QED
      BY <1>1, <2>1, <2>2 DEF Refresh
  <1>4. RowStep(k) /\ rows'[k].id = rows[k].id /\ rows'[k].status = rows[k].status
    <2> DEFINE g == IF m.identity # rows[k].identity THEN rows[k].gen + 1 ELSE rows[k].gen
               n == IF m.identity # rows[k].identity THEN 0 ELSE rows[k].attempts
               x == Larger(rows[k].version, m.version)
    <2>1. \/ rows'[k] = rows[k]
          \/ rows'[k] = [rows[k] EXCEPT !.gen = g, !.attempts = n, !.version = x,
                                       !.identity = m.identity, !.body = TRUE, !.refresh = FALSE]
      BY <1>1 DEF Refresh
    <2>2. g = rows[k].gen \/ g > rows[k].gen
      BY <1>1
    <2>3. ASSUME rows'[k] = [rows[k] EXCEPT !.gen = g, !.attempts = n, !.version = x,
                                         !.identity = m.identity, !.body = TRUE, !.refresh = FALSE]
          PROVE  /\ rows'[k].id = rows[k].id /\ rows'[k].gen = g
                 /\ rows'[k].status = rows[k].status /\ rows'[k].claim = rows[k].claim
      <3> HIDE DEF g, n, x, k
      <3> QED
        BY ONLY <1>1, <2>3, RefreshedColumns
    <2> QED
      BY <2>1, <2>2, <2>3 DEF RowStep, SameClaimColumns
  <1>5. \A j \in Keys : j # k => rows'[j] = rows[j]
    BY <1>1 DEF Refresh
  <1>6. ASSUME NEW j \in Keys PROVE RowStep(j) /\ rows'[j].id < nextId'
    <2>1. CASE j # k
      BY <1>1, <1>2, <1>5, <2>1 DEF RowStep, SameClaimColumns
    <2>2. CASE j = k
      BY <1>1, <1>2, <1>4, <2>2
    <2> QED
      BY <2>1, <2>2
  <1>7. SameClaims
    BY <1>2, <1>3 DEF SameClaims, ClaimKept, Busy, ClaimOf
  <1>8. \A v \in Workers : Busy(v) /\ HoldsClaim(v) => Busy(v)'
    BY <1>2, <1>3 DEF ClaimKept, Busy
  <1>9. nextId' >= nextId
    BY <1>1, <1>2
  <1> QED
    BY <1>2, <1>3, <1>4, <1>6, <1>7, <1>8, <1>9, KeptClaims

\* A pending row belongs to nobody, so claiming it makes no second owner.
LEMMA PendingUnowned ==
    ASSUME TypeOK, ClaimInv, NEW k \in Keys, rows[k].status = "pending",
           NEW w \in Workers, Busy(w), worker[w].key = k, worker[w].id = rows[k].id
    PROVE  worker[w].gen < rows[k].gen
  <1>1. worker[w].gen \in Nat /\ rows[k].gen \in Nat /\ ClaimFits(w)
    BY Typed DEF ClaimInv
  <1> QED
    BY <1>1 DEF ClaimFits

\* Claim takes the row and becomes its only owner; a lost claim takes it for nobody.
LEMMA ClaimClaims ==
    ASSUME TypeOK, TypeOK', ClaimInv, NEW w \in Workers, Claim(w) \/ ClaimLost(w)
    PROVE  ClaimInv'
  <1> USE DEF queueVars, runVars, ghostVars
  <1>1. PICK k \in Keys : /\ rows[k].status = "pending" /\ ClaimRow(k)
                          /\ \/ /\ Claim(w)
                                /\ worker'[w].phase = "claimed" /\ worker'[w].key = k
                                /\ worker'[w].id = rows[k].id /\ worker'[w].gen = rows[k].gen
                             \/ ClaimLost(w) /\ worker'[w].phase = "idle"
    <2>1. worker \in [Workers -> TypedWorker]
      BY DEF TypeOK
    <2>2. CASE Claim(w)
      <3>1. PICK k \in Keys :
              /\ FirstEligible(k, worker[w].manual)
              /\ ClaimRow(k)
              /\ worker'[w] =
                   [IdleWorker EXCEPT !.phase = "claimed", !.key = k, !.id = rows[k].id,
                                      !.gen = rows[k].gen, !.attempts = rows[k].attempts + 1,
                                      !.account = rows[k].account,
                                      !.origin = rows[k].origin, !.force = rows[k].refresh]
        BY <2>1, <2>2 DEF Claim
      <3>2. /\ worker'[w].phase = "claimed" /\ worker'[w].key = k
            /\ worker'[w].id = rows[k].id /\ worker'[w].gen = rows[k].gen
        BY <3>1 DEF IdleWorker
      <3> QED
        BY <2>2, <3>1, <3>2 DEF FirstEligible, Eligible
    <2>3. CASE ClaimLost(w)
      BY <2>1, <2>3 DEF ClaimLost, FirstEligible, Eligible, IdleWorker
    <2> QED
      BY <2>2, <2>3
  <1>2. /\ \A v \in Workers : v # w => worker'[v] = worker[v]
        /\ ~Busy(w)
        /\ UNCHANGED <<nextId, run>>
        /\ \A j \in Keys : j # k => rows'[j] = rows[j]
        /\ run # "down"
    <2>1. worker \in [Workers -> TypedWorker] /\ rows \in [Keys -> TypedRow]
      BY DEF TypeOK
    <2> QED
      BY <1>1, <2>1 DEF Claim, ClaimLost, ClaimRow, Busy
  <1>3. /\ rows'[k].id = rows[k].id /\ rows'[k].gen = rows[k].gen
        /\ rows'[k].status = "processing" /\ rows'[k].claim = rows[k].gen
    <2>1. rows \in [Keys -> TypedRow] /\ rows[k] \in TypedRow
      BY Typed DEF TypeOK
    <2>2. rows'[k] = [rows[k] EXCEPT !.status = "processing", !.claim = rows[k].gen,
                                     !.attempts = rows[k].attempts + 1]
      BY <1>1, <2>1 DEF ClaimRow
    <2> QED
      BY ONLY <2>1, <2>2, ClaimedColumns
  <1>4. \A j \in Keys : rows'[j].id < nextId'
    BY <1>2, <1>3 DEF ClaimInv
  <1>5. ASSUME NEW v \in Workers, Busy(v)' PROVE worker'[v].id < nextId' /\ ClaimFits(v)'
    <2>1. CASE v = w
      <3>1. worker'[w].key = k /\ worker'[w].id = rows[k].id /\ worker'[w].gen = rows[k].gen
        BY <1>1, <1>5, <2>1 DEF Busy
      <3>2. rows[k].gen \in Nat /\ rows[k].id < nextId
        BY Typed DEF ClaimInv
      <3> QED
        BY <1>2, <1>3, <2>1, <3>1, <3>2 DEF ClaimFits
    <2>2. CASE v # w
      <3>1. worker'[v] = worker[v] /\ Busy(v) /\ worker[v].id < nextId /\ ClaimFits(v)
        BY <1>2, <1>5, <2>2 DEF ClaimInv, Busy
      <3>2. CASE worker[v].key # k
        <4>1. worker[v].key \in Keys
          BY <3>1, Typed DEF Busy
        <4>2. rows'[worker[v].key] = rows[worker[v].key]
          BY <1>2, <3>2, <4>1
        <4> QED
          BY <1>2, <3>1, <4>2 DEF ClaimFits
      <3>3. CASE worker[v].key = k
        <4>1. worker[v].id = rows[k].id => worker[v].gen < rows[k].gen
          BY <1>1, <3>1, <3>3, PendingUnowned
        <4>2. worker[v].gen \in Nat /\ rows[k].gen \in Nat
          BY Typed
        <4> QED
          BY <1>2, <1>3, <3>1, <3>3, <4>1, <4>2 DEF ClaimFits
      <3> QED
        BY <3>2, <3>3
    <2> QED
      BY <2>1, <2>2
  <1>6. ASSUME NEW v \in Workers, v # w, Busy(v)', Busy(w)', (ClaimOf(v) = ClaimOf(w))'
        PROVE  FALSE
    <2>1. Busy(v) /\ worker[v].key = k /\ worker[v].id = rows[k].id /\ worker[v].gen = rows[k].gen
      BY <1>1, <1>2, <1>6 DEF Busy, ClaimOf
    <2>2. worker[v].gen < rows[k].gen
      BY <1>1, <2>1, PendingUnowned
    <2>3. rows[k].gen \in Nat
      BY Typed
    <2> QED
      BY <2>1, <2>2, <2>3
  <1>7. \A v, u \in Workers : (Busy(v) /\ Busy(u) /\ ClaimOf(v) = ClaimOf(u))' => v = u
    <2> SUFFICES ASSUME NEW v \in Workers, NEW u \in Workers, Busy(v)', Busy(u)',
                        (ClaimOf(v) = ClaimOf(u))', v # u
                 PROVE  FALSE
      OBVIOUS
    <2>1. v # w /\ u # w
      BY <1>6 DEF ClaimOf
    <2> QED
      BY <1>2, <2>1 DEF ClaimInv, Busy, ClaimOf
  <1>8. NoOrphanClaim'
    <2> SUFFICES ASSUME run' = "up", NEW j \in Keys, rows'[j].status = "processing"
                 PROVE  \E v \in Workers : (Busy(v) /\ worker[v].key = j /\ HoldsClaim(v))'
      BY DEF NoOrphanClaim
    <2>1. CASE j = k
      <3>1. Claim(w)
        BY <1>1, <1>2 DEF ClaimLost
      <3>2. (Busy(w) /\ worker[w].key = j /\ HoldsClaim(w))'
        BY <1>1, <1>2, <1>3, <2>1, <3>1 DEF ClaimLost, Busy, HoldsClaim
      <3> QED
        BY <3>2
    <2>2. CASE j # k
      <3>1. PICK v \in Workers : Busy(v) /\ worker[v].key = j /\ HoldsClaim(v)
        BY <1>2, <2>2 DEF ClaimInv, NoOrphanClaim
      <3>2. v # w /\ worker'[v] = worker[v] /\ rows'[j] = rows[j]
        BY <1>2, <2>2, <3>1
      <3>3. (Busy(v) /\ worker[v].key = j /\ HoldsClaim(v))'
        BY <3>1, <3>2 DEF Busy, HoldsClaim
      <3> QED
        BY <3>3
    <2> QED
      BY <2>1, <2>2
  <1> QED
    BY <1>2, <1>4, <1>5, <1>7, <1>8 DEF ClaimInv

\* Finish gives the row back, unless the claim was lost, and forgets the claim.
LEMMA FinishClaims ==
    ASSUME TypeOK, TypeOK', ClaimInv, NEW w \in Workers, Finish(w)
    PROVE  ClaimInv'
  <1> USE DEF queueVars, runVars, ghostVars
  <1> DEFINE k == worker[w].key
  <1>1. /\ k \in Keys /\ Busy(w) /\ worker \in [Workers -> TypedWorker]
        /\ rows \in [Keys -> TypedRow] /\ rows[k] \in TypedRow /\ rows[k].gen \in Nat
        /\ worker[w].id \in Ids /\ worker[w].gen \in Nat
    BY Typed DEF Finish, Busy, TypeOK
  <1>2. /\ UNCHANGED <<nextId, run>> /\ run # "down"
        /\ \A v \in Workers : v # w => worker'[v] = worker[v]
        /\ worker'[w].phase = "idle"
        /\ \A j \in Keys : j # k => rows'[j] = rows[j]
        /\ ~HoldsClaim(w) => rows' = rows
    BY <1>1 DEF Finish, ClaimInv, IdleWorker, Busy
  <1>3. HoldsClaim(w) => /\ rows'[k].id = rows[k].id /\ rows'[k].gen = rows[k].gen
                         /\ rows'[k].status # "processing"
    <2> SUFFICES ASSUME HoldsClaim(w)
                 PROVE  /\ rows'[k].id = rows[k].id /\ rows'[k].gen = rows[k].gen
                        /\ rows'[k].status # "processing"
      OBVIOUS
    <2>1. rows'[k] = FinishedRow(rows[k], w)
      BY <1>1 DEF Finish
    <2>2. FinalStatus(w) # "processing"
      BY <1>1, FinishedRowTyped
    <2> QED
      BY <1>1, <2>1, <2>2, FinishedColumns
  <1>4. ASSUME NEW v \in Workers, v # w, Busy(v)
        PROVE  worker[v].id < nextId /\ ClaimFits(v)'
    <2>1. worker[v].id < nextId /\ ClaimFits(v) /\ worker[v].key \in Keys /\ worker[v].gen \in Nat
      BY <1>4, Typed DEF ClaimInv, Busy
    <2>2. worker'[v] = worker[v]
      BY <1>2, <1>4
    <2>3. CASE ~HoldsClaim(w) \/ worker[v].key # k
      <3>1. rows'[worker[v].key] = rows[worker[v].key]
        BY <1>2, <2>1, <2>3
      <3> QED
        BY <2>1, <2>2, <3>1 DEF ClaimFits
    <2>4. CASE HoldsClaim(w) /\ worker[v].key = k
      <3>1. ClaimOf(v) # ClaimOf(w)
        BY <1>1, <1>4 DEF ClaimInv
      <3>2. ~(worker[v].id = rows[k].id /\ worker[v].gen = rows[k].gen)
        BY <2>1, <2>4, <3>1 DEF ClaimFits, HoldsClaim, ClaimOf
      <3> QED
        BY <1>3, <2>1, <2>2, <2>4, <3>2 DEF ClaimFits
    <2> QED
      BY <2>1, <2>3, <2>4
  <1>5. \A j \in Keys : rows'[j].id < nextId'
    BY <1>2, <1>3 DEF ClaimInv
  <1>6. NoOrphanClaim'
    <2> SUFFICES ASSUME run' = "up", NEW j \in Keys, rows'[j].status = "processing"
                 PROVE  \E v \in Workers : (Busy(v) /\ worker[v].key = j /\ HoldsClaim(v))'
      BY DEF NoOrphanClaim
    <2>1. rows'[j] = rows[j]
      BY <1>2, <1>3
    <2>2. PICK v \in Workers : Busy(v) /\ worker[v].key = j /\ HoldsClaim(v)
      BY <1>2, <2>1 DEF ClaimInv, NoOrphanClaim
    <2>3. v # w
      BY <1>3, <2>1, <2>2 DEF HoldsClaim
    <2>4. (Busy(v) /\ worker[v].key = j /\ HoldsClaim(v))'
      BY <1>2, <2>1, <2>2, <2>3 DEF Busy, HoldsClaim
    <2> QED
      BY <2>4
  <1>7. \A v \in Workers : Busy(v)' => v # w /\ Busy(v) /\ worker'[v] = worker[v]
    BY <1>2 DEF Busy
  <1>8. \A v, u \in Workers : (Busy(v) /\ Busy(u) /\ ClaimOf(v) = ClaimOf(u))' => v = u
    BY <1>7 DEF ClaimInv, ClaimOf
  <1> QED
    BY <1>2, <1>4, <1>5, <1>6, <1>7, <1>8 DEF ClaimInv

\* Recover and ReassignGroup run while there is no worker.
LEMMA StoppedClaims ==
    ASSUME TypeOK, TypeOK', ClaimInv,
           \/ \E obs \in BOOLEAN : Start(obs)
           \/ \E k \in Keys, a \in Accounts : Reassign(k, a)
    PROVE  ClaimInv'
  <1> USE DEF queueVars, runVars, ghostVars
  <1>1. /\ UNCHANGED <<worker, nextId>> /\ \A w \in Workers : worker[w].phase = "idle"
        /\ rows \in [Keys -> TypedRow] /\ \A k \in Keys : rows[k] \in TypedRow
    BY Typed DEF Start, Reassign, ClaimInv, TypeOK
  <1>2. \A w \in Workers : ~Busy(w)'
    BY <1>1 DEF Busy
  <1>3. ASSUME NEW obs \in BOOLEAN, Start(obs) PROVE ClaimInv'
    <2>1. ASSUME NEW k \in Keys PROVE rows'[k].id = rows[k].id /\ rows'[k].status # "processing"
      <3>1. CASE rows[k].status = "processing"
        <4>1. rows'[k] = [rows[k] EXCEPT !.status = "pending", !.claim = 0]
          BY <1>3, <3>1 DEF Start
        <4> QED
          BY ONLY k \in Keys, <1>1, <4>1, OperatedColumns
      <3>2. CASE rows[k].status # "processing"
        BY <1>3, <3>2 DEF Start
      <3> QED
        BY <3>1, <3>2
    <2>2. run' = "up"
      BY <1>3 DEF Start
    <2>3. \A k \in Keys : rows'[k].id < nextId'
      BY <1>1, <2>1 DEF ClaimInv
    <2>4. NoOrphanClaim'
      BY <2>1 DEF NoOrphanClaim
    <2> QED
      BY <1>2, <2>2, <2>3, <2>4 DEF ClaimInv
  <1>4. ASSUME NEW k \in Keys, NEW a \in Accounts, Reassign(k, a) PROVE ClaimInv'
    <2>1. rows'[k].id = rows[k].id /\ \A j \in Keys : j # k => rows'[j] = rows[j]
      BY <1>1, <1>4, ReassignStep
    <2>2. run' = "down"
      BY <1>4 DEF Reassign
    <2>3. \A j \in Keys : rows'[j].id < nextId'
      BY <1>1, <2>1 DEF ClaimInv
    <2> QED
      BY <1>1, <1>2, <2>2, <2>3 DEF ClaimInv, NoOrphanClaim
  <1> QED
    BY <1>3, <1>4

\* ClaimInv holds whatever the interleaving.
LEMMA ClaimsInvariant == Spec => []ClaimInv
  <1>1. Init => ClaimInv
    BY DEF Init, ClaimInv, NoRow, IdleWorker, Busy, NoOrphanClaim
  <1>2. TypeOK /\ TypeOK' /\ ClaimInv /\ [Next]_vars => ClaimInv'
    <2> SUFFICES ASSUME TypeOK, TypeOK', ClaimInv, [Next]_vars PROVE ClaimInv'
      OBVIOUS
    <2>1. CASE UNCHANGED vars
      BY <2>1 DEF vars, ClaimInv, ClaimFits, ClaimOf, Busy, NoOrphanClaim, HoldsClaim
    <2>2. ASSUME NEW w \in Workers, WorkerStep(w) PROVE ClaimInv'
      BY <2>2, BusyStepClaims, RunStepClaims, RefreshClaims, ClaimClaims, FinishClaims DEF WorkerProgress, WorkerStep
    <2>3. CASE Lifecycle
      BY <2>3, RunStepClaims, StoppedClaims DEF Lifecycle
    <2> QED
      BY <2>1, <2>2, <2>3, EnqueueClaims, OperatorClaims, RunStepClaims DEF Next
  <1> QED
    BY <1>1, <1>2, TypeCorrect, PTL DEF Spec

\* Two workers never hold the claim of one row, whatever is accepted, cancelled,
\* retried, dismissed or restarted meanwhile (Claim, Finish and Recover, engine/work.go).
THEOREM ClaimsExclusive == Spec => []OneClaimOwner
  <1>1. TypeOK /\ ClaimInv => OneClaimOwner
    BY DEF ClaimInv, OneClaimOwner, HoldsClaim, ClaimOf
  <1> QED
    BY <1>1, TypeCorrect, ClaimsInvariant, PTL

\* While the engine runs, no processing row is without the worker that will
\* finish it (engine/controller.go, worker).
THEOREM ClaimsNeverOrphaned == Spec => []NoOrphanClaim
  <1>1. ClaimInv => NoOrphanClaim
    BY DEF ClaimInv
  <1> QED
    BY <1>1, ClaimsInvariant, PTL

-----------------------------------------------------------------------------
(* What is acknowledged was stored.                                        *)

Reported(w) == worker[w].phase \in {"ending", "finishing"} /\ worker[w].result = "ok"

\* No row becomes completed, and no worker reports success, without the sink.
LEMMA StoredKept ==
    ASSUME StoredInv, stored \subseteq stored',
           \A k \in Keys : rows'[k].status = "completed" =>
              \/ rows'[k].id = 0
              \/ /\ rows[k].status = "completed"
                 /\ rows'[k].id = rows[k].id /\ rows'[k].gen = rows[k].gen
              \/ <<rows'[k].id, rows'[k].gen>> \in stored,
           \A w \in Workers : Reported(w)' =>
              \/ Reported(w) /\ worker'[w].id = worker[w].id /\ worker'[w].gen = worker[w].gen
              \/ <<worker'[w].id, worker'[w].gen>> \in stored'
    PROVE  StoredInv'
  <1>1. CompletedIsStored'
    BY DEF StoredInv, CompletedIsStored, Exists
  <1>2. ASSUME NEW w \in Workers, Reported(w)' PROVE (<<worker[w].id, worker[w].gen>> \in stored)'
    BY <1>2 DEF StoredInv, Reported
  <1> QED
    BY <1>1, <1>2 DEF StoredInv, Reported

\* The steps of a worker.
LEMMA WorkerStored ==
    ASSUME TypeOK, TypeOK', ClaimInv, StoredInv, NEW w \in Workers, WorkerStep(w)
    PROVE  StoredInv'
  <1> USE DEF queueVars, runVars, ghostVars
  <1>1. /\ worker \in [Workers -> TypedWorker] /\ rows \in [Keys -> TypedRow]
        /\ \A k \in Keys : rows[k] \in TypedRow
        /\ worker[w] \in TypedWorker
    BY Typed DEF TypeOK
  <1>2. \A v \in Workers : v # w => worker'[v] = worker[v]
    <2>1. CASE Claim(w)
      BY <1>1, <2>1 DEF Claim
    <2> QED
      BY <1>1, <2>1, BusyStepClaims, RefreshClaims DEF WorkerProgress, WorkerStep, Poll, ClaimNothing, ClaimLost, Finish
  <1>3. ASSUME UNCHANGED rows, stored \subseteq stored',
               Reported(w)' => \/ /\ Reported(w)
                                  /\ worker'[w].id = worker[w].id /\ worker'[w].gen = worker[w].gen
                               \/ <<worker'[w].id, worker'[w].gen>> \in stored'
        PROVE  StoredInv'
    BY <1>2, <1>3, StoredKept DEF Reported
  <1>4. CASE Poll(w) \/ ClaimNothing(w)
    <2>1. CASE Poll(w)
      <3>1. worker'[w] = [worker[w] EXCEPT !.phase = "polled", !.manual = ~observing]
        BY <1>1, <2>1 DEF Poll
      <3>2. worker'[w].phase = "polled"
        BY ONLY <1>1, <3>1, WorkerShapes
      <3> QED
        BY <1>3, <2>1, <3>2 DEF Poll, Reported
    <2>2. CASE ClaimNothing(w)
      <3>1. worker'[w].phase = "idle"
        BY <1>1, <2>2 DEF ClaimNothing, IdleWorker
      <3> QED
        BY <1>3, <2>2, <3>1 DEF ClaimNothing, Reported
    <2> QED
      BY <1>4, <2>1, <2>2
  <1>5. CASE Claim(w) \/ ClaimLost(w)
    <2>1. PICK k \in Keys : ClaimRow(k)
      BY <1>5 DEF Claim, ClaimLost
    <2>2. worker'[w].phase \in {"claimed", "idle"} /\ UNCHANGED stored
      <3>1. CASE Claim(w)
        BY <1>1, <3>1 DEF Claim, IdleWorker
      <3>2. CASE ClaimLost(w)
        BY <1>1, <3>2 DEF ClaimLost, IdleWorker
      <3> QED
        BY <1>5, <3>1, <3>2
    <2>3. rows'[k] = [rows[k] EXCEPT !.status = "processing", !.claim = rows[k].gen,
                                     !.attempts = rows[k].attempts + 1]
      BY <1>1, <2>1 DEF ClaimRow
    <2>4. rows'[k].status = "processing"
      BY ONLY <1>1, <2>3, ClaimedColumns
    <2>5. \A j \in Keys : j # k => rows'[j] = rows[j]
      BY <1>1, <2>1 DEF ClaimRow
    <2> QED
      BY <1>2, <2>2, <2>4, <2>5, StoredKept DEF Reported
  <1>6. CASE Register(w)
    <2>1. PICK c : worker'[w] = [worker[w] EXCEPT !.phase = "registered", !.cancelled = c]
      BY <1>1, <1>6 DEF Register
    <2>2. worker'[w].phase = "registered"
      BY ONLY <1>1, <2>1, WorkerShapes
    <2> QED
      BY <1>3, <1>6, <2>2 DEF Register, Reported
  <1>7. CASE CheckCurrent(w)
    <2>1. \/ worker'[w] = [worker[w] EXCEPT !.phase = "ending", !.result = "error"]
          \/ worker'[w] = [worker[w] EXCEPT !.phase = "checked"]
          \/ worker'[w] = [worker[w] EXCEPT !.phase = "ending", !.result = "error", !.cancelled = TRUE]
      BY <1>1, <1>7 DEF CheckCurrent
    <2>2. CASE worker'[w] = [worker[w] EXCEPT !.phase = "ending", !.result = "error"]
      <3>1. worker'[w].result = "error"
        BY ONLY <1>1, <2>2, WorkerShapes
      <3> QED
        BY <1>3, <1>7, <3>1 DEF CheckCurrent, Reported
    <2>3. CASE worker'[w] = [worker[w] EXCEPT !.phase = "checked"]
      <3>1. worker'[w].phase = "checked"
        BY ONLY <1>1, <2>3, WorkerShapes
      <3> QED
        BY <1>3, <1>7, <3>1 DEF CheckCurrent, Reported
    <2>4. CASE worker'[w] = [worker[w] EXCEPT !.phase = "ending", !.result = "error", !.cancelled = TRUE]
      <3>1. worker'[w].result = "error"
        BY ONLY <1>1, <2>4, WorkerShapes
      <3> QED
        BY <1>3, <1>7, <3>1 DEF CheckCurrent, Reported
    <2> QED
      BY <2>1, <2>2, <2>3, <2>4
  <1>8. CASE StartTransfer(w)
    <2>1. worker'[w] = [worker[w] EXCEPT !.phase = "transfer"]
      BY <1>1, <1>8 DEF StartTransfer
    <2>2. worker'[w].phase = "transfer"
      BY ONLY <1>1, <2>1, WorkerShapes
    <2> QED
      BY <1>3, <1>8, <2>2 DEF StartTransfer, Reported
  <1>9. ASSUME NEW res, EndAttempt(w, res)
        PROVE  worker'[w].id = worker[w].id /\ worker'[w].gen = worker[w].gen /\ worker'[w].result = res
    <2>1. worker'[w] = [worker[w] EXCEPT !.phase = "ending", !.result = res]
      BY <1>1, <1>9 DEF EndAttempt
    <2> QED
      BY ONLY <1>1, <2>1, WorkerShapes
  <1>10. ASSUME NEW res \in {"ok", "error", "flood", "filtered"}, RefreshFailed(w, res) PROVE StoredInv'
    <2>1. worker'[w].result # "ok"
      BY <1>9, <1>10 DEF RefreshFailed
    <2> QED
      BY <1>3, <1>10, <2>1 DEF RefreshFailed, Reported
  <1>11. ASSUME NEW res \in {"ok", "error", "flood", "filtered"}, EndTransfer(w, res) PROVE StoredInv'
    <2>1. /\ worker'[w].id = worker[w].id /\ worker'[w].gen = worker[w].gen /\ worker'[w].result = res
          /\ UNCHANGED rows
          /\ stored' = IF res = "ok" THEN stored \cup {<<worker[w].id, worker[w].gen>>} ELSE stored
      BY <1>9, <1>11 DEF EndTransfer
    <2> QED
      BY <1>3, <2>1 DEF Reported
  <1>12. ASSUME NEW m \in Messages, Refresh(w, m.version, m.identity) PROVE StoredInv'
    <2> DEFINE k == worker[w].key
    <2>1. k \in Keys /\ UNCHANGED stored
      BY <1>12, Typed DEF Refresh
    <2>2. worker'[w].phase = "transfer" \/ worker'[w].result = "error"
      <3>1. CASE worker'[w] = [worker[w] EXCEPT !.phase = "transfer"]
        BY ONLY <1>1, <3>1, WorkerShapes
      <3>2. CASE worker'[w] = [worker[w] EXCEPT !.phase = "ending", !.result = "error", !.cancelled = TRUE]
        BY ONLY <1>1, <3>2, WorkerShapes
      <3> QED
        BY <1>1, <1>12, <3>1, <3>2 DEF Refresh
    <2>3. rows' = rows \/ (rows[k].status = "processing" /\ rows'[k].status = "processing")
      <3>1. rows' # rows => rows[k].status = "processing"
        BY <1>12 DEF Refresh, HoldsClaim
      <3> QED
        BY <1>12, <3>1, RefreshClaims
    <2>4. \A j \in Keys : j # k => rows'[j] = rows[j]
      BY <1>1, <1>12 DEF Refresh
    <2>5. \A v \in Workers : Reported(v)' => Reported(v) /\ worker'[v] = worker[v]
      BY <1>2, <2>2 DEF Reported
    <2> HIDE DEF k
    <2> QED
      BY <2>1, <2>3, <2>4, <2>5, StoredKept
  <1>13. CASE Unregister(w)
    <2>1. /\ worker'[w].id = worker[w].id /\ worker'[w].gen = worker[w].gen
          /\ worker'[w].result = worker[w].result /\ worker[w].phase = "ending"
          /\ UNCHANGED <<rows, stored>>
      BY <1>1, <1>13 DEF Unregister, IdleWorker
    <2> QED
      BY <1>3, <2>1 DEF Reported
  <1>14. CASE Finish(w)
    <2> DEFINE k == worker[w].key
    <2>1. k \in Keys /\ worker'[w].phase = "idle" /\ UNCHANGED stored /\ worker[w].phase = "finishing"
      BY <1>1, <1>14, Typed DEF Finish, IdleWorker
    <2>2. \A j \in Keys : j # k => rows'[j] = rows[j]
      BY <1>1, <1>14 DEF Finish
    <2>3. CASE ~HoldsClaim(w)
      BY <1>3, <1>14, <2>1, <2>3 DEF Finish, Reported
    <2>4. CASE HoldsClaim(w)
      <3>1. /\ rows'[k].id = rows[k].id /\ rows'[k].gen = rows[k].gen
            /\ rows'[k].status = IF rows[k].gen # worker[w].gen THEN "pending" ELSE FinalStatus(w)
        BY <1>1, <1>14, <2>1, <2>4, FinishedColumns DEF Finish
      <3>2. rows'[k].status = "completed" => rows[k].gen = worker[w].gen /\ Reported(w)
        BY <2>1, <3>1 DEF FinalStatus, Reported
      <3>3. rows'[k].status = "completed" => <<rows'[k].id, rows'[k].gen>> \in stored
        BY <2>4, <3>1, <3>2 DEF StoredInv, Reported, HoldsClaim
      <3>4. \A v \in Workers : Reported(v)' => Reported(v) /\ worker'[v] = worker[v]
        BY <1>2, <2>1 DEF Reported
      <3> HIDE DEF k
      <3> QED
        BY <2>1, <2>2, <3>3, <3>4, StoredKept
    <2> QED
      BY <2>3, <2>4
  <1> QED
    BY <1>4, <1>5, <1>6, <1>7, <1>8, <1>10, <1>11, <1>12, <1>13, <1>14 DEF WorkerProgress, WorkerStep

\* Enqueues, queue operations and timers complete nothing.
LEMMA RowsStored ==
    ASSUME TypeOK, StoredInv,
           \/ \E k \in Keys, m \in Messages : Enqueue(k, m)
           \/ Operator
           \/ \E k \in Keys : BackoffEnds(k)
           \/ \E obs \in BOOLEAN : Start(obs)
           \/ \E k \in Keys, a \in Accounts : Reassign(k, a)
    PROVE  StoredInv'
  <1> USE DEF queueVars, runVars, ghostVars
  <1>1. /\ rows \in [Keys -> TypedRow] /\ \A k \in Keys : rows[k] \in TypedRow
    BY Typed DEF TypeOK
  <1>2. UNCHANGED <<worker, stored>>
    BY DEF Enqueue, Operator, SetQueuePaused, PauseJob, CancelAllQueued, CancelJob, RetryJobs,
           DeleteFinished, BackoffEnds, Start, Reassign
  <1>3. ASSUME NEW k \in Keys
        PROVE  \/ rows'[k].status # "completed"
               \/ rows'[k].id = 0
               \/ /\ rows[k].status = "completed"
                  /\ rows'[k].id = rows[k].id /\ rows'[k].gen = rows[k].gen
    <2> DEFINE Kept == /\ rows'[k].status = rows[k].status
                       /\ rows'[k].id = rows[k].id /\ rows'[k].gen = rows[k].gen
    <2>0. CASE rows'[k] = rows[k]
      BY <2>0
    <2>1. ASSUME NEW j \in Keys, NEW m \in Messages, Enqueue(j, m), rows'[k] # rows[k]
          PROVE  rows'[k].status = "pending" \/ rows'[k].status = "processing" \/ Kept
      <3>1. j = k
        BY <1>1, <2>1 DEF Enqueue
      <3>2. CASE rows'[k] = InsertedRow(k, m)
        BY <3>2 DEF InsertedRow, NoRow
      <3>3. CASE rows'[k] = UpdatedRow(k, m)
        BY <1>1, <3>3, UpdatedColumns
      <3>4. CASE rows'[k] = WatermarkedRow(k, m)
        BY <1>1, <3>4, UpdatedColumns
      <3> QED
        BY <1>1, <2>1, <3>1, <3>2, <3>3, <3>4 DEF Enqueue
    <2>2. ASSUME NEW b \in BOOLEAN, rows'[k] = [rows[k] EXCEPT !.paused = b] PROVE Kept
      BY ONLY <1>1, k \in Keys, <2>2, OperatedColumns
    <2>3. ASSUME rows'[k] = [rows[k] EXCEPT !.backoff = FALSE] PROVE Kept
      BY ONLY <1>1, k \in Keys, <2>3, OperatedColumns
    <2>4. ASSUME rows'[k] = CancelledRow(rows[k]) PROVE rows'[k].status = "skipped"
      BY ONLY <1>1, k \in Keys, <2>4, OperatedColumns
    <2>5. ASSUME rows'[k] = RetriedRow(rows[k]) PROVE rows'[k].status = "pending"
      BY ONLY <1>1, k \in Keys, <2>5, OperatedColumns
    <2>6. ASSUME rows'[k] = NoRow PROVE rows'[k].id = 0
      BY <2>6 DEF NoRow
    <2>7. ASSUME rows'[k] = [rows[k] EXCEPT !.status = "pending", !.claim = 0]
          PROVE  rows'[k].status = "pending"
      BY ONLY <1>1, k \in Keys, <2>7, OperatedColumns
    <2>8. ASSUME NEW b \in BOOLEAN, SetQueuePaused(b)
          PROVE  rows'[k] = rows[k] \/ rows'[k] = [rows[k] EXCEPT !.paused = FALSE]
      BY <2>8 DEF SetQueuePaused
    <2>9. ASSUME NEW b \in BOOLEAN, NEW j \in Keys, PauseJob(j, b)
          PROVE  rows'[k] = rows[k] \/ rows'[k] = [rows[k] EXCEPT !.paused = b]
      BY <1>1, <2>9 DEF PauseJob
    <2>10. ASSUME CancelAllQueued \/ \E j \in Keys : CancelJob(j)
           PROVE  rows'[k] = rows[k] \/ rows'[k] = CancelledRow(rows[k])
      BY <1>1, <2>10 DEF CancelAllQueued, CancelJob
    <2>11. ASSUME NEW ks, RetryJobs(ks) PROVE rows'[k] = rows[k] \/ rows'[k] = RetriedRow(rows[k])
      BY <2>11 DEF RetryJobs
    <2>12. ASSUME NEW ks, DeleteFinished(ks) PROVE rows'[k] = rows[k] \/ rows'[k] = NoRow
      BY <2>12 DEF DeleteFinished
    <2>13. ASSUME NEW j \in Keys, BackoffEnds(j)
           PROVE  rows'[k] = rows[k] \/ rows'[k] = [rows[k] EXCEPT !.backoff = FALSE]
      BY <1>1, <2>13 DEF BackoffEnds
    <2>14. ASSUME NEW obs \in BOOLEAN, Start(obs)
           PROVE  rows'[k] = rows[k] \/ rows'[k] = [rows[k] EXCEPT !.status = "pending", !.claim = 0]
      BY <2>14 DEF Start
    <2>15. ASSUME NEW j \in Keys, NEW a \in Accounts, Reassign(j, a)
           PROVE  rows'[k] = rows[k] \/ rows'[k].status = "pending"
      <3>1. rows'[j].status = "pending" /\ (k # j => rows'[k] = rows[k])
        BY <1>1, <2>15, ReassignStep
      <3> QED
        BY <3>1
    <2>16. TRUE \in BOOLEAN /\ FALSE \in BOOLEAN
      OBVIOUS
    <2>17. CASE Operator
      BY <2>2, <2>4, <2>5, <2>6, <2>8, <2>9, <2>10, <2>11, <2>12, <2>16, <2>17 DEF Operator
    <2> QED
      BY <2>0, <2>1, <2>3, <2>7, <2>13, <2>14, <2>15, <2>17
  <1>4. \A w \in Workers : Reported(w)' =>
          Reported(w) /\ worker'[w].id = worker[w].id /\ worker'[w].gen = worker[w].gen
    BY <1>2 DEF Reported
  <1> QED
    BY <1>2, <1>3, <1>4, StoredKept

\* Signals and the lifetime of the run report nothing.
LEMMA RunStored ==
    ASSUME TypeOK, StoredInv,
           \/ \E s \in signals : Signal(s)
           \/ \E a \in Accounts : FloodWaitEnds(a)
           \/ Promote \/ StopObserving \/ Stop \/ Stopped \/ Crash
    PROVE  StoredInv'
  <1> USE DEF queueVars, runVars, ghostVars
  <1>1. worker \in [Workers -> TypedWorker] /\ \A w \in Workers : worker[w] \in TypedWorker
    BY Typed DEF TypeOK
  <1>2. UNCHANGED <<rows, stored>>
    BY DEF Signal, FloodWaitEnds, Promote, StopObserving, Stop, Stopped, Crash
  <1>3. ASSUME NEW w \in Workers
        PROVE  Reported(w)' => Reported(w) /\ worker'[w].id = worker[w].id /\ worker'[w].gen = worker[w].gen
    <2>1. \/ worker'[w] = worker[w]
          \/ worker'[w] = [worker[w] EXCEPT !.cancelled = TRUE]
          \/ worker'[w] = IdleWorker
      <3>1. ASSUME NEW s \in signals, Signal(s)
            PROVE  worker'[w] = worker[w] \/ worker'[w] = [worker[w] EXCEPT !.cancelled = TRUE]
        BY <1>1, <3>1 DEF Signal
      <3> QED
        BY <3>1 DEF FloodWaitEnds, Promote, StopObserving, Stop, Stopped, Crash, CancelWorkers
    <2>2. CASE worker'[w] = [worker[w] EXCEPT !.cancelled = TRUE]
      <3>1. /\ worker'[w].phase = worker[w].phase /\ worker'[w].id = worker[w].id
            /\ worker'[w].gen = worker[w].gen /\ worker'[w].result = worker[w].result
        BY ONLY <1>1, <2>2, WorkerShapes
      <3> QED
        BY <3>1 DEF Reported
    <2> QED
      BY <2>1, <2>2 DEF Reported, IdleWorker
  <1> QED
    BY <1>2, <1>3, StoredKept

\* A row is completed only if the sink stored the very generation it describes: an
\* edit accepted during a transfer is never acknowledged by it (Finish, engine/work.go).
THEOREM AcknowledgedIsStored == Spec => []CompletedIsStored
  <1>1. Init => StoredInv
    BY DEF Init, StoredInv, CompletedIsStored, Exists, NoRow, IdleWorker
  <1>2. TypeOK /\ TypeOK' /\ ClaimInv /\ StoredInv /\ [Next]_vars => StoredInv'
    <2> SUFFICES ASSUME TypeOK, TypeOK', ClaimInv, StoredInv, [Next]_vars PROVE StoredInv'
      OBVIOUS
    <2>1. CASE UNCHANGED vars
      BY <2>1 DEF vars, StoredInv, CompletedIsStored, Exists
    <2> QED
      BY <2>1, WorkerStored, RowsStored, RunStored DEF Next, Lifecycle
  <1>3. StoredInv => CompletedIsStored
    BY DEF StoredInv
  <1> QED
    BY <1>1, <1>2, <1>3, TypeCorrect, ClaimsInvariant, PTL DEF Spec

-----------------------------------------------------------------------------
(* What a worker keeps while it moves on with its claim.                   *)

\* The fields WorkerShapes leaves out.
LEMMA WorkerRest ==
    ASSUME NEW s \in TypedWorker, NEW p, NEW x, NEW c
    PROVE  /\ LET u == [s EXCEPT !.phase = p]
              IN /\ u.attempts = s.attempts /\ u.origin = s.origin
                 /\ u.cancelled = s.cancelled /\ u.result = s.result
           /\ LET u == [s EXCEPT !.phase = p, !.cancelled = c]
              IN u.attempts = s.attempts /\ u.origin = s.origin /\ u.cancelled = c
           /\ LET u == [s EXCEPT !.phase = p, !.result = x]
              IN u.attempts = s.attempts /\ u.origin = s.origin /\ u.cancelled = s.cancelled
           /\ LET u == [s EXCEPT !.phase = p, !.result = x, !.cancelled = c]
              IN u.attempts = s.attempts /\ u.origin = s.origin /\ u.cancelled = c
           /\ LET u == [s EXCEPT !.cancelled = c]
              IN u.attempts = s.attempts /\ u.origin = s.origin /\ u.cancelled = c
  BY DEF TypedWorker, WorkerState

SameAttempt(w) ==
    /\ worker'[w].key = worker[w].key /\ worker'[w].id = worker[w].id
    /\ worker'[w].gen = worker[w].gen /\ worker'[w].attempts = worker[w].attempts

SameWork(w) == SameAttempt(w) /\ worker'[w].origin = worker[w].origin

\* From Register to the end of the attempt.
Onward(w) ==
    /\ \A v \in Workers : v # w => worker'[v] = worker[v]
    /\ SameWork(w)
    /\ worker[w].cancelled => worker'[w].cancelled
    /\ \/ worker[w].phase = "claimed" /\ worker'[w].phase = "registered"
       \/ worker[w].phase = "registered" /\ worker'[w].phase = "checked" /\ OwnsCurrent(w)
       \/ worker[w].phase = "checked" /\ worker'[w].phase = "transfer"
       \/ /\ worker[w].phase \in {"registered", "checked", "transfer"}
          /\ worker'[w].phase = "ending" /\ worker'[w].result # "none"

LEMMA OnwardSteps ==
    ASSUME TypeOK, NEW w \in Workers,
           \/ Register(w) \/ CheckCurrent(w) \/ StartTransfer(w)
           \/ \E res \in {"ok", "error", "flood", "filtered"} :
                RefreshFailed(w, res) \/ EndTransfer(w, res)
           \/ \E m \in Messages : Refresh(w, m.version, m.identity)
    PROVE  /\ Onward(w)
           /\ Register(w) => (worker'[w].origin = "live" /\ ~worker'[w].cancelled => observing)
  <1> DEFINE s == worker[w]
  <1>1. worker \in [Workers -> TypedWorker] /\ s \in TypedWorker
    BY Typed DEF TypeOK
  <1>2. \A v \in Workers : v # w => worker'[v] = worker[v]
    BY <1>1 DEF Register, CheckCurrent, StartTransfer, RefreshFailed, EndTransfer, EndAttempt, Refresh
  <1>3. ASSUME NEW p, worker'[w] = [s EXCEPT !.phase = p]
        PROVE  /\ worker'[w].phase = p /\ SameWork(w) /\ worker'[w].cancelled = s.cancelled
    <2>1. LET u == worker'[w]
          IN /\ u.phase = p /\ u.key = s.key /\ u.id = s.id /\ u.gen = s.gen
             /\ u.attempts = s.attempts /\ u.origin = s.origin /\ u.cancelled = s.cancelled
      <3> HIDE DEF s
      <3> QED
        BY ONLY <1>1, <1>3, WorkerShapes, WorkerRest
    <2> QED
      BY <2>1 DEF SameWork, SameAttempt
  <1>4. ASSUME NEW p, NEW x, worker'[w] = [s EXCEPT !.phase = p, !.result = x]
        PROVE  /\ worker'[w].phase = p /\ SameWork(w) /\ worker'[w].cancelled = s.cancelled
               /\ worker'[w].result = x
    <2>1. LET u == worker'[w]
          IN /\ u.phase = p /\ u.key = s.key /\ u.id = s.id /\ u.gen = s.gen /\ u.result = x
             /\ u.attempts = s.attempts /\ u.origin = s.origin /\ u.cancelled = s.cancelled
      <3> HIDE DEF s
      <3> QED
        BY ONLY <1>1, <1>4, WorkerShapes, WorkerRest
    <2> QED
      BY <2>1 DEF SameWork, SameAttempt
  <1>5. ASSUME worker'[w] = [s EXCEPT !.phase = "ending", !.result = "error", !.cancelled = TRUE]
        PROVE  /\ worker'[w].phase = "ending" /\ SameWork(w) /\ worker'[w].cancelled = TRUE
               /\ worker'[w].result = "error"
    <2>1. LET u == worker'[w]
          IN /\ u.phase = "ending" /\ u.key = s.key /\ u.id = s.id /\ u.gen = s.gen
             /\ u.result = "error"
             /\ u.attempts = s.attempts /\ u.origin = s.origin /\ u.cancelled = TRUE
      <3> HIDE DEF s
      <3> QED
        BY ONLY <1>1, <1>5, WorkerShapes, WorkerRest
    <2> QED
      BY <2>1 DEF SameWork, SameAttempt
  <1>6. CASE Register(w)
    <2> DEFINE c == s.cancelled \/ run # "up" \/ (s.origin = "live" /\ ~observing)
    <2>1. worker'[w] = [s EXCEPT !.phase = "registered", !.cancelled = c] /\ s.phase = "claimed"
      BY <1>1, <1>6 DEF Register
    <2>2. LET u == worker'[w]
          IN /\ u.phase = "registered" /\ u.key = s.key /\ u.id = s.id /\ u.gen = s.gen
             /\ u.attempts = s.attempts /\ u.origin = s.origin /\ u.cancelled = c
      <3> HIDE DEF s, c
      <3> QED
        BY ONLY <1>1, <2>1, WorkerShapes, WorkerRest
    <2> QED
      BY <1>2, <2>1, <2>2 DEF Onward, SameWork, SameAttempt
  <1>7. CASE CheckCurrent(w)
    <2>1. /\ ~Register(w) /\ s.phase = "registered"
          /\ \/ worker'[w] = [s EXCEPT !.phase = "ending", !.result = "error"]
             \/ worker'[w] = [s EXCEPT !.phase = "checked"] /\ OwnsCurrent(w)
             \/ worker'[w] = [s EXCEPT !.phase = "ending", !.result = "error", !.cancelled = TRUE]
      BY <1>1, <1>7 DEF CheckCurrent, Register
    <2> HIDE DEF s
    <2>2. CASE worker'[w] = [s EXCEPT !.phase = "ending", !.result = "error"]
      <3>1. /\ worker'[w].phase = "ending" /\ SameWork(w) /\ worker'[w].cancelled = s.cancelled
            /\ worker'[w].result = "error"
        BY ONLY <1>4, <2>2
      <3> QED
        BY <1>2, <2>1, <3>1 DEF Onward, s
    <2>3. CASE worker'[w] = [s EXCEPT !.phase = "checked"] /\ OwnsCurrent(w)
      <3>1. worker'[w].phase = "checked" /\ SameWork(w) /\ worker'[w].cancelled = s.cancelled
        BY ONLY <1>3, <2>3
      <3> QED
        BY <1>2, <2>1, <2>3, <3>1 DEF Onward, s
    <2>4. CASE worker'[w] = [s EXCEPT !.phase = "ending", !.result = "error", !.cancelled = TRUE]
      BY <1>2, <1>5, <2>1, <2>4 DEF Onward, s
    <2> QED
      BY <2>1, <2>2, <2>3, <2>4
  <1>8. CASE StartTransfer(w)
    <2>1. ~Register(w) /\ s.phase = "checked" /\ worker'[w] = [s EXCEPT !.phase = "transfer"]
      BY <1>1, <1>8 DEF StartTransfer, Register
    <2> HIDE DEF s
    <2>2. worker'[w].phase = "transfer" /\ SameWork(w) /\ worker'[w].cancelled = s.cancelled
      BY ONLY <1>3, <2>1
    <2> QED
      BY <1>2, <2>1, <2>2 DEF Onward, s
  <1>9. ASSUME NEW res \in {"ok", "error", "flood", "filtered"},
               RefreshFailed(w, res) \/ EndTransfer(w, res)
        PROVE  Onward(w) /\ ~Register(w)
    <2>1. /\ ~Register(w) /\ s.phase \in {"checked", "transfer"}
          /\ worker'[w] = [s EXCEPT !.phase = "ending", !.result = res]
      BY <1>1, <1>9 DEF RefreshFailed, EndTransfer, EndAttempt, Register
    <2> HIDE DEF s
    <2>2. /\ worker'[w].phase = "ending" /\ SameWork(w) /\ worker'[w].cancelled = s.cancelled
          /\ worker'[w].result = res
      BY ONLY <1>4, <2>1
    <2> QED
      BY <1>2, <2>1, <2>2 DEF Onward, s
  <1>10. ASSUME NEW m \in Messages, Refresh(w, m.version, m.identity)
         PROVE  Onward(w) /\ ~Register(w)
    <2>1. /\ ~Register(w) /\ s.phase = "checked"
          /\ \/ worker'[w] = [s EXCEPT !.phase = "transfer"]
             \/ worker'[w] = [s EXCEPT !.phase = "ending", !.result = "error", !.cancelled = TRUE]
      BY <1>1, <1>10 DEF Refresh, Register
    <2> HIDE DEF s
    <2>2. CASE worker'[w] = [s EXCEPT !.phase = "transfer"]
      <3>1. worker'[w].phase = "transfer" /\ SameWork(w) /\ worker'[w].cancelled = s.cancelled
        BY ONLY <1>3, <2>2
      <3> QED
        BY <1>2, <2>1, <3>1 DEF Onward, s
    <2>3. CASE worker'[w] = [s EXCEPT !.phase = "ending", !.result = "error", !.cancelled = TRUE]
      BY <1>2, <1>5, <2>1, <2>3 DEF Onward, s
    <2> QED
      BY <2>1, <2>2, <2>3
  <1> QED
    BY <1>6, <1>7, <1>8, <1>9, <1>10

\* What the lifetime of the run and the signals do to a worker.
LEMMA RunMoves ==
    ASSUME TypeOK, NEW w \in Workers,
           \/ \E s \in signals : Signal(s)
           \/ \E a \in Accounts : FloodWaitEnds(a)
           \/ Promote \/ StopObserving \/ Stop \/ Stopped \/ Crash
    PROVE  \/ worker'[w] = worker[w]
           \/ worker'[w] = [worker[w] EXCEPT !.cancelled = TRUE]
           \/ worker'[w] = IdleWorker
  <1> USE DEF queueVars, runVars, ghostVars
  <1>1. ASSUME NEW s \in signals, Signal(s)
        PROVE  worker'[w] = worker[w] \/ worker'[w] = [worker[w] EXCEPT !.cancelled = TRUE]
    BY <1>1, Typed DEF Signal, TypeOK
  <1> QED
    BY <1>1 DEF FloodWaitEnds, Promote, StopObserving, Stop, Stopped, Crash, CancelWorkers

LEMMA CancelledMoves ==
    ASSUME TypeOK, NEW w \in Workers,
           worker'[w] = worker[w] \/ worker'[w] = [worker[w] EXCEPT !.cancelled = TRUE]
    PROVE  /\ SameWork(w) /\ worker'[w].phase = worker[w].phase /\ worker'[w].result = worker[w].result
           /\ worker[w].cancelled => worker'[w].cancelled
           /\ worker'[w] # worker[w] => worker'[w].cancelled
  <1>1. CASE worker'[w] = [worker[w] EXCEPT !.cancelled = TRUE]
    <2>1. LET u == worker'[w] s == worker[w]
          IN /\ u.phase = s.phase /\ u.key = s.key /\ u.id = s.id /\ u.gen = s.gen
             /\ u.result = s.result /\ u.attempts = s.attempts /\ u.origin = s.origin
             /\ u.cancelled = TRUE
      <3>1. worker[w] \in TypedWorker
        BY Typed
      <3> QED
        BY ONLY <1>1, <3>1, WorkerShapes, WorkerRest
    <2> QED
      BY <2>1 DEF SameWork, SameAttempt
  <1> QED
    BY <1>1 DEF SameWork, SameAttempt

-----------------------------------------------------------------------------
(* A row that may be tried again has its message and its attempts.         *)

Live(s) == s \in {"pending", "processing", "failed"}

\* Whoever may end a row has counted no more attempts than the row.
AttemptsFit(w) ==
    Busy(w) /\ OwnsCurrent(w) => rows[worker[w].key].attempts >= worker[w].attempts

OwedInv ==
    /\ RetriesAreOwed
    /\ \A w \in Workers : AttemptsFit(w)
    /\ \A w \in Workers : worker[w].phase \in {"ending", "finishing"} => worker[w].result # "none"

\* A statement that leaves a message behind, and the attempts with the claim.
KeepsOwed(k) ==
    /\ Live(rows'[k].status) => rows'[k].body
    /\ rows'[k].status = "failed" => rows'[k].attempts >= MaxAttempts
    /\ \/ rows'[k].status # "processing"
       \/ SameClaimColumns(k) /\ rows'[k].attempts = rows[k].attempts
       \/ rows'[k].id = rows[k].id /\ rows'[k].gen > rows[k].gen

LEMMA OwedKept ==
    ASSUME TypeOK, TypeOK', ClaimInv, OwedInv, \A k \in Keys : KeepsOwed(k),
           \A w \in Workers : Busy(w)' => Busy(w) /\ SameAttempt(w),
           \A w \in Workers : worker'[w].phase \in {"ending", "finishing"} => worker'[w].result # "none"
    PROVE  OwedInv'
  <1>1. RetriesAreOwed'
    BY DEF RetriesAreOwed, FailedIsExhausted, LiveRowsHaveBodies, KeepsOwed, Live
  <1>2. ASSUME NEW w \in Workers, Busy(w)', OwnsCurrent(w)'
        PROVE  rows'[worker'[w].key].attempts >= worker'[w].attempts
    <2> DEFINE k == worker[w].key
    <2>1. /\ Busy(w) /\ SameAttempt(w) /\ k \in Keys /\ KeepsOwed(k) /\ AttemptsFit(w) /\ ClaimFits(w)
          /\ worker[w].gen \in Nat /\ rows[k].gen \in Nat
          /\ rows'[k].gen \in Nat
      BY <1>2, Typed, TypedPrimed DEF OwedInv, ClaimInv, Busy
    <2>2. /\ worker'[w].key = k /\ worker'[w].id = worker[w].id /\ worker'[w].gen = worker[w].gen
          /\ worker'[w].attempts = worker[w].attempts
      BY <2>1 DEF SameWork, SameAttempt
    <2>3. /\ rows'[k].id = worker[w].id /\ rows'[k].status = "processing"
          /\ rows'[k].claim = worker[w].gen /\ rows'[k].gen = worker[w].gen
      BY <1>2, <2>2 DEF OwnsCurrent, HoldsClaim
    <2>4. ~(rows'[k].id = rows[k].id /\ rows'[k].gen > rows[k].gen)
      BY <2>1, <2>3 DEF ClaimFits
    <2>5. SameClaimColumns(k) /\ rows'[k].attempts = rows[k].attempts
      BY <2>1, <2>3, <2>4 DEF KeepsOwed
    <2>6. OwnsCurrent(w)
      BY <2>3, <2>5 DEF SameClaimColumns, OwnsCurrent, HoldsClaim
    <2> QED
      BY <2>1, <2>2, <2>5, <2>6 DEF AttemptsFit
  <1> QED
    BY <1>1, <1>2 DEF OwedInv, AttemptsFit

\* Message and attempts of the rows the statements leave behind: enqueueWork,
LEMMA UpdatedOwed ==
    ASSUME NEW k \in Keys, NEW m, rows[k] \in TypedRow
    PROVE  /\ UpdatedRow(k, m).body
           /\ WatermarkedRow(k, m).body = rows[k].body
           /\ WatermarkedRow(k, m).attempts = rows[k].attempts
  BY DEF TypedRow, Row, UpdatedRow, WatermarkedRow

\* queue operations, timers, Recover and ReassignGroup,
LEMMA OperatedOwed ==
    ASSUME NEW r \in TypedRow, NEW b
    PROVE  /\ LET u == [r EXCEPT !.status = "pending", !.claim = 0] IN u.body = r.body
           /\ LET u == [r EXCEPT !.paused = b] IN u.body = r.body /\ u.attempts = r.attempts
           /\ LET u == [r EXCEPT !.backoff = FALSE] IN u.body = r.body /\ u.attempts = r.attempts
           /\ RetriedRow(r).body = r.body
  BY DEF TypedRow, Row, RetriedRow

ReassignedRow(r, a, p, g) ==
    [r EXCEPT !.account = a, !.refresh = TRUE, !.pts = p, !.gen = g, !.claim = 0,
              !.status = "pending", !.attempts = 0, !.backoff = FALSE]

LEMMA ReassignedOwed ==
    ASSUME NEW r \in TypedRow, NEW a, NEW p, NEW g
    PROVE  /\ ReassignedRow(r, a, p, g).body = r.body
           /\ ReassignedRow(r, a, p, g).status = "pending"
  BY DEF TypedRow, Row, ReassignedRow

\* Claim, Refresh and Finish.
LEMMA ClaimedOwed ==
    ASSUME NEW r \in TypedRow, NEW n, NEW g, NEW v, NEW d, NEW w
    PROVE  /\ LET u == [r EXCEPT !.status = "processing", !.claim = r.gen, !.attempts = n]
              IN u.body = r.body /\ u.attempts = n
           /\ LET u == [r EXCEPT !.gen = g, !.attempts = n, !.version = v, !.identity = d,
                                 !.body = TRUE, !.refresh = FALSE]
              IN u.body = TRUE /\ u.attempts = n
           /\ FinishedRow(r, w).body = IF r.gen # worker[w].gen THEN r.body
                                       ELSE r.body /\ FinalStatus(w) \notin {"completed", "skipped"}
           /\ r.gen = worker[w].gen /\ ~worker[w].wasCancelled /\ ~Flooded(w) =>
                FinishedRow(r, w).attempts = r.attempts
  BY DEF TypedRow, Row, FinishedRow

\* Enqueues, queue operations, timers, Recover and ReassignGroup.
LEMMA RowsOwed ==
    ASSUME TypeOK, TypeOK', ClaimInv, OwedInv,
           \/ \E k \in Keys, m \in Messages : Enqueue(k, m)
           \/ Operator
           \/ \E k \in Keys : BackoffEnds(k)
           \/ \E obs \in BOOLEAN : Start(obs)
           \/ \E k \in Keys, a \in Accounts : Reassign(k, a)
    PROVE  OwedInv'
  <1> USE DEF queueVars, runVars, ghostVars
  <1>1. rows \in [Keys -> TypedRow] /\ \A k \in Keys : rows[k] \in TypedRow /\ rows[k].gen \in Nat
    BY Typed DEF TypeOK
  <1>2. UNCHANGED worker
    BY DEF Enqueue, Operator, SetQueuePaused, PauseJob, CancelAllQueued, CancelJob, RetryJobs,
           DeleteFinished, BackoffEnds, Start, Reassign
  <1>3. ASSUME NEW k \in Keys PROVE KeepsOwed(k)
    <2>0. /\ Live(rows[k].status) => rows[k].body
          /\ rows[k].status = "failed" => rows[k].attempts >= MaxAttempts
      BY DEF OwedInv, RetriesAreOwed, FailedIsExhausted, LiveRowsHaveBodies, Live
    <2>1. ASSUME SameClaimColumns(k), rows'[k].body = rows[k].body, rows'[k].attempts = rows[k].attempts
          PROVE  KeepsOwed(k)
      BY <2>0, <2>1 DEF KeepsOwed, SameClaimColumns
    <2>2. ASSUME rows'[k].status = "pending", rows'[k].body PROVE KeepsOwed(k)
      BY <2>2 DEF KeepsOwed
    <2>3. ASSUME rows'[k].status \in {"skipped", "completed"} PROVE KeepsOwed(k)
      BY <2>3 DEF KeepsOwed, Live
    <2>4. CASE rows'[k] = rows[k]
      BY <2>1, <2>4 DEF SameClaimColumns
    <2>5. ASSUME NEW j \in Keys, NEW m \in Messages, Enqueue(j, m), rows'[k] # rows[k]
          PROVE  KeepsOwed(k)
      <3>1. j = k
        BY <1>1, <2>5 DEF Enqueue
      <3>2. CASE rows'[k] = InsertedRow(k, m)
        <4>1. rows'[k].status = "pending" /\ rows'[k].body
          BY <3>2 DEF InsertedRow, NoRow
        <4> QED
          BY <2>2, <4>1
      <3>3. CASE rows'[k] = UpdatedRow(k, m)
        <4>1. /\ rows'[k].id = rows[k].id /\ rows'[k].gen = rows[k].gen + 1 /\ rows'[k].body
              /\ rows'[k].status \in {"processing", "pending"}
          BY <1>1, <3>3, UpdatedColumns, UpdatedOwed
        <4> QED
          BY <1>1, <4>1 DEF KeepsOwed
      <3>4. CASE rows'[k] = WatermarkedRow(k, m)
        <4>1. /\ SameClaimColumns(k) /\ rows'[k].body = rows[k].body
              /\ rows'[k].attempts = rows[k].attempts
          BY <1>1, <3>4, UpdatedColumns, UpdatedOwed DEF SameClaimColumns
        <4> QED
          BY <2>1, <4>1
      <3> QED
        BY <1>1, <2>5, <3>1, <3>2, <3>3, <3>4 DEF Enqueue
    <2>6. ASSUME NEW b \in BOOLEAN, rows'[k] = [rows[k] EXCEPT !.paused = b] PROVE KeepsOwed(k)
      <3>1. /\ SameClaimColumns(k) /\ rows'[k].body = rows[k].body
            /\ rows'[k].attempts = rows[k].attempts
        BY ONLY <1>1, k \in Keys, <2>6, OperatedColumns, OperatedOwed DEF SameClaimColumns
      <3> QED
        BY <2>1, <3>1
    <2>7. ASSUME rows'[k] = [rows[k] EXCEPT !.backoff = FALSE] PROVE KeepsOwed(k)
      <3>1. /\ SameClaimColumns(k) /\ rows'[k].body = rows[k].body
            /\ rows'[k].attempts = rows[k].attempts
        BY ONLY <1>1, k \in Keys, <2>7, OperatedColumns, OperatedOwed DEF SameClaimColumns
      <3> QED
        BY <2>1, <3>1
    <2>8. ASSUME rows'[k] = CancelledRow(rows[k]) PROVE KeepsOwed(k)
      <3>1. rows'[k].status = "skipped"
        BY ONLY <1>1, k \in Keys, <2>8, OperatedColumns
      <3> QED
        BY <2>3, <3>1
    <2>9. ASSUME rows[k].status = "failed", rows'[k] = RetriedRow(rows[k]) PROVE KeepsOwed(k)
      <3>1. rows'[k].status = "pending" /\ rows'[k].body = rows[k].body
        BY ONLY <1>1, k \in Keys, <2>9, OperatedColumns, OperatedOwed
      <3> QED
        BY <2>0, <2>2, <2>9, <3>1 DEF Live
    <2>10. ASSUME rows'[k] = NoRow PROVE KeepsOwed(k)
      BY <2>3, <2>10 DEF NoRow
    <2>11. ASSUME rows[k].status = "processing",
                  rows'[k] = [rows[k] EXCEPT !.status = "pending", !.claim = 0]
           PROVE  KeepsOwed(k)
      <3>1. rows'[k].status = "pending" /\ rows'[k].body = rows[k].body
        BY ONLY <1>1, k \in Keys, <2>11, OperatedColumns, OperatedOwed
      <3> QED
        BY <2>0, <2>2, <2>11, <3>1 DEF Live
    <2>12. ASSUME NEW b \in BOOLEAN, SetQueuePaused(b) PROVE KeepsOwed(k)
      BY <2>4, <2>6, <2>12 DEF SetQueuePaused
    <2>13. ASSUME NEW b \in BOOLEAN, NEW j \in Keys, PauseJob(j, b) PROVE KeepsOwed(k)
      BY <1>1, <2>4, <2>6, <2>13 DEF PauseJob
    <2>14. ASSUME CancelAllQueued \/ \E j \in Keys : CancelJob(j) PROVE KeepsOwed(k)
      BY <1>1, <2>4, <2>8, <2>14 DEF CancelAllQueued, CancelJob
    <2>15. ASSUME NEW ks, RetryJobs(ks) PROVE KeepsOwed(k)
      BY <2>4, <2>9, <2>15 DEF RetryJobs, Retryable
    <2>16. ASSUME NEW ks, DeleteFinished(ks) PROVE KeepsOwed(k)
      BY <2>4, <2>10, <2>16 DEF DeleteFinished
    <2>17. ASSUME NEW j \in Keys, BackoffEnds(j) PROVE KeepsOwed(k)
      BY <1>1, <2>4, <2>7, <2>17 DEF BackoffEnds
    <2>18. ASSUME NEW obs \in BOOLEAN, Start(obs) PROVE KeepsOwed(k)
      BY <2>4, <2>11, <2>18 DEF Start
    <2>19. ASSUME NEW j \in Keys, NEW a \in Accounts, Reassign(j, a), rows'[k] # rows[k]
           PROVE  KeepsOwed(k)
      <3> DEFINE p == IF k \in ChannelKeys THEN rows[k].pts ELSE 0
                 g == rows[k].gen + 1
      <3>3. k = j /\ rows[k].body
        BY <1>1, <2>19 DEF Reassign
      <3>1. rows'[k] = ReassignedRow(rows[k], a, p, g)
        BY <1>1, <2>19, <3>3 DEF Reassign, ReassignedRow
      <3>2. rows'[k].body = rows[k].body /\ rows'[k].status = "pending"
        BY <1>1, <3>1, ReassignedOwed
      <3> QED
        BY <2>2, <3>2, <3>3
    <2>20. CASE Operator
      BY <2>12, <2>13, <2>14, <2>15, <2>16, <2>20 DEF Operator
    <2> QED
      BY <2>4, <2>5, <2>17, <2>18, <2>19, <2>20
  <1>4. \A w \in Workers : Busy(w)' => Busy(w) /\ SameAttempt(w)
    BY <1>2 DEF Busy, SameWork, SameAttempt
  <1>5. \A w \in Workers : worker'[w].phase \in {"ending", "finishing"} => worker'[w].result # "none"
    BY <1>2 DEF OwedInv
  <1> QED
    BY <1>3, <1>4, <1>5, OwedKept

\* The steps of a worker: Claim counts the attempt in the row and in the worker,
\* Finish fails a row only after a real failure of its last attempt.
LEMMA WorkerOwed ==
    ASSUME TypeOK, TypeOK', ClaimInv, ClaimInv', OwedInv, NEW w \in Workers, WorkerStep(w)
    PROVE  OwedInv'
  <1> USE DEF queueVars, runVars, ghostVars
  <1>1. /\ worker \in [Workers -> TypedWorker] /\ rows \in [Keys -> TypedRow]
        /\ \A k \in Keys : /\ rows[k] \in TypedRow /\ {rows[k].gen, rows[k].attempts} \subseteq Nat
                           /\ Live(rows[k].status) => rows[k].body
                           /\ rows[k].status = "failed" => rows[k].attempts >= MaxAttempts
    BY Typed DEF TypeOK, OwedInv, RetriesAreOwed, FailedIsExhausted, LiveRowsHaveBodies, Live
  <1>2. \A k \in Keys : rows'[k] = rows[k] => KeepsOwed(k)
    BY <1>1 DEF KeepsOwed, SameClaimColumns
  <1>3. ASSUME Onward(w), \A k \in Keys : KeepsOwed(k) PROVE OwedInv'
    <2>1. \A v \in Workers : Busy(v)' => Busy(v) /\ SameAttempt(v)
      BY <1>3 DEF Onward, Busy, SameWork, SameAttempt
    <2>2. \A v \in Workers : worker'[v].phase \in {"ending", "finishing"} => worker'[v].result # "none"
      BY <1>3 DEF Onward, OwedInv
    <2> QED
      BY <1>3, <2>1, <2>2, OwedKept
  <1>4. CASE Poll(w) \/ ClaimNothing(w)
    <2>1. \A v \in Workers : v # w => worker'[v] = worker[v]
      BY <1>1, <1>4 DEF Poll, ClaimNothing
    <2>2. worker'[w].phase \in {"idle", "polled"}
      <3>1. ASSUME Poll(w) PROVE worker'[w].phase = "polled"
        <4>1. worker'[w] = [worker[w] EXCEPT !.phase = "polled", !.manual = ~observing]
          BY <1>1, <3>1 DEF Poll
        <4> QED
          BY ONLY <1>1, w \in Workers, <4>1, WorkerShapes
      <3> QED
        BY <1>1, <1>4, <3>1 DEF ClaimNothing, IdleWorker
    <2>3. \A v \in Workers : Busy(v)' => Busy(v) /\ SameAttempt(v)
      BY <2>1, <2>2 DEF Busy, SameWork, SameAttempt
    <2>4. \A v \in Workers : worker'[v].phase \in {"ending", "finishing"} => worker'[v].result # "none"
      BY <2>1, <2>2 DEF OwedInv
    <2>5. UNCHANGED rows
      BY <1>4 DEF Poll, ClaimNothing
    <2> QED
      BY <1>2, <2>3, <2>4, <2>5, OwedKept
  <1>5. CASE Claim(w) \/ ClaimLost(w)
    <2>1. PICK k \in Keys :
            /\ rows[k].status = "pending" /\ ClaimRow(k)
            /\ \/ /\ Claim(w)
                  /\ worker'[w].phase = "claimed" /\ worker'[w].key = k
                  /\ worker'[w].attempts = rows[k].attempts + 1
               \/ worker'[w].phase = "idle"
      <3>1. CASE Claim(w)
        <4>1. PICK k \in Keys :
                /\ FirstEligible(k, worker[w].manual)
                /\ ClaimRow(k)
                /\ worker'[w] =
                     [IdleWorker EXCEPT !.phase = "claimed", !.key = k, !.id = rows[k].id,
                                        !.gen = rows[k].gen, !.attempts = rows[k].attempts + 1,
                                        !.account = rows[k].account,
                                        !.origin = rows[k].origin, !.force = rows[k].refresh]
          BY <1>1, <3>1 DEF Claim
        <4>2. /\ worker'[w].phase = "claimed" /\ worker'[w].key = k
              /\ worker'[w].attempts = rows[k].attempts + 1
          BY <4>1 DEF IdleWorker
        <4> QED
          BY <3>1, <4>1, <4>2 DEF FirstEligible, Eligible
      <3>2. CASE ClaimLost(w)
        BY <1>1, <3>2 DEF ClaimLost, FirstEligible, Eligible, IdleWorker
      <3> QED
        BY <1>5, <3>1, <3>2
    <2>2. \A v \in Workers : v # w => worker'[v] = worker[v]
      BY <1>1, <1>5 DEF Claim, ClaimLost
    <2>3. \A j \in Keys : j # k => rows'[j] = rows[j]
      BY <1>1, <2>1 DEF ClaimRow
    <2>4. /\ rows'[k].status = "processing" /\ rows'[k].body /\ rows'[k].attempts = rows[k].attempts + 1
          /\ rows'[k].id = rows[k].id /\ rows'[k].gen = rows[k].gen
      <3>1. rows'[k] = [rows[k] EXCEPT !.status = "processing", !.claim = rows[k].gen,
                                       !.attempts = rows[k].attempts + 1]
        BY <1>1, <2>1 DEF ClaimRow
      <3>2. /\ rows'[k].status = "processing" /\ rows'[k].body = rows[k].body
            /\ rows'[k].attempts = rows[k].attempts + 1
            /\ rows'[k].id = rows[k].id /\ rows'[k].gen = rows[k].gen
        BY ONLY <1>1, k \in Keys, <3>1, ClaimedColumns, ClaimedOwed
      <3> QED
        BY <1>1, <2>1, <3>2 DEF Live
    <2>5. RetriesAreOwed'
      BY <1>1, <2>3, <2>4 DEF RetriesAreOwed, FailedIsExhausted, LiveRowsHaveBodies, Live
    <2>6. ASSUME NEW v \in Workers PROVE AttemptsFit(v)'
      <3> SUFFICES ASSUME Busy(v)', OwnsCurrent(v)'
                   PROVE  rows'[worker'[v].key].attempts >= worker'[v].attempts
        BY DEF AttemptsFit
      <3>1. CASE v = w
        BY <1>1, <2>1, <2>4, <3>1 DEF Busy
      <3>2. CASE v # w
        <4>1. worker'[v] = worker[v] /\ Busy(v) /\ worker[v].key \in Keys /\ AttemptsFit(v)
          BY <2>2, <3>2, Typed DEF Busy, OwedInv
        <4>2. CASE worker[v].key # k
          BY <2>3, <4>1, <4>2 DEF AttemptsFit, OwnsCurrent, HoldsClaim
        <4>3. CASE worker[v].key = k
          <5>1. worker[v].id = rows[k].id /\ worker[v].gen = rows[k].gen
            BY <2>4, <4>1, <4>3 DEF OwnsCurrent, HoldsClaim
          <5>2. worker[v].gen < rows[k].gen
            BY <2>1, <4>1, <4>3, <5>1, PendingUnowned
          <5> QED
            BY <1>1, <5>1, <5>2
        <4> QED
          BY <4>2, <4>3
      <3> QED
        BY <3>1, <3>2
    <2>7. \A v \in Workers : worker'[v].phase \in {"ending", "finishing"} => worker'[v].result # "none"
      BY <2>1, <2>2 DEF OwedInv
    <2> QED
      BY <2>5, <2>6, <2>7 DEF OwedInv
  <1>6. ASSUME \/ Register(w) \/ CheckCurrent(w) \/ StartTransfer(w)
               \/ \E res \in {"ok", "error", "flood", "filtered"} :
                    RefreshFailed(w, res) \/ EndTransfer(w, res)
        PROVE  OwedInv'
    <2>1. UNCHANGED rows
      BY <1>6 DEF Register, CheckCurrent, StartTransfer, RefreshFailed, EndTransfer
    <2>2. Onward(w)
      BY <1>6, OnwardSteps
    <2> QED
      BY <1>2, <1>3, <2>1, <2>2
  <1>7. ASSUME NEW m \in Messages, Refresh(w, m.version, m.identity) PROVE OwedInv'
    <2> DEFINE k == worker[w].key
               g == IF m.identity # rows[k].identity THEN rows[k].gen + 1 ELSE rows[k].gen
               n == IF m.identity # rows[k].identity THEN 0 ELSE rows[k].attempts
               x == Larger(rows[k].version, m.version)
               u == [rows[k] EXCEPT !.gen = g, !.attempts = n, !.version = x,
                                    !.identity = m.identity, !.body = TRUE, !.refresh = FALSE]
    <2>1. /\ k \in Keys /\ Onward(w)
          /\ \A j \in Keys : j # k => rows'[j] = rows[j]
          /\ \/ rows'[k] = rows[k]
             \/ rows'[k] = u /\ HoldsClaim(w)
      BY <1>1, <1>7, Typed, OnwardSteps DEF Refresh
    <2>2. ASSUME rows'[k] = u, HoldsClaim(w) PROVE KeepsOwed(k)
      <3>1. /\ rows'[k].id = rows[k].id /\ rows'[k].gen = g /\ rows'[k].attempts = n
            /\ rows'[k].status = rows[k].status /\ rows'[k].claim = rows[k].claim
            /\ rows'[k].body = TRUE
        <4> HIDE DEF g, n, x, k
        <4> QED
          BY ONLY <1>1, <2>1, <2>2, RefreshedColumns, ClaimedOwed DEF u
      <3>2. rows[k].status = "processing"
        BY <2>2 DEF HoldsClaim
      <3>3. (g = rows[k].gen /\ n = rows[k].attempts) \/ g > rows[k].gen
        BY <1>1, <2>1
      <3> HIDE DEF g, n, x, k, u
      <3> QED
        BY <3>1, <3>2, <3>3 DEF KeepsOwed, SameClaimColumns
    <2>3. \A j \in Keys : KeepsOwed(j)
      <3> HIDE DEF u, k
      <3> QED
        BY <1>2, <2>1, <2>2
    <2> QED
      BY <1>3, <2>1, <2>3
  <1>8. CASE Unregister(w)
    <2>1. /\ \A v \in Workers : v # w => worker'[v] = worker[v]
          /\ SameAttempt(w) /\ worker'[w].result = worker[w].result
          /\ worker[w].phase = "ending" /\ worker'[w].phase = "finishing" /\ UNCHANGED rows
      BY <1>1, <1>8 DEF Unregister, IdleWorker, SameAttempt
    <2>2. \A v \in Workers : Busy(v)' => Busy(v) /\ SameAttempt(v)
      BY <2>1 DEF Busy, SameAttempt
    <2>3. \A v \in Workers : worker'[v].phase \in {"ending", "finishing"} => worker'[v].result # "none"
      BY <2>1 DEF OwedInv
    <2> QED
      BY <1>2, <2>1, <2>2, <2>3, OwedKept
  <1>9. CASE Finish(w)
    <2> DEFINE k == worker[w].key
    <2>1. /\ k \in Keys /\ worker'[w].phase = "idle" /\ worker[w].phase = "finishing"
          /\ \A v \in Workers : v # w => worker'[v] = worker[v]
          /\ \A j \in Keys : j # k => rows'[j] = rows[j]
          /\ worker[w].id \in Ids /\ worker[w].attempts \in Nat
          /\ worker[w].result # "none" /\ worker[w].result \in Results /\ AttemptsFit(w)
      BY <1>1, <1>9, Typed DEF Finish, IdleWorker, OwedInv
    <2>2. ASSUME HoldsClaim(w) PROVE KeepsOwed(k)
      <3>1. /\ rows'[k].status = IF rows[k].gen # worker[w].gen THEN "pending" ELSE FinalStatus(w)
            /\ rows'[k].body = IF rows[k].gen # worker[w].gen THEN rows[k].body
                               ELSE rows[k].body /\ FinalStatus(w) \notin {"completed", "skipped"}
            /\ rows[k].gen = worker[w].gen /\ ~worker[w].wasCancelled /\ ~Flooded(w) =>
                 rows'[k].attempts = rows[k].attempts
        <4>1. rows'[k] = FinishedRow(rows[k], w)
          BY <1>1, <1>9, <2>1, <2>2 DEF Finish
        <4> HIDE DEF k
        <4> QED
          BY ONLY <1>1, <2>1, <4>1, FinishedColumns, ClaimedOwed
      <3>2. /\ FinalStatus(w) \in {"pending", "completed", "skipped", "failed"}
            /\ rows[k].body
        BY <1>1, <2>1, <2>2, FinishedRowTyped DEF HoldsClaim, Live
      <3>3. FinalStatus(w) = "failed" => /\ ~worker[w].wasCancelled /\ ~Flooded(w)
                                         /\ worker[w].attempts >= MaxAttempts
        <4> SUFFICES ASSUME FinalStatus(w) = "failed"
                     PROVE  /\ ~worker[w].wasCancelled /\ ~Flooded(w)
                            /\ worker[w].attempts >= MaxAttempts
          OBVIOUS
        <4>1. ~worker[w].wasCancelled /\ ~Retried(w) /\ worker[w].result \notin {"ok", "filtered"}
          BY DEF FinalStatus
        <4>2. ~Flooded(w) /\ worker[w].result = "error"
          BY <2>1, <4>1 DEF Retried, Flooded, Results
        <4> QED
          BY <2>1, <4>1, <4>2, QueueAssumption DEF Retried, QueueAssumption
      <3>4. rows[k].gen = worker[w].gen => rows[k].attempts >= worker[w].attempts
        BY <2>1, <2>2 DEF AttemptsFit, OwnsCurrent, Busy
      <3>5. rows[k].attempts \in Nat /\ MaxAttempts \in Nat
        BY <1>1, <2>1, QueueAssumption DEF QueueAssumption
      <3>6. rows'[k].status = "failed" => rows'[k].attempts >= MaxAttempts
        BY <2>1, <3>1, <3>3, <3>4, <3>5
      <3> QED
        BY <3>1, <3>2, <3>6 DEF KeepsOwed, Live
    <2>3. \A j \in Keys : KeepsOwed(j)
      <3>1. ~HoldsClaim(w) => rows' = rows
        BY <1>9 DEF Finish
      <3> HIDE DEF k
      <3> QED
        BY <1>2, <2>1, <2>2, <3>1
    <2>4. \A v \in Workers : Busy(v)' => Busy(v) /\ SameAttempt(v)
      BY <2>1 DEF Busy, SameAttempt
    <2>5. \A v \in Workers : worker'[v].phase \in {"ending", "finishing"} => worker'[v].result # "none"
      BY <2>1 DEF OwedInv
    <2> QED
      BY <2>3, <2>4, <2>5, OwedKept
  <1> QED
    BY <1>4, <1>5, <1>6, <1>7, <1>8, <1>9 DEF WorkerProgress, WorkerStep

\* Signals and the lifetime of the run count nothing.
LEMMA RunOwed ==
    ASSUME TypeOK, TypeOK', ClaimInv, OwedInv,
           \/ \E s \in signals : Signal(s)
           \/ \E a \in Accounts : FloodWaitEnds(a)
           \/ Promote \/ StopObserving \/ Stop \/ Stopped \/ Crash
    PROVE  OwedInv'
  <1> USE DEF queueVars, runVars, ghostVars
  <1>1. UNCHANGED rows
    BY DEF Signal, FloodWaitEnds, Promote, StopObserving, Stop, Stopped, Crash
  <1>2. \A k \in Keys : KeepsOwed(k)
    BY <1>1 DEF KeepsOwed, SameClaimColumns, OwedInv, RetriesAreOwed, FailedIsExhausted,
                LiveRowsHaveBodies, Live
  <1>3. ASSUME NEW w \in Workers
        PROVE  \/ worker'[w].phase = "idle"
               \/ /\ worker'[w].phase = worker[w].phase /\ SameWork(w)
                  /\ worker'[w].result = worker[w].result
    <2>1. \/ worker'[w] = worker[w]
          \/ worker'[w] = [worker[w] EXCEPT !.cancelled = TRUE]
          \/ worker'[w] = IdleWorker
      BY RunMoves
    <2> QED
      BY <2>1, CancelledMoves DEF IdleWorker
  <1>4. \A w \in Workers : Busy(w)' => Busy(w) /\ SameAttempt(w)
    BY <1>3 DEF Busy, SameWork
  <1>5. \A w \in Workers : worker'[w].phase \in {"ending", "finishing"} => worker'[w].result # "none"
    BY <1>3 DEF OwedInv
  <1> QED
    BY <1>2, <1>4, <1>5, OwedKept

LEMMA OwedInvariant == Spec => []OwedInv
  <1>1. Init => OwedInv
    BY DEF Init, OwedInv, RetriesAreOwed, FailedIsExhausted, LiveRowsHaveBodies, NoRow, IdleWorker,
           AttemptsFit, Busy
  <1>2. TypeOK /\ TypeOK' /\ ClaimInv /\ ClaimInv' /\ OwedInv /\ [Next]_vars => OwedInv'
    <2> SUFFICES ASSUME TypeOK, TypeOK', ClaimInv, ClaimInv', OwedInv, [Next]_vars PROVE OwedInv'
      OBVIOUS
    <2>1. CASE UNCHANGED vars
      BY <2>1 DEF vars, OwedInv, RetriesAreOwed, FailedIsExhausted, LiveRowsHaveBodies, AttemptsFit,
                  Busy, OwnsCurrent, HoldsClaim
    <2> QED
      BY <2>1, WorkerOwed, RowsOwed, RunOwed DEF Next, Lifecycle
  <1> QED
    BY <1>1, <1>2, TypeCorrect, ClaimsInvariant, PTL DEF Spec

\* Work that can be claimed or retried keeps its message, and a row has failed only when
\* real failures used up its attempts: flood waits, edits, cancellations and reassignments
\* take none (Finish and enqueueWork, engine/work.go).
THEOREM RetriesStayOwed == Spec => []RetriesAreOwed
  <1>1. OwedInv => RetriesAreOwed
    BY DEF OwedInv
  <1> QED
    BY <1>1, OwedInvariant, PTL

-----------------------------------------------------------------------------
(* What runs is what the row asks for.                                     *)

\* Who is registered is between Register and Unregister, under its own id.
Registered(i) ==
    active[i] # None =>
        /\ worker[active[i]].id = i
        /\ worker[active[i]].phase \in {"registered", "checked", "transfer", "ending"}

\* Live work is registered only while it is observed, or is already cancelled.
Observed(i) ==
    active[i] # None =>
        LET w == active[i] IN
        worker[w].origin = "live" /\ ~worker[w].cancelled /\ worker[w].phase # "ending" => observing

\* Whatever made a checked claim stale has yet to call its cancel function.
Signalled(w) == <<"id", worker[w].id>> \in signals \/ <<"key", worker[w].key>> \in signals

StaleIsSignalled(w) ==
    /\ worker[w].phase \in {"checked", "transfer"}
    /\ active[worker[w].id] = w
    /\ ~worker[w].cancelled
    /\ rows[worker[w].key].id = worker[w].id
    /\ ~OwnsCurrent(w)
    => Signalled(w)

WantedInv ==
    /\ run = "down" => \A i \in Ids : active[i] = None
    /\ \A i \in Ids : Registered(i) /\ Observed(i)
    /\ \A w \in Workers : StaleIsSignalled(w)

\* No worker is None, and a registered one is a worker.
LEMMA ActiveTyped ==
    ASSUME TypeOK
    PROVE  /\ active \in [Ids -> Workers \cup {None}]
           /\ \A w \in Workers : w # None
  BY QueueAssumption DEF TypeOK, QueueAssumption

\* Another worker of the same row: its claim is as stale as it was.
LEMMA OthersStale ==
    ASSUME NEW v \in Workers, StaleIsSignalled(v), worker'[v] = worker[v], signals' = signals,
           active'[worker[v].id] = v => active[worker[v].id] = v,
           LET k == worker[v].key
           IN \/ SameClaimColumns(k)
              \/ rows'[k].id = rows[k].id /\ ~OwnsCurrent(v)
    PROVE  StaleIsSignalled(v)'
  BY DEF StaleIsSignalled, Signalled, OwnsCurrent, HoldsClaim, SameClaimColumns

\* Statements that leave workers and the active map alone: a row keeps its claim, or is
\* another, or was nobody's, or its worker is going to be signalled.
LEMMA RowsWanted ==
    ASSUME TypeOK, ClaimInv, WantedInv, UNCHANGED <<worker, active, run, observing>>, signals \subseteq signals',
           \A k \in Keys :
             \/ SameClaimColumns(k)
             \/ rows'[k].id \in {0, nextId}
             \/ rows'[k].id = rows[k].id /\ rows[k].status # "processing"
             \/ /\ rows'[k].id = rows[k].id
                /\ <<"id", rows[k].id>> \in signals' \/ <<"key", k>> \in signals'
    PROVE  WantedInv'
  <1>1. \A i \in Ids : Registered(i)' /\ Observed(i)'
    BY DEF WantedInv, Registered, Observed
  <1>2. ASSUME NEW w \in Workers PROVE StaleIsSignalled(w)'
    <2> SUFFICES ASSUME worker[w].phase \in {"checked", "transfer"}, active[worker[w].id] = w,
                        ~worker[w].cancelled, rows'[worker[w].key].id = worker[w].id, ~OwnsCurrent(w)'
                 PROVE  Signalled(w)'
      BY DEF StaleIsSignalled
    <2> DEFINE k == worker[w].key
    <2>1. k \in Keys /\ worker[w].id \in Nat /\ worker[w].id # 0 /\ worker[w].id < nextId /\ nextId \in Nat
      BY Typed, QueueAssumption DEF ClaimInv, Busy, Ids, TypeOK, QueueAssumption
    <2>7. rows'[k].id = worker[w].id /\ rows'[k].id \notin {0, nextId}
      BY <2>1
    <2>2. rows[k].id = worker[w].id
      BY <2>1, <2>7 DEF SameClaimColumns
    <2>3. Signalled(w) => Signalled(w)'
      BY DEF Signalled
    <2>4. ~OwnsCurrent(w) => Signalled(w)
      BY <2>2 DEF WantedInv, StaleIsSignalled
    <2>5. CASE SameClaimColumns(k) \/ rows[k].status # "processing"
      BY <2>3, <2>4, <2>5 DEF SameClaimColumns, OwnsCurrent, HoldsClaim
    <2>6. CASE <<"id", rows[k].id>> \in signals' \/ <<"key", k>> \in signals'
      BY <2>2, <2>6 DEF Signalled
    <2> QED
      BY <2>1, <2>5, <2>6, <2>7
  <1> QED
    BY <1>1, <1>2 DEF WantedInv

\* Enqueues, queue operations and timers; Recover and ReassignGroup, with nobody registered.
LEMMA StatementsWanted ==
    ASSUME TypeOK, TypeOK', ClaimInv, WantedInv,
           \/ \E k \in Keys, m \in Messages : Enqueue(k, m)
           \/ Operator
           \/ \E k \in Keys : BackoffEnds(k)
           \/ \E obs \in BOOLEAN : Start(obs)
           \/ \E k \in Keys, a \in Accounts : Reassign(k, a)
    PROVE  WantedInv'
  <1> USE DEF queueVars, runVars, ghostVars
  <1>1. rows \in [Keys -> TypedRow] /\ \A k \in Keys : rows[k] \in TypedRow
    BY Typed DEF TypeOK
  <1>2. UNCHANGED <<worker, active>> /\ signals \subseteq signals'
    BY DEF Enqueue, Operator, SetQueuePaused, PauseJob, CancelAllQueued, CancelJob, RetryJobs,
           DeleteFinished, BackoffEnds, Start, Reassign
  <1>3. CASE (\E obs \in BOOLEAN : Start(obs)) \/ (\E k \in Keys, a \in Accounts : Reassign(k, a))
    <2>1. \A i \in Ids : active[i] = None
      BY <1>3 DEF Start, Reassign, WantedInv
    <2>2. \A w \in Workers : worker[w].phase = "idle"
      BY <1>3 DEF Start, Reassign, ClaimInv
    <2> QED
      BY <1>2, <2>1, <2>2 DEF WantedInv, Registered, Observed, StaleIsSignalled
  <1>4. ASSUME \/ \E k \in Keys, m \in Messages : Enqueue(k, m)
               \/ Operator
               \/ \E k \in Keys : BackoffEnds(k)
        PROVE  WantedInv'
    <2>1. UNCHANGED <<run, observing>>
      BY <1>4 DEF Enqueue, Operator, SetQueuePaused, PauseJob, CancelAllQueued, CancelJob, RetryJobs,
             DeleteFinished, BackoffEnds
    <2>2. ASSUME NEW k \in Keys
          PROVE  \/ SameClaimColumns(k)
                 \/ rows'[k].id \in {0, nextId}
                 \/ rows'[k].id = rows[k].id /\ rows[k].status # "processing"
                 \/ /\ rows'[k].id = rows[k].id
                    /\ <<"id", rows[k].id>> \in signals' \/ <<"key", k>> \in signals'
      <3>1. CASE rows'[k] = rows[k]
        BY <3>1 DEF SameClaimColumns
      <3>2. ASSUME NEW j \in Keys, NEW m \in Messages, Enqueue(j, m), rows'[k] # rows[k]
            PROVE  \/ SameClaimColumns(k)
                   \/ rows'[k].id \in {0, nextId}
                   \/ rows'[k].id = rows[k].id /\ <<"id", rows[k].id>> \in signals'
        <4>1. j = k
          BY <1>1, <3>2 DEF Enqueue
        <4>2. \/ rows'[k] = InsertedRow(k, m)
              \/ rows'[k] = UpdatedRow(k, m) /\ <<"id", rows[k].id>> \in signals'
              \/ rows'[k] = WatermarkedRow(k, m)
          BY <1>1, <3>2, <4>1 DEF Enqueue
        <4>3. CASE rows'[k] = InsertedRow(k, m)
          BY <4>3 DEF InsertedRow, NoRow
        <4> QED
          BY <1>1, <4>2, <4>3, UpdatedColumns DEF SameClaimColumns
      <3>3. ASSUME NEW b \in BOOLEAN,
                   \/ rows'[k] = [rows[k] EXCEPT !.paused = b]
                   \/ rows'[k] = [rows[k] EXCEPT !.backoff = FALSE]
            PROVE  SameClaimColumns(k)
        <4>1. ASSUME rows'[k] = [rows[k] EXCEPT !.paused = b] PROVE SameClaimColumns(k)
          BY ONLY <1>1, k \in Keys, <4>1, OperatedColumns DEF SameClaimColumns
        <4>2. ASSUME rows'[k] = [rows[k] EXCEPT !.backoff = FALSE] PROVE SameClaimColumns(k)
          BY ONLY <1>1, k \in Keys, <4>2, OperatedColumns DEF SameClaimColumns
        <4> QED
          BY <3>3, <4>1, <4>2
      <3>4. ASSUME rows'[k] = CancelledRow(rows[k]) \/ rows'[k] = RetriedRow(rows[k])
            PROVE  rows'[k].id = rows[k].id
        <4>1. ASSUME rows'[k] = CancelledRow(rows[k]) PROVE rows'[k].id = rows[k].id
          BY ONLY <1>1, k \in Keys, <4>1, OperatedColumns
        <4>2. ASSUME rows'[k] = RetriedRow(rows[k]) PROVE rows'[k].id = rows[k].id
          BY ONLY <1>1, k \in Keys, <4>2, OperatedColumns
        <4> QED
          BY <3>4, <4>1, <4>2
      <3>5. ASSUME rows'[k] = NoRow PROVE rows'[k].id = 0
        BY <3>5 DEF NoRow
      <3>6. ASSUME NEW b \in BOOLEAN, SetQueuePaused(b) PROVE SameClaimColumns(k)
        BY <3>1, <3>3, <3>6 DEF SetQueuePaused, SameClaimColumns
      <3>7. ASSUME NEW b \in BOOLEAN, NEW j \in Keys, PauseJob(j, b) PROVE SameClaimColumns(k)
        BY <1>1, <3>1, <3>3, <3>7 DEF PauseJob, SameClaimColumns
      <3>8. ASSUME CancelAllQueued
            PROVE  rows'[k] = rows[k] \/ (rows'[k].id = rows[k].id /\ rows[k].status # "processing")
        BY <3>4, <3>8 DEF CancelAllQueued
      <3>9. ASSUME NEW j \in Keys, CancelJob(j)
            PROVE  rows'[k] = rows[k] \/ (rows'[k].id = rows[k].id /\ <<"key", k>> \in signals')
        BY <1>1, <3>4, <3>9 DEF CancelJob
      <3>10. ASSUME NEW ks, RetryJobs(ks)
             PROVE  rows'[k] = rows[k] \/ (rows'[k].id = rows[k].id /\ rows[k].status # "processing")
        BY <3>4, <3>10 DEF RetryJobs, Retryable
      <3>11. ASSUME NEW ks, DeleteFinished(ks) PROVE rows'[k] = rows[k] \/ rows'[k].id = 0
        BY <3>5, <3>11 DEF DeleteFinished
      <3>12. ASSUME NEW j \in Keys, BackoffEnds(j) PROVE SameClaimColumns(k)
        BY <1>1, <3>1, <3>3, <3>12 DEF BackoffEnds, SameClaimColumns
      <3>13. CASE Operator
        BY <3>1, <3>6, <3>7, <3>8, <3>9, <3>10, <3>11, <3>13 DEF Operator
      <3> QED
        BY <1>4, <3>1, <3>2, <3>12, <3>13
    <2> QED
      BY <1>2, <2>1, <2>2, RowsWanted
  <1> QED
    BY <1>3, <1>4

\* Claim, Poll, Unregister and Finish: the worker was not registered or no longer is.
LEMMA UnregisteredWanted ==
    ASSUME TypeOK, ClaimInv, WantedInv, NEW w \in Workers,
           UNCHANGED <<signals, run, observing>>,
           \A v \in Workers : v # w => worker'[v] = worker[v],
           active' = active \/ active' = [active EXCEPT ![worker[w].id] = None],
           \A i \in Ids : active'[i] # w,
           worker'[w].phase \notin {"checked", "transfer"},
           \A v \in Workers \ {w} : worker[v].phase \in {"checked", "transfer"} =>
             LET k == worker[v].key
             IN \/ SameClaimColumns(k)
                \/ rows'[k].id = rows[k].id /\ ~OwnsCurrent(v)
    PROVE  WantedInv'
  <1>1. \A i \in Ids : active'[i] = active[i] \/ active'[i] = None
    BY ActiveTyped
  <1>2. \A i \in Ids : Registered(i)' /\ Observed(i)'
    <2> SUFFICES ASSUME NEW i \in Ids, active'[i] # None PROVE Registered(i)' /\ Observed(i)'
      BY DEF Registered, Observed
    <2>1. active'[i] = active[i] /\ active[i] \in Workers /\ active[i] # w
      BY <1>1, ActiveTyped
    <2>2. worker'[active'[i]] = worker[active[i]]
      BY <2>1
    <2> QED
      BY <2>1, <2>2 DEF WantedInv, Registered, Observed
  <1>3. ASSUME NEW v \in Workers PROVE StaleIsSignalled(v)'
    <2>1. CASE v = w
      BY <2>1 DEF StaleIsSignalled
    <2>2. CASE v # w /\ worker[v].phase \in {"checked", "transfer"}
      <3>1. worker'[v] = worker[v] /\ worker[v].id \in Ids /\ StaleIsSignalled(v) /\ v # None
        BY <2>2, Typed, ActiveTyped DEF WantedInv
      <3>2. active'[worker[v].id] = v => active[worker[v].id] = v
        BY <1>1, <3>1
      <3> QED
        BY <2>2, <3>1, <3>2, OthersStale
    <2>3. CASE v # w /\ worker[v].phase \notin {"checked", "transfer"}
      BY <2>3 DEF StaleIsSignalled
    <2> QED
      BY <2>1, <2>2, <2>3
  <1>4. run' = "down" => \A i \in Ids : active'[i] = None
    BY <1>1 DEF WantedInv
  <1> QED
    BY <1>2, <1>3, <1>4 DEF WantedInv

\* The steps of a worker.
LEMMA WorkerWanted ==
    ASSUME TypeOK, TypeOK', ClaimInv, WantedInv, NEW w \in Workers, WorkerStep(w)
    PROVE  WantedInv'
  <1> USE DEF queueVars, runVars, ghostVars
  <1>1. /\ worker \in [Workers -> TypedWorker] /\ rows \in [Keys -> TypedRow]
        /\ \A k \in Keys : rows[k] \in TypedRow
    BY Typed DEF TypeOK
  <1>2. \A k : rows' = rows => SameClaimColumns(k)
    BY DEF SameClaimColumns
  <1>3. worker[w].phase \notin {"registered", "checked", "transfer", "ending"} => \A i \in Ids : active[i] # w
    BY ActiveTyped DEF WantedInv, Registered
  <1>4. ASSUME NEW v \in Workers, v # w, Busy(v), Busy(w), worker[v].key = worker[w].key, HoldsClaim(w)
        PROVE  ~OwnsCurrent(v)
    BY <1>4 DEF OwnsCurrent, HoldsClaim, ClaimInv, ClaimOf
  <1>5. CASE Poll(w) \/ ClaimNothing(w)
    <2>1. /\ \A v \in Workers : v # w => worker'[v] = worker[v]
          /\ worker[w].phase \in {"idle", "polled"} /\ UNCHANGED <<rows, active, signals, run, observing>>
      BY <1>1, <1>5 DEF Poll, ClaimNothing
    <2>2. worker'[w].phase \in {"idle", "polled"}
      <3>1. ASSUME Poll(w) PROVE worker'[w].phase = "polled"
        <4>1. worker'[w] = [worker[w] EXCEPT !.phase = "polled", !.manual = ~observing]
          BY <1>1, <3>1 DEF Poll
        <4> QED
          BY ONLY <1>1, w \in Workers, <4>1, WorkerShapes
      <3> QED
        BY <1>1, <1>5, <3>1 DEF ClaimNothing, IdleWorker
    <2> QED
      BY <1>2, <1>3, <2>1, <2>2, UnregisteredWanted
  <1>6. CASE Claim(w) \/ ClaimLost(w)
    <2>1. PICK k \in Keys : rows[k].status = "pending" /\ ClaimRow(k)
      BY <1>6 DEF Claim, ClaimLost, FirstEligible, Eligible
    <2>2. /\ \A v \in Workers : v # w => worker'[v] = worker[v]
          /\ worker'[w].phase \in {"claimed", "idle"} /\ worker[w].phase = "polled"
          /\ UNCHANGED <<active, signals, run, observing>>
      <3>1. CASE Claim(w)
        BY <1>1, <3>1 DEF Claim, IdleWorker
      <3>2. CASE ClaimLost(w)
        BY <1>1, <3>2 DEF ClaimLost, IdleWorker
      <3> QED
        BY <1>6, <3>1, <3>2
    <2>3. \A j \in Keys : j # k => SameClaimColumns(j)
      BY <1>1, <2>1 DEF ClaimRow, SameClaimColumns
    <2>4. rows'[k].id = rows[k].id
      <3>1. rows'[k] = [rows[k] EXCEPT !.status = "processing", !.claim = rows[k].gen,
                                       !.attempts = rows[k].attempts + 1]
        BY <1>1, <2>1 DEF ClaimRow
      <3> QED
        BY ONLY <1>1, k \in Keys, <3>1, ClaimedColumns
    <2>5. \A v \in Workers : worker[v].key = k => ~OwnsCurrent(v)
      BY <2>1 DEF OwnsCurrent, HoldsClaim
    <2>6. \A v \in Workers : worker[v].phase \in {"checked", "transfer"} => worker[v].key \in Keys
      BY Typed
    <2> QED
      BY <1>3, <2>2, <2>3, <2>4, <2>5, <2>6, UnregisteredWanted
  <1>7. CASE Unregister(w)
    <2>1. /\ \A v \in Workers : v # w => worker'[v] = worker[v]
          /\ worker'[w].phase = "finishing" /\ worker[w].phase = "ending"
          /\ active' = [active EXCEPT ![worker[w].id] = None]
          /\ UNCHANGED <<rows, signals, run, observing>>
      BY <1>1, <1>7 DEF Unregister, IdleWorker
    <2>2. \A i \in Ids : active'[i] # w
      BY <2>1, ActiveTyped DEF WantedInv, Registered
    <2> QED
      BY <1>2, <2>1, <2>2, UnregisteredWanted
  <1>8. CASE Finish(w)
    <2> DEFINE k == worker[w].key
    <2>1. /\ \A v \in Workers : v # w => worker'[v] = worker[v]
          /\ worker'[w].phase = "idle" /\ worker[w].phase = "finishing" /\ k \in Keys
          /\ UNCHANGED <<active, signals, run, observing>>
          /\ \A j \in Keys : j # k => rows'[j] = rows[j]
          /\ ~HoldsClaim(w) => rows' = rows
      BY <1>1, <1>8, Typed DEF Finish, IdleWorker
    <2>2. HoldsClaim(w) => rows'[k].id = rows[k].id
      <3>1. HoldsClaim(w) => rows'[k] = FinishedRow(rows[k], w)
        BY <1>1, <1>8, <2>1 DEF Finish
      <3> HIDE DEF k
      <3> QED
        BY ONLY <1>1, <2>1, <3>1, FinishedColumns
    <2>3. ASSUME NEW v \in Workers \ {w}, worker[v].phase \in {"checked", "transfer"}
          PROVE  \/ SameClaimColumns(worker[v].key)
                 \/ rows'[worker[v].key].id = rows[worker[v].key].id /\ ~OwnsCurrent(v)
      <3>1. worker[v].key \in Keys /\ Busy(v) /\ Busy(w)
        BY <2>1, <2>3, Typed DEF Busy
      <3>2. CASE worker[v].key # k \/ ~HoldsClaim(w)
        BY <2>1, <3>1, <3>2 DEF SameClaimColumns
      <3>3. CASE worker[v].key = k /\ HoldsClaim(w)
        BY <1>4, <2>2, <3>1, <3>3
      <3> QED
        BY <3>2, <3>3
    <2> QED
      BY <1>3, <2>1, <2>3, UnregisteredWanted
  <1>9. CASE Register(w)
    <2>1. /\ Onward(w) /\ (worker'[w].origin = "live" /\ ~worker'[w].cancelled => observing)
          /\ worker[w].phase = "claimed" /\ worker'[w].phase = "registered"
          /\ active' = [active EXCEPT ![worker[w].id] = w] /\ worker[w].id \in Ids
          /\ UNCHANGED <<rows, signals, run, observing>>
      <3>1. worker'[w].phase = "registered"
        <4>1. PICK c : worker'[w] = [worker[w] EXCEPT !.phase = "registered", !.cancelled = c]
          BY <1>1, <1>9 DEF Register
        <4> QED
          BY ONLY <1>1, w \in Workers, <4>1, WorkerShapes
      <3> QED
        BY <1>9, <3>1, OnwardSteps, Typed DEF Register
    <2>2. \A i \in Ids : Registered(i)' /\ Observed(i)'
      <3> SUFFICES ASSUME NEW i \in Ids PROVE Registered(i)' /\ Observed(i)'
        OBVIOUS
      <3>1. CASE i = worker[w].id
        BY <2>1, <3>1, ActiveTyped DEF Registered, Observed, Onward, SameWork, SameAttempt
      <3>2. CASE i # worker[w].id
        <4>1. active'[i] = active[i] /\ active[i] \in Workers \cup {None}
          BY <2>1, <3>2, ActiveTyped
        <4>2. active[i] # w
          BY <1>3, <2>1
        <4>3. active[i] # None => worker'[active[i]] = worker[active[i]]
          BY <2>1, <4>1, <4>2 DEF Onward
        <4> QED
          BY <2>1, <4>1, <4>3 DEF WantedInv, Registered, Observed
      <3> QED
        BY <3>1, <3>2
    <2>3. ASSUME NEW v \in Workers PROVE StaleIsSignalled(v)'
      <3>1. CASE v = w
        BY <2>1, <3>1 DEF StaleIsSignalled
      <3>2. CASE v # w /\ worker[v].phase \in {"checked", "transfer"}
        <4>1. worker'[v] = worker[v] /\ worker[v].id \in Ids /\ StaleIsSignalled(v)
          BY <2>1, <3>2, Typed DEF WantedInv, Onward
        <4>2. active'[worker[v].id] = v => active[worker[v].id] = v
          BY <2>1, <3>2, <4>1, ActiveTyped
        <4> QED
          BY <1>2, <2>1, <4>1, <4>2, OthersStale
      <3>3. CASE v # w /\ worker[v].phase \notin {"checked", "transfer"}
        BY <2>1, <3>3 DEF StaleIsSignalled, Onward
      <3> QED
        BY <3>1, <3>2, <3>3
    <2>4. run # "down"
      BY <2>1 DEF ClaimInv
    <2> QED
      BY <2>1, <2>2, <2>3, <2>4 DEF WantedInv
  <1>10. ASSUME Onward(w), worker[w].phase # "claimed",
                UNCHANGED <<active, signals, run, observing>>,
                \A v \in Workers : worker[v].phase \in {"checked", "transfer"} =>
                  \/ SameClaimColumns(worker[v].key)
                  \/ /\ rows'[worker[v].key].id = rows[worker[v].key].id
                     /\ v # w => ~OwnsCurrent(v)
                     /\ v = w => worker'[w].phase = "ending",
                worker[w].phase = "registered" => rows' = rows
         PROVE  WantedInv'
    <2>1. \A v \in Workers : v # w => worker'[v] = worker[v]
      BY <1>10 DEF Onward
    <2>2. /\ worker'[w].id = worker[w].id /\ worker'[w].key = worker[w].key
          /\ worker'[w].gen = worker[w].gen /\ worker'[w].origin = worker[w].origin
          /\ worker[w].cancelled => worker'[w].cancelled
          /\ worker'[w].phase \in {"checked", "transfer", "ending"}
          /\ worker[w].phase \in {"registered", "checked", "transfer"}
      BY <1>10 DEF Onward, SameWork, SameAttempt
    <2>3. \A i \in Ids : Registered(i)' /\ Observed(i)'
      <3> SUFFICES ASSUME NEW i \in Ids, active[i] # None PROVE Registered(i)' /\ Observed(i)'
        BY <1>10 DEF Registered, Observed
      <3>1. active[i] \in Workers /\ Registered(i) /\ Observed(i)
        BY ActiveTyped DEF WantedInv
      <3>2. CASE active[i] = w
        BY <1>10, <2>2, <3>1, <3>2 DEF Registered, Observed
      <3>3. CASE active[i] # w
        BY <1>10, <2>1, <3>1, <3>3 DEF Registered, Observed
      <3> QED
        BY <3>2, <3>3
    <2>4. ASSUME NEW v \in Workers PROVE StaleIsSignalled(v)'
      <3>1. CASE v = w /\ worker'[w].phase # "ending"
        <4>1. CASE worker[w].phase = "registered"
          <5>1. OwnsCurrent(w)
            BY <1>10, <3>1, <4>1 DEF Onward
          <5>2. OwnsCurrent(w)'
            BY <1>10, <2>2, <4>1, <5>1 DEF OwnsCurrent, HoldsClaim
          <5> QED
            BY <3>1, <5>2 DEF StaleIsSignalled
        <4>2. CASE worker[w].phase \in {"checked", "transfer"}
          <5>1. SameClaimColumns(worker[w].key) /\ StaleIsSignalled(w)
            BY <1>10, <3>1, <4>2 DEF WantedInv
          <5> QED
            BY <1>10, <2>2, <3>1, <4>2, <5>1
               DEF StaleIsSignalled, Signalled, SameClaimColumns, OwnsCurrent, HoldsClaim
        <4> QED
          BY <2>2, <4>1, <4>2
      <3>2. CASE v = w /\ worker'[w].phase = "ending"
        BY <3>2 DEF StaleIsSignalled
      <3>3. CASE v # w /\ worker[v].phase \in {"checked", "transfer"}
        <4>1. worker'[v] = worker[v] /\ StaleIsSignalled(v)
          BY <2>1, <3>3 DEF WantedInv
        <4> QED
          BY <1>10, <3>3, <4>1, OthersStale
      <3>4. CASE v # w /\ worker[v].phase \notin {"checked", "transfer"}
        BY <2>1, <3>4 DEF StaleIsSignalled
      <3> QED
        BY <3>1, <3>2, <3>3, <3>4
    <2> QED
      BY <1>10, <2>3, <2>4 DEF WantedInv
  <1>11. ASSUME \/ CheckCurrent(w) \/ StartTransfer(w)
                \/ \E res \in {"ok", "error", "flood", "filtered"} :
                     RefreshFailed(w, res) \/ EndTransfer(w, res)
         PROVE  WantedInv'
    <2>1. Onward(w)
      BY <1>11, OnwardSteps
    <2>2. worker[w].phase # "claimed" /\ UNCHANGED <<rows, active, signals, run, observing>>
      BY <1>11 DEF CheckCurrent, StartTransfer, RefreshFailed, EndTransfer
    <2> QED
      BY <1>2, <1>10, <2>1, <2>2
  <1>12. ASSUME NEW m \in Messages, Refresh(w, m.version, m.identity) PROVE WantedInv'
    <2> DEFINE k == worker[w].key
    <2>1. /\ k \in Keys /\ Onward(w) /\ worker[w].phase = "checked" /\ Busy(w)
          /\ UNCHANGED <<active, signals, run, observing>>
          /\ \A j \in Keys : j # k => rows'[j] = rows[j]
      BY <1>1, <1>12, Typed, OnwardSteps DEF Refresh, Busy
    <2>2. \/ SameClaimColumns(k)
          \/ rows'[k].id = rows[k].id /\ HoldsClaim(w) /\ worker'[w].phase = "ending"
      <3> DEFINE other == m.identity # rows[k].identity
                 g == IF other THEN rows[k].gen + 1 ELSE rows[k].gen
                 n == IF other THEN 0 ELSE rows[k].attempts
                 x == Larger(rows[k].version, m.version)
                 u == [rows[k] EXCEPT !.gen = g, !.attempts = n, !.version = x,
                                      !.identity = m.identity, !.body = TRUE, !.refresh = FALSE]
      <3>1. \/ rows'[k] = rows[k]
            \/ rows'[k] = u /\ HoldsClaim(w)
        BY <1>1, <1>12, <2>1 DEF Refresh
      <3>2. rows'[k] = u => /\ rows'[k].id = rows[k].id /\ rows'[k].gen = g
                            /\ rows'[k].status = rows[k].status /\ rows'[k].claim = rows[k].claim
        <4> HIDE DEF g, n, x, k
        <4> QED
          BY ONLY <1>1, <2>1, RefreshedColumns DEF u
      <3>3. other => worker'[w].phase = "ending"
        <4>1. other => worker'[w] = [worker[w] EXCEPT !.phase = "ending", !.result = "error", !.cancelled = TRUE]
          BY <1>1, <1>12 DEF Refresh
        <4>2. ASSUME worker'[w] = [worker[w] EXCEPT !.phase = "ending", !.result = "error", !.cancelled = TRUE]
              PROVE  worker'[w].phase = "ending"
          BY ONLY <1>1, w \in Workers, <4>2, WorkerShapes
        <4> QED
          BY <4>1, <4>2
      <3>4. CASE rows'[k] = rows[k]
        BY <3>4 DEF SameClaimColumns
      <3>5. CASE rows'[k] = u /\ HoldsClaim(w)
        <4> HIDE DEF u, k
        <4> QED
          BY <3>2, <3>3, <3>5 DEF SameClaimColumns
      <3> HIDE DEF u
      <3> QED
        BY <3>1, <3>4, <3>5
    <2>3. ASSUME NEW v \in Workers, worker[v].phase \in {"checked", "transfer"}
          PROVE  \/ SameClaimColumns(worker[v].key)
                 \/ /\ rows'[worker[v].key].id = rows[worker[v].key].id
                    /\ v # w => ~OwnsCurrent(v)
                    /\ v = w => worker'[w].phase = "ending"
      <3>1. worker[v].key \in Keys /\ Busy(v)
        BY <2>3, Typed DEF Busy
      <3>2. CASE worker[v].key # k
        BY <2>1, <3>1, <3>2 DEF SameClaimColumns
      <3>3. CASE worker[v].key = k
        BY <1>4, <2>1, <2>2, <3>1, <3>3
      <3> QED
        BY <3>2, <3>3
    <2> QED
      BY <1>10, <2>1, <2>3
  <1> QED
    BY <1>5, <1>6, <1>7, <1>8, <1>9, <1>11, <1>12 DEF WorkerProgress, WorkerStep

\* Signals and the lifetime of the run: a signal is taken down only with the cancel
\* function it calls, and StopObserving cancels every live transfer that is registered.
LEMMA RunWanted ==
    ASSUME TypeOK, ClaimInv, WantedInv,
           \/ \E s \in signals : Signal(s)
           \/ \E a \in Accounts : FloodWaitEnds(a)
           \/ Promote \/ StopObserving \/ Stop \/ Stopped \/ Crash
    PROVE  WantedInv'
  <1> USE DEF queueVars, runVars, ghostVars
  <1>1. worker \in [Workers -> TypedWorker]
    BY DEF TypeOK
  <1>2. UNCHANGED rows
    BY DEF Signal, FloodWaitEnds, Promote, StopObserving, Stop, Stopped, Crash
  <1>3. ASSUME active' = active,
               \A w \in Workers : worker'[w] = worker[w] \/ worker'[w] = [worker[w] EXCEPT !.cancelled = TRUE],
               \A i \in Ids : Observed(i)',
               \A w \in Workers : Signalled(w) => Signalled(w)',
               run' = "down" => run = "down"
        PROVE  WantedInv'
    <2>1. \A w \in Workers : /\ worker'[w].phase = worker[w].phase /\ worker'[w].id = worker[w].id
                             /\ worker'[w].key = worker[w].key /\ worker'[w].gen = worker[w].gen
                             /\ worker[w].cancelled => worker'[w].cancelled
      BY <1>3, CancelledMoves DEF SameWork, SameAttempt
    <2>2. \A i \in Ids : Registered(i)'
      BY <1>3, <2>1, ActiveTyped DEF WantedInv, Registered
    <2>3. \A w \in Workers : StaleIsSignalled(w)'
      <3> SUFFICES ASSUME NEW w \in Workers, worker'[w].phase \in {"checked", "transfer"},
                          active'[worker'[w].id] = w, ~worker'[w].cancelled,
                          rows'[worker'[w].key].id = worker'[w].id, ~OwnsCurrent(w)'
                   PROVE  Signalled(w)'
        BY DEF StaleIsSignalled
      <3>1. ~OwnsCurrent(w)
        BY <1>2, <2>1 DEF OwnsCurrent, HoldsClaim
      <3>2. Signalled(w) /\ active[worker[w].id] = w
        BY <1>2, <1>3, <2>1, <3>1 DEF WantedInv, StaleIsSignalled
      <3> QED
        BY <1>3, <3>2
    <2> QED
      BY <1>3, <2>2, <2>3 DEF WantedInv
  <1>4. ASSUME \A w \in Workers : worker'[w] = worker[w] \/ worker'[w] = [worker[w] EXCEPT !.cancelled = TRUE],
               active' = active, observing' = observing
        PROVE  \A i \in Ids : Observed(i)'
    <2>1. \A w \in Workers : /\ worker'[w].phase = worker[w].phase /\ worker'[w].origin = worker[w].origin
                             /\ worker[w].cancelled => worker'[w].cancelled
      BY <1>4, CancelledMoves DEF SameWork, SameAttempt
    <2> QED
      BY <1>4, <2>1, ActiveTyped DEF WantedInv, Observed
  <1>5. ASSUME NEW s \in signals, Signal(s) PROVE WantedInv'
    <2>1. \A w \in Workers : worker'[w] = worker[w] \/ worker'[w] = [worker[w] EXCEPT !.cancelled = TRUE]
      BY <1>1, <1>5 DEF Signal
    <2>2. ASSUME NEW w \in Workers, Signalled(w), ~Signalled(w)', active[worker[w].id] = w,
                 rows[worker[w].key].id = worker[w].id, worker[w].phase \in {"checked", "transfer"}
          PROVE  worker'[w].cancelled
      <3>1. worker'[w].id = worker[w].id /\ worker'[w].key = worker[w].key
        BY <2>1, CancelledMoves DEF SameWork, SameAttempt
      <3>2. s = <<"id", worker[w].id>> \/ s = <<"key", worker[w].key>>
        BY <1>5, <2>2, <3>1 DEF Signal, Signalled
      <3>3. SignalId(s) = worker[w].id
        BY <2>2, <3>2 DEF SignalId
      <3>4. worker[w].id \in Ids /\ worker[w].id # 0 /\ w # None
        BY <2>2, Typed, ActiveTyped, QueueAssumption DEF Ids, QueueAssumption
      <3>5. worker'[w] = [worker[w] EXCEPT !.cancelled = TRUE]
        BY <1>1, <1>5, <2>2, <3>3, <3>4 DEF Signal
      <3>6. worker[w] \in TypedWorker
        BY Typed
      <3>7. LET u == worker'[w] IN u.cancelled = TRUE
        BY ONLY <3>5, <3>6, WorkerRest
      <3> QED
        BY <3>7
    <2>3. /\ active' = active /\ run' = run /\ observing' = observing
      BY <1>5 DEF Signal
    <2>4. \A i \in Ids : Registered(i)' /\ Observed(i)'
      <3>1. \A w \in Workers : worker'[w].phase = worker[w].phase /\ worker'[w].id = worker[w].id
        BY <2>1, CancelledMoves DEF SameWork, SameAttempt
      <3> QED
        BY <1>4, <2>1, <2>3, <3>1, ActiveTyped DEF WantedInv, Registered
    <2>5. \A w \in Workers : StaleIsSignalled(w)'
      <3> SUFFICES ASSUME NEW w \in Workers, worker'[w].phase \in {"checked", "transfer"},
                          active'[worker'[w].id] = w, ~worker'[w].cancelled,
                          rows'[worker'[w].key].id = worker'[w].id, ~OwnsCurrent(w)', ~Signalled(w)'
                   PROVE  FALSE
        BY DEF StaleIsSignalled
      <3>1. /\ worker'[w].phase = worker[w].phase /\ worker'[w].id = worker[w].id
            /\ worker'[w].key = worker[w].key /\ worker'[w].gen = worker[w].gen
            /\ worker[w].cancelled => worker'[w].cancelled
        BY <2>1, CancelledMoves DEF SameWork, SameAttempt
      <3>2. ~OwnsCurrent(w)
        BY <1>2, <3>1 DEF OwnsCurrent, HoldsClaim
      <3>3. /\ Signalled(w) /\ active[worker[w].id] = w /\ rows[worker[w].key].id = worker[w].id
            /\ worker[w].phase \in {"checked", "transfer"}
        BY <1>2, <2>3, <3>1, <3>2 DEF WantedInv, StaleIsSignalled
      <3> QED
        BY <2>2, <3>3
    <2> QED
      BY <2>3, <2>4, <2>5 DEF WantedInv
  <1>6. CASE Stop \/ StopObserving
    <2>1. \A w \in Workers : worker'[w] = worker[w] \/ worker'[w] = [worker[w] EXCEPT !.cancelled = TRUE]
      BY <1>6 DEF Stop, StopObserving, CancelWorkers
    <2>2. /\ active' = active /\ signals' = signals /\ run' # "down"
      BY <1>6 DEF Stop, StopObserving
    <2>3. \A w \in Workers : Signalled(w) => Signalled(w)'
      BY <2>1, <2>2, CancelledMoves DEF Signalled, SameWork, SameAttempt
    <2>4. CASE Stop
      <3>1. observing' = observing
        BY <2>4 DEF Stop
      <3> QED
        BY <1>3, <1>4, <2>1, <2>2, <2>3, <3>1
    <2>5. CASE StopObserving
      <3>1. ASSUME NEW i \in Ids, active[i] # None, worker[active[i]].origin = "live"
            PROVE  worker'[active[i]].cancelled
        <4>1. active[i] \in Workers /\ worker[active[i]].phase \in {"registered", "checked", "transfer", "ending"}
          BY <3>1, ActiveTyped DEF WantedInv, Registered
        <4>2. worker'[active[i]] = [worker[active[i]] EXCEPT !.cancelled = TRUE]
          BY <2>5, <3>1, <4>1 DEF StopObserving, CancelWorkers
        <4>3. worker[active[i]] \in TypedWorker
          BY <4>1, Typed
        <4>4. LET u == worker'[active[i]] IN u.cancelled = TRUE
          BY ONLY <4>2, <4>3, WorkerRest
        <4> QED
          BY <4>4
      <3>2. \A i \in Ids : Observed(i)'
        <4> SUFFICES ASSUME NEW i \in Ids, active[i] # None, worker'[active[i]].origin = "live"
                     PROVE  worker'[active[i]].cancelled
          BY <2>2 DEF Observed
        <4>1. active[i] \in Workers
          BY ActiveTyped
        <4>2. worker[active[i]].origin = "live"
          BY <2>1, <4>1, CancelledMoves DEF SameWork, SameAttempt
        <4> QED
          BY <3>1, <4>2
      <3> QED
        BY <1>3, <2>1, <2>2, <2>3, <3>2
    <2> QED
      BY <1>6, <2>4, <2>5
  <1>7. CASE (\E a \in Accounts : FloodWaitEnds(a)) \/ Promote
    <2>1. /\ UNCHANGED <<worker, active, signals, run>> /\ (observing => observing')
      BY <1>7 DEF FloodWaitEnds, Promote
    <2> QED
      BY <1>2, <2>1 DEF WantedInv, Registered, Observed, StaleIsSignalled, Signalled, OwnsCurrent, HoldsClaim
  <1>8. CASE Stopped \/ Crash
    <2>1. /\ \A i \in Ids : active'[i] = None
          /\ \A w \in Workers : worker'[w].phase = "idle"
      BY <1>8 DEF Stopped, Crash, IdleWorker
    <2> QED
      BY <2>1 DEF WantedInv, Registered, Observed, StaleIsSignalled
  <1> QED
    BY <1>5, <1>6, <1>7, <1>8

LEMMA WantedInvariant == Spec => []WantedInv
  <1>1. Init => WantedInv
    BY DEF Init, WantedInv, Registered, Observed, StaleIsSignalled, IdleWorker
  <1>2. TypeOK /\ TypeOK' /\ ClaimInv /\ WantedInv /\ [Next]_vars => WantedInv'
    <2> SUFFICES ASSUME TypeOK, TypeOK', ClaimInv, WantedInv, [Next]_vars PROVE WantedInv'
      OBVIOUS
    <2>1. CASE UNCHANGED vars
      BY <2>1 DEF vars, WantedInv, Registered, Observed, StaleIsSignalled, Signalled, OwnsCurrent, HoldsClaim
    <2> QED
      BY <2>1, WorkerWanted, StatementsWanted, RunWanted DEF Next, Lifecycle
  <1> QED
    BY <1>1, <1>2, TypeCorrect, ClaimsInvariant, PTL DEF Spec

\* Once every queue operation has reached its lookup, a registered transfer works for the
\* generation its row has now, and live work that is registered is observed (IsCurrent and
\* the active map, engine/controller.go).
THEOREM TransfersStayWanted == Spec => []TransfersAreWanted
  <1>1. WantedInv => TransfersAreWanted
    <2> SUFFICES ASSUME WantedInv PROVE NoStaleTransfer /\ RegisteredLiveIsObserved
      BY DEF TransfersAreWanted
    <2>1. NoStaleTransfer
      BY DEF NoStaleTransfer, Stale, WantedInv, StaleIsSignalled, Signalled
    <2>2. RegisteredLiveIsObserved
      BY DEF RegisteredLiveIsObserved, WantedInv, Observed
    <2> QED
      BY <2>1, <2>2
  <1> QED
    BY <1>1, WantedInvariant, PTL

-----------------------------------------------------------------------------
(* The observation a row describes is the latest one that was made of it.   *)

Observations == Nat \X Nat \X (Identities \cup {None})

\* The row is one of the observations recorded of it, and none is later.
RecordFits(k) ==
    LET r == rows[k] IN
    IF r.id = 0 THEN seen[k] = {}
    ELSE Comparable(k) =>
           /\ <<r.version, r.pts, r.identity>> \in seen[k]
           /\ \A p \in seen[k] : /\ p[1] <= r.version
                                 /\ p[1] = r.version => p[2] <= r.pts

RecordInv ==
    /\ seen \in [Keys -> SUBSET Observations]
    /\ \A k \in Keys : RecordFits(k)

\* What a statement other than enqueueWork leaves of a row: nothing, or a row that was
\* there, whose pts only ReassignGroup resets, and not for a channel.
KeepsPts(k) ==
    rows'[k].id # 0 =>
        /\ rows[k].id # 0
        /\ rows'[k].pts = rows[k].pts \/ (k \notin ChannelKeys /\ rows'[k].pts = 0)

\* The columns of a row that order its observations.
LEMMA ObservedTyped ==
    ASSUME NEW r \in TypedRow
    PROVE  r.version \in Nat /\ r.pts \in Nat /\ r.identity \in Identities \cup {None}
  BY DEF TypedRow, Row

\* They are kept by Claim, Refresh and Finish,
LEMMA WorkerObserved ==
    ASSUME NEW r \in TypedRow, NEW g, NEW n, NEW v, NEW d, NEW w
    PROVE  /\ LET u == [r EXCEPT !.status = "processing", !.claim = g, !.attempts = n]
              IN u.id = r.id /\ u.pts = r.pts
           /\ LET u == [r EXCEPT !.gen = g, !.attempts = n, !.version = v, !.identity = d,
                                 !.body = TRUE, !.refresh = FALSE]
              IN u.id = r.id /\ u.pts = r.pts
           /\ FinishedRow(r, w).id = r.id /\ FinishedRow(r, w).pts = r.pts
  BY DEF TypedRow, Row, FinishedRow

\* by queue operations, timers and Recover,
LEMMA OperatedObserved ==
    ASSUME NEW r \in TypedRow, NEW b
    PROVE  /\ LET u == [r EXCEPT !.status = "pending", !.claim = 0]
              IN u.id = r.id /\ u.pts = r.pts
           /\ LET u == [r EXCEPT !.paused = b]
              IN u.id = r.id /\ u.pts = r.pts /\ u.version = r.version /\ u.identity = r.identity
           /\ LET u == [r EXCEPT !.backoff = FALSE]
              IN u.id = r.id /\ u.pts = r.pts
           /\ CancelledRow(r).id = r.id /\ CancelledRow(r).pts = r.pts
           /\ RetriedRow(r).id = r.id /\ RetriedRow(r).pts = r.pts
  BY DEF TypedRow, Row, CancelledRow, RetriedRow

\* and by ReassignGroup but for the pts,
LEMMA ReassignedObserved ==
    ASSUME NEW r \in TypedRow, NEW a, NEW p, NEW g
    PROVE  ReassignedRow(r, a, p, g).id = r.id /\ ReassignedRow(r, a, p, g).pts = p
  BY DEF TypedRow, Row, ReassignedRow

\* and are set by enqueueWork.
LEMMA EnqueuedObserved ==
    ASSUME NEW k \in Keys, NEW m \in Messages, rows[k] \in TypedRow
    PROVE  /\ InsertedRow(k, m).version = m.version
           /\ InsertedRow(k, m).pts = SourcePts(k, m)
           /\ InsertedRow(k, m).identity = m.identity
           /\ UpdatedRow(k, m).id = rows[k].id
           /\ UpdatedRow(k, m).version = m.version
           /\ UpdatedRow(k, m).identity = m.identity
           /\ Comparable(k) =>
                UpdatedRow(k, m).pts = IF SameObservation(k, m)
                                       THEN Larger(rows[k].pts, SourcePts(k, m))
                                       ELSE SourcePts(k, m)
           /\ WatermarkedRow(k, m).id = rows[k].id
           /\ WatermarkedRow(k, m).version = rows[k].version
           /\ WatermarkedRow(k, m).identity = rows[k].identity
           /\ Comparable(k) =>
                WatermarkedRow(k, m).pts = IF SameObservation(k, m)
                                           THEN Larger(rows[k].pts, SourcePts(k, m))
                                           ELSE rows[k].pts
  BY DEF TypedRow, Row, InsertedRow, NoRow, UpdatedRow, WatermarkedRow

\* enqueueWork stores an observation that supersedes the row, and otherwise at most
\* raises the watermark of the one that is there.
LEMMA ObserveFits ==
    ASSUME TypeOK, RecordInv, NEW k \in Keys, NEW m \in Messages, Observe(k, m)
    PROVE  RecordInv'
  <1>1. /\ rows \in [Keys -> TypedRow] /\ rows[k] \in TypedRow /\ rows[k].version \in Nat
        /\ rows[k].pts \in Nat
    BY Typed, ObservedTyped DEF TypeOK
  <1>2. m.version \in Nat /\ m.pts \in Nat /\ m.identity \in Identities
    BY QueueAssumption DEF QueueAssumption
  <1>3. SourcePts(k, m) \in Nat
    BY <1>1, <1>2 DEF SourcePts
  <1>4. Observation(k, m) = <<m.version, SourcePts(k, m), m.identity>> /\ Observation(k, m) \in Observations
    BY <1>2, <1>3 DEF Observation, Observations
  <1>5. /\ seen \in [Keys -> SUBSET Observations]
        /\ seen' = [seen EXCEPT ![k] = @ \cup {Observation(k, m)}]
        /\ seen'[k] = seen[k] \cup {Observation(k, m)}
    BY DEF RecordInv, Observe
  <1>6. seen' \in [Keys -> SUBSET Observations]
    BY <1>4, <1>5
  <1>7. ASSUME NEW j \in Keys, j # k PROVE RecordFits(j)'
    <2>1. rows'[j] = rows[j] /\ seen'[j] = seen[j]
      BY <1>1, <1>5, <1>7 DEF Observe, Enqueue
    <2> QED
      BY <2>1 DEF RecordInv, RecordFits, Comparable
  <1>8. RecordFits(k)'
    <2> DEFINE r == rows[k]
               u == rows'[k]
               s == SourcePts(k, m)
    <2>1. /\ \A p \in seen[k] : p[1] \in Nat /\ p[2] \in Nat
          /\ r.id = 0 => seen[k] = {}
          /\ r.id # 0 /\ Comparable(k) =>
               /\ <<r.version, r.pts, r.identity>> \in seen[k]
               /\ \A p \in seen[k] : p[1] <= r.version /\ (p[1] = r.version => p[2] <= r.pts)
      BY <1>5 DEF RecordInv, RecordFits, Observations
    <2>2. SUFFICES ASSUME Comparable(k), u.id # 0
                   PROVE  /\ <<u.version, u.pts, u.identity>> \in seen'[k]
                          /\ \A p \in seen'[k] : p[1] <= u.version /\ (p[1] = u.version => p[2] <= u.pts)
      <3>1. u.id # 0
        <4>1. CASE u = InsertedRow(k, m)
          <5>1. InsertedRow(k, m).id = nextId /\ nextId # 0
            BY QueueAssumption DEF InsertedRow, NoRow, TypeOK, QueueAssumption
          <5> QED
            BY <4>1, <5>1
        <4>2. CASE r.id # 0 /\ (u = UpdatedRow(k, m) \/ u = WatermarkedRow(k, m))
          BY <1>1, <4>2, EnqueuedObserved
        <4> QED
          BY <1>1, <4>1, <4>2 DEF Observe, Enqueue, Exists
      <3> QED
        BY <3>1 DEF RecordFits, Comparable
    <2>3. \A p \in seen'[k] : p \in seen[k] \/ p = <<m.version, s, m.identity>>
      BY <1>4, <1>5
    <2>4. <<m.version, s, m.identity>> \in seen'[k] /\ seen[k] \subseteq seen'[k]
      BY <1>4, <1>5
    <2>5. CASE r.id = 0 /\ u = InsertedRow(k, m)
      <3>1. u.version = m.version /\ u.pts = s /\ u.identity = m.identity
        BY <1>1, <2>5, EnqueuedObserved
      <3>2. seen'[k] = {<<m.version, s, m.identity>>}
        BY <1>4, <1>5, <2>1, <2>5
      <3> QED
        BY <1>2, <1>3, <3>1, <3>2
    <2>6. CASE r.id # 0 /\ SameObservation(k, m) /\ (u = UpdatedRow(k, m) \/ u = WatermarkedRow(k, m))
      <3>1. /\ m.version = r.version /\ m.identity = r.identity
            /\ u.version = r.version /\ u.identity = r.identity /\ u.pts = Larger(r.pts, s)
        BY <1>1, <2>2, <2>6, EnqueuedObserved DEF SameObservation
      <3>2. u.pts \in {r.pts, s} /\ u.pts >= r.pts /\ u.pts >= s
        BY <1>1, <1>3, <3>1 DEF Larger
      <3>3. <<u.version, u.pts, u.identity>> \in seen'[k]
        BY <2>1, <2>2, <2>4, <2>6, <3>1, <3>2
      <3>4. ASSUME NEW p \in seen'[k] PROVE p[1] <= u.version /\ (p[1] = u.version => p[2] <= u.pts)
        <4>1. CASE p \in seen[k]
          BY <1>1, <1>3, <2>1, <2>2, <2>6, <3>1, <3>2, <4>1
        <4>2. CASE p = <<m.version, s, m.identity>>
          BY <1>1, <1>3, <3>1, <3>2, <4>2
        <4> QED
          BY <2>3, <4>1, <4>2
      <3> QED
        BY <3>3, <3>4
    <2>7. CASE r.id # 0 /\ ~SameObservation(k, m) /\ Supersedes(k, m) /\ u = UpdatedRow(k, m)
      <3>1. u.version = m.version /\ u.identity = m.identity /\ u.pts = s
        BY <1>1, <2>2, <2>7, EnqueuedObserved
      <3>2. m.version > r.version \/ (m.version = r.version /\ s > r.pts)
        BY <2>7 DEF Supersedes
      <3>3. ASSUME NEW p \in seen'[k] PROVE p[1] <= u.version /\ (p[1] = u.version => p[2] <= u.pts)
        <4>1. CASE p \in seen[k]
          BY <1>1, <1>2, <1>3, <2>1, <2>2, <2>7, <3>1, <3>2, <4>1
        <4>2. CASE p = <<m.version, s, m.identity>>
          BY <1>2, <1>3, <3>1, <4>2
        <4> QED
          BY <2>3, <4>1, <4>2
      <3> QED
        BY <2>4, <3>1, <3>3
    <2>8. CASE r.id # 0 /\ ~SameObservation(k, m) /\ ~Supersedes(k, m) /\ u = WatermarkedRow(k, m)
      <3>1. u.version = r.version /\ u.identity = r.identity /\ u.pts = r.pts
        BY <1>1, <2>2, <2>8, EnqueuedObserved
      <3>2. m.version < r.version \/ (m.version = r.version /\ s <= r.pts)
        <4>1. ~(m.version > r.version)
          BY <2>8 DEF Supersedes
        <4>2. m.version = r.version => m.identity # r.identity
          BY <2>8 DEF SameObservation
        <4>3. m.version = r.version => ~(s > r.pts)
          BY <2>2, <2>8, <4>2 DEF Supersedes
        <4> QED
          BY <1>1, <1>2, <1>3, <4>1, <4>3
      <3>3. ASSUME NEW p \in seen'[k] PROVE p[1] <= u.version /\ (p[1] = u.version => p[2] <= u.pts)
        <4>1. CASE p \in seen[k]
          BY <2>1, <2>2, <2>8, <3>1, <4>1
        <4>2. CASE p = <<m.version, s, m.identity>>
          BY <1>1, <1>2, <1>3, <3>1, <3>2, <4>2
        <4> QED
          BY <2>3, <4>1, <4>2
      <3> QED
        BY <2>1, <2>2, <2>4, <2>8, <3>1, <3>3
    <2> QED
      BY <1>1, <2>5, <2>6, <2>7, <2>8 DEF Observe, Enqueue, Exists
  <1> QED
    BY <1>6, <1>7, <1>8 DEF RecordInv

\* The steps of a worker keep the order of what was observed.
LEMMA WorkerKeepsPts ==
    ASSUME TypeOK, NEW w \in Workers, WorkerStep(w), NEW k \in Keys
    PROVE  KeepsPts(k)
  <1> USE DEF queueVars, runVars, ghostVars
  <1>1. rows \in [Keys -> TypedRow] /\ rows[k] \in TypedRow
    BY Typed DEF TypeOK
  <1>2. CASE rows'[k] = rows[k]
    BY <1>2 DEF KeepsPts
  <1>3. ASSUME rows'[k].id = rows[k].id, rows'[k].pts = rows[k].pts PROVE KeepsPts(k)
    BY <1>3 DEF KeepsPts
  <1>4. ASSUME NEW j \in Keys, ClaimRow(j) PROVE KeepsPts(k)
    <2>1. CASE j = k
      <3> DEFINE u == [rows[k] EXCEPT !.status = "processing", !.claim = rows[k].gen, !.attempts = @ + 1]
      <3>1. rows'[k] = u
        BY <1>1, <1>4, <2>1 DEF ClaimRow
      <3>2. u.id = rows[k].id /\ u.pts = rows[k].pts
        BY <1>1, WorkerObserved
      <3> HIDE DEF u
      <3> QED
        BY <1>3, <3>1, <3>2
    <2> QED
      BY <1>1, <1>2, <1>4, <2>1 DEF ClaimRow
  <1>5. CASE Claim(w) \/ ClaimLost(w)
    BY <1>4, <1>5 DEF Claim, ClaimLost
  <1>6. ASSUME NEW v, NEW d, Refresh(w, v, d) PROVE KeepsPts(k)
    <2>1. CASE worker[w].key = k /\ rows' # rows
      <3> DEFINE other == d # rows[k].identity
                 g == IF other THEN rows[k].gen + 1 ELSE rows[k].gen
                 n == IF other THEN 0 ELSE rows[k].attempts
                 x == Larger(rows[k].version, v)
                 u == [rows[k] EXCEPT !.gen = g, !.attempts = n, !.version = x, !.identity = d,
                                      !.body = TRUE, !.refresh = FALSE]
      <3>1. rows'[k] = u
        BY <1>1, <1>6, <2>1 DEF Refresh
      <3>2. u.id = rows[k].id /\ u.pts = rows[k].pts
        <4> HIDE DEF g, n, x
        <4> QED
          BY <1>1, WorkerObserved
      <3> HIDE DEF u
      <3> QED
        BY <1>3, <3>1, <3>2
    <2>2. CASE worker[w].key # k
      <3>1. rows'[k] = rows[k]
        BY <1>1, <1>6, <2>2 DEF Refresh
      <3> QED
        BY <1>2, <3>1
    <2> QED
      BY <1>2, <2>1, <2>2
  <1>7. CASE Finish(w)
    <2>1. rows'[k] \in {rows[k], FinishedRow(rows[k], w)}
      BY <1>1, <1>7 DEF Finish
    <2>2. FinishedRow(rows[k], w).id = rows[k].id /\ FinishedRow(rows[k], w).pts = rows[k].pts
      BY <1>1, WorkerObserved
    <2> QED
      BY <1>2, <1>3, <2>1, <2>2
  <1>8. CASE \/ Poll(w) \/ ClaimNothing(w) \/ Register(w) \/ CheckCurrent(w) \/ StartTransfer(w)
             \/ \E res \in {"ok", "error", "flood", "filtered"} : RefreshFailed(w, res) \/ EndTransfer(w, res)
             \/ Unregister(w)
    <2>1. rows' = rows
      BY <1>8 DEF Poll, ClaimNothing, Register, CheckCurrent, StartTransfer, RefreshFailed, EndTransfer, Unregister
    <2> QED
      BY <1>2, <2>1
  <1> QED
    BY <1>5, <1>6, <1>7, <1>8 DEF WorkerStep, WorkerProgress

\* So do queue operations, timers, restarts and a change of account.
LEMMA OthersKeepPts ==
    ASSUME TypeOK, OtherStep, NEW k \in Keys
    PROVE  KeepsPts(k)
  <1> USE DEF queueVars, runVars, ghostVars
  <1>1. rows \in [Keys -> TypedRow] /\ rows[k] \in TypedRow
    BY Typed DEF TypeOK
  <1>2. CASE rows'[k] = rows[k]
    BY <1>2 DEF KeepsPts
  <1>3. ASSUME rows'[k].id = rows[k].id, rows'[k].pts = rows[k].pts PROVE KeepsPts(k)
    BY <1>3 DEF KeepsPts
  <1>4. CASE rows'[k] = NoRow
    BY <1>4 DEF KeepsPts, NoRow
  <1>5. CASE \/ rows'[k] = [rows[k] EXCEPT !.backoff = FALSE]
             \/ rows'[k] = [rows[k] EXCEPT !.status = "pending", !.claim = 0]
             \/ rows'[k] = CancelledRow(rows[k])
             \/ rows'[k] = RetriedRow(rows[k])
    <2>1. rows'[k].id = rows[k].id /\ rows'[k].pts = rows[k].pts
      BY ONLY <1>1, <1>5, OperatedObserved
    <2> QED
      BY <1>3, <2>1
  <1>6. CASE \E w \in Workers : WorkerStep(w)
    BY <1>6, WorkerKeepsPts
  <1>7. CASE \/ CancelAllQueued \/ \E j \in Keys : CancelJob(j)
             \/ \E ks \in {{j} : j \in Keys} \cup {Keys} : RetryJobs(ks) \/ DeleteFinished(ks)
             \/ \E j \in Keys : BackoffEnds(j) \/ DeleteFinished({j})
    <2>1. CASE CancelAllQueued \/ \E j \in Keys : CancelJob(j)
      BY <1>1, <1>2, <1>5, <2>1 DEF CancelAllQueued, CancelJob
    <2>2. ASSUME NEW ks, RetryJobs(ks) PROVE KeepsPts(k)
      BY <1>2, <1>5, <2>2 DEF RetryJobs
    <2>3. ASSUME NEW ks, DeleteFinished(ks) PROVE KeepsPts(k)
      BY <1>2, <1>4, <2>3 DEF DeleteFinished
    <2>4. ASSUME NEW j \in Keys, BackoffEnds(j) PROVE KeepsPts(k)
      BY <1>1, <1>2, <1>5, <2>4 DEF BackoffEnds
    <2> QED
      BY <1>7, <2>1, <2>2, <2>3, <2>4
  <1>8. ASSUME NEW obs \in BOOLEAN, Start(obs) PROVE KeepsPts(k)
    BY <1>2, <1>5, <1>8 DEF Start
  <1>9. ASSUME NEW j \in Keys, NEW a \in Accounts, Reassign(j, a) PROVE KeepsPts(k)
    <2>1. CASE k = j
      <3> DEFINE p == IF k \in ChannelKeys THEN rows[k].pts ELSE 0
                 g == rows[k].gen + 1
      <3>1. rows'[k] = ReassignedRow(rows[k], a, p, g)
        BY <1>1, <1>9, <2>1 DEF Reassign, ReassignedRow
      <3>2. rows'[k].id = rows[k].id /\ rows'[k].pts = p
        BY <1>1, <3>1, ReassignedObserved
      <3> QED
        BY <3>2 DEF KeepsPts
    <2> QED
      BY <1>1, <1>2, <1>9, <2>1 DEF Reassign
  <1>10. CASE \/ \E a \in Accounts : FloodWaitEnds(a)
              \/ \E s \in signals : Signal(s)
              \/ Promote \/ StopObserving \/ Stop \/ Stopped \/ Crash
    <2>1. rows' = rows
      BY <1>10 DEF FloodWaitEnds, Signal, Promote, StopObserving, Stop, Stopped, Crash
    <2> QED
      BY <1>2, <2>1
  <1> QED
    BY <1>6, <1>7, <1>8, <1>9, <1>10 DEF OtherStep, Work, Lifecycle

\* A row that kept its content and its place in the order keeps its record.
LEMMA OthersFit ==
    ASSUME TypeOK, TypeOK', RecordInv, Elsewise(OtherStep)
    PROVE  RecordInv'
  <1>1. /\ seen \in [Keys -> SUBSET Observations]
        /\ \A k \in Keys : RecordFits(k)
    BY DEF RecordInv
  <1>2. ASSUME NEW k \in Keys PROVE seen'[k] \in SUBSET Observations /\ RecordFits(k)'
    <2> DEFINE new == <<rows'[k].version, rows'[k].pts, rows'[k].identity>>
    <2>1. seen'[k] = IF rows'[k].id = 0 THEN {}
                     ELSE IF Content(k)' # Content(k) \/ CountedAnew(k) THEN {new} ELSE seen[k]
      BY DEF Elsewise
    <2>2. KeepsPts(k)
      BY OthersKeepPts DEF Elsewise
    <2>3. /\ rows'[k].version \in Nat /\ rows'[k].pts \in Nat
          /\ rows'[k].identity \in Identities \cup {None}
          /\ rows[k].version \in Nat /\ rows[k].pts \in Nat
      BY Typed, TypedPrimed, ObservedTyped
    <2>4. new \in Observations
      BY <2>3 DEF Observations
    <2>5. CASE rows'[k].id = 0
      BY <2>1, <2>5 DEF RecordFits
    <2>6. CASE rows'[k].id # 0 /\ (Content(k)' # Content(k) \/ CountedAnew(k))
      <3>1. seen'[k] = {new}
        BY <2>1, <2>6
      <3>2. \A p \in seen'[k] : p[1] <= rows'[k].version /\ (p[1] = rows'[k].version => p[2] <= rows'[k].pts)
        BY <2>3, <3>1
      <3> HIDE DEF new
      <3>3. seen'[k] \in SUBSET Observations /\ new \in seen'[k]
        BY <2>4, <3>1
      <3> QED
        BY <2>6, <3>2, <3>3 DEF RecordFits, new
    <2>7. CASE rows'[k].id # 0 /\ ~(Content(k)' # Content(k) \/ CountedAnew(k))
      <3>1. seen'[k] = seen[k] /\ seen[k] \in SUBSET Observations
        BY <1>1, <2>1, <2>7
      <3>2. rows'[k].version = rows[k].version /\ rows'[k].identity = rows[k].identity
        BY <2>7 DEF Content
      <3>3. rows[k].id # 0
        BY <2>2, <2>7 DEF KeepsPts
      <3>4. Comparable(k) => rows'[k].pts = rows[k].pts
        BY <2>2, <2>3, <2>7 DEF KeepsPts, CountedAnew, Comparable
      <3> QED
        BY <1>1, <2>7, <3>1, <3>2, <3>3, <3>4 DEF RecordFits, Comparable
    <2> QED
      BY <2>5, <2>6, <2>7
  <1>3. seen' = [k \in Keys |-> seen'[k]]
    BY DEF Elsewise
  <1> QED
    BY <1>2, <1>3 DEF RecordInv

\* A pause touches nothing of this.
LEMMA PausesFit ==
    ASSUME TypeOK, RecordInv, PauseStep
    PROVE  RecordInv'
  <1>1. rows \in [Keys -> TypedRow] /\ UNCHANGED seen
    BY DEF TypeOK, PauseStep
  <1>2. ASSUME NEW k \in Keys PROVE RecordFits(k)'
    <2>1. rows'[k] = rows[k] \/ \E b \in BOOLEAN : rows'[k] = [rows[k] EXCEPT !.paused = b]
      BY <1>1 DEF PauseStep, SetQueuePaused, PauseJob
    <2>2. /\ rows'[k].id = rows[k].id /\ rows'[k].pts = rows[k].pts
          /\ rows'[k].version = rows[k].version /\ rows'[k].identity = rows[k].identity
      <3>1. rows[k] \in TypedRow
        BY <1>1
      <3>2. ASSUME NEW b \in BOOLEAN, rows'[k] = [rows[k] EXCEPT !.paused = b]
            PROVE  /\ rows'[k].id = rows[k].id /\ rows'[k].pts = rows[k].pts
                   /\ rows'[k].version = rows[k].version /\ rows'[k].identity = rows[k].identity
        BY ONLY <3>1, <3>2, OperatedObserved
      <3> QED
        BY <2>1, <3>2
    <2> QED
      BY <1>1, <2>2 DEF RecordInv, RecordFits, Comparable
  <1> QED
    BY <1>1, <1>2 DEF RecordInv

\* The queue with its record is the queue.
LEMMA OrderRefines == OrderSpec => Spec
  <1>1. OrderInit => Init
    BY DEF OrderInit
  <1>2. [OrderNext]_orderVars => [Next]_vars
    <2>1. OrderNext => Next
      BY DEF OrderNext, ObserveStep, Observe, PauseStep, Elsewise, OtherStep, Work, Next, Operator
    <2> QED
      BY <2>1 DEF orderVars
  <1> QED
    BY <1>1, <1>2, PTL DEF OrderSpec, Spec

\* The record and the rows fit each other at all times.
LEMMA RecordInvariant == OrderSpec => []RecordInv
  <1>1. OrderInit => RecordInv
    BY DEF OrderInit, Init, NoRow, RecordInv, RecordFits
  <1>2. TypeOK /\ TypeOK' /\ RecordInv /\ [OrderNext]_orderVars => RecordInv'
    <2>1. ASSUME TypeOK, RecordInv, UNCHANGED orderVars PROVE RecordInv'
      BY <2>1 DEF orderVars, vars, RecordInv, RecordFits, Comparable
    <2> QED
      BY <2>1, ObserveFits, OthersFit, PausesFit DEF OrderNext, ObserveStep
  <1> QED
    BY <1>1, <1>2, OrderRefines, TypeCorrect, PTL DEF OrderSpec

\* LatestObservationWins (enqueueWork's watermark): whatever the order edits of a message
\* arrive in, its row describes the latest of them, through claims, refreshes, queue
\* operations, pauses, restarts and changes of account.
THEOREM LatestStaysLatest == OrderSpec => []LatestObservationWins
  <1>1. TypeOK /\ RecordInv => LatestObservationWins
    <2> SUFFICES ASSUME TypeOK, RecordInv, NEW k \in Keys, Comparable(k), Exists(k)
                 PROVE  \E o \in seen[k] : /\ \A p \in seen[k] : ~Older(o, p)
                                           /\ Content(k) = <<o[1], o[3]>>
      BY DEF LatestObservationWins
    <2> DEFINE o == <<rows[k].version, rows[k].pts, rows[k].identity>>
    <2>1. /\ o \in seen[k]
          /\ \A p \in seen[k] : p[1] <= o[1] /\ (p[1] = o[1] => p[2] <= o[2])
          /\ \A p \in seen[k] : p[1] \in Nat /\ p[2] \in Nat
      BY DEF RecordInv, RecordFits, Exists, Observations
    <2>2. o[1] \in Nat /\ o[2] \in Nat
      BY Typed, ObservedTyped
    <2>3. Content(k) = <<o[1], o[3]>>
      BY DEF Content
    <2>4. \A p \in seen[k] : ~Older(o, p)
      <3> HIDE DEF o
      <3> QED
        BY <2>1, <2>2 DEF Older
    <2> QED
      BY <2>1, <2>3, <2>4
  <1> QED
    BY <1>1, RecordInvariant, OrderRefines, TypeCorrect, PTL
=============================================================================
