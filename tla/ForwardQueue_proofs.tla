-------------------------- MODULE ForwardQueue_proofs --------------------------
(***************************************************************************)
(* Proofs about ForwardQueue, for every set of jobs and workers, every     *)
(* number of destinations and every bound.                                 *)
(***************************************************************************)
EXTENDS ForwardQueue, TLAPS

-----------------------------------------------------------------------------
(* What each action does to the copy of its worker.                        *)

\* A copy u made of v keeps its job and takes the other values.
Made(u, v, pc, at, dest, status, attempts) ==
    /\ u \in Copies
    /\ u.pc = pc /\ u.at = at /\ u.dest = dest /\ u.status = status /\ u.attempts = attempts
    /\ u.job = v.job

\* The copy of worker w takes these values; its job and the other workers stay.
Moves(w, pc, at, dest, status) ==
    /\ worker' \in [Workers -> Copies] /\ CopyOK(worker'[w])
    /\ worker'[w].pc = pc /\ worker'[w].at = at /\ worker'[w].dest = dest
    /\ worker'[w].status = status /\ worker'[w].job = worker[w].job
    /\ \A v \in Workers \ {w} : worker'[v] = worker[v]

Typed == worker \in [Workers -> Copies] /\ \A w \in Workers : CopyOK(worker[w])

\* A step of worker w that gives its copy well-typed fields keeps the copies well typed.
LEMMA Moved ==
    ASSUME Typed, NEW w \in Workers, worker[w].pc # "idle",
           NEW u, NEW pc, NEW at, NEW dest, NEW status, NEW attempts \in Nat,
           Made(u, worker[w], pc, at, dest, status, attempts),
           worker' = [worker EXCEPT ![w] = u],
           pc \in {"gate", "sending", "delivered", "download"} => at \in Dests,
           pc \notin {"idle", "pace"} => attempts > 0
    PROVE  Moves(w, pc, at, dest, status)
  BY DEF Typed, Made, Moves, CopyOK

\* The row of job j takes this status and these destinations; the other rows stay.
Writes(j, status, dest) ==
    /\ row' \in [Jobs -> Rows]
    /\ row'[j].status = status /\ row'[j].dest = dest
    /\ \A k \in Jobs \ {j} : row'[k] = row[k]

\* The steps that move the worker on without touching a destination:
PassTo(w, pc, status) ==
    /\ Moves(w, pc, worker[w].at, worker[w].dest, status)
    /\ UNCHANGED <<row, sent>>

\* from the pacing to the routes,
LEMMA BeginEffects ==
    ASSUME Typed, NEW w \in Workers
    PROVE  /\ StartForward(w) => PassTo(w, "begin", worker[w].status)
           /\ Proceed(w) => PassTo(w, "route", worker[w].status)
           /\ NotApplicable(w) => PassTo(w, "finish", "not_applicable")
           /\ SourceBlocked(w) => PassTo(w, "finish", worker[w].status)
           /\ PrepareFails(w) => PassTo(w, "fail", worker[w].status)
           /\ AllDelivered(w) => PassTo(w, "finish", "forwarded")
  <1> DEFINE v == worker[w]
  <1>0. /\ v \in Copies /\ v.attempts \in Nat /\ v.attempts + 1 \in Nat /\ v.attempts + 1 > 0
        /\ v.pc \notin {"idle", "pace"} => v.attempts > 0
    BY DEF Typed, Copies, CopyOK
  <1>p. {"begin", "route", "finish", "fail"} \subseteq Positions
    BY DEF Positions
  <1>s. {"not_applicable", "forwarded"} \subseteq Statuses
    BY DEF Statuses
  <1>1. ASSUME StartForward(w) PROVE PassTo(w, "begin", v.status)
    <2>1. worker' = [worker EXCEPT ![w] = [v EXCEPT !.pc = "begin", !.attempts = v.attempts + 1]]
      BY <1>1 DEF StartForward, Typed
    <2>2. v.pc = "pace" /\ UNCHANGED <<row, sent>>
      BY <1>1 DEF StartForward, history
    <2>3. Made([v EXCEPT !.pc = "begin", !.attempts = v.attempts + 1], v, "begin", v.at, v.dest, v.status, v.attempts + 1)
      BY <1>0, <1>p DEF Made, Copies
    <2> QED
      BY <1>0, <2>1, <2>2, <2>3, Moved DEF PassTo
  <1>2. ASSUME Proceed(w) PROVE PassTo(w, "route", v.status)
    <2>1. worker' = [worker EXCEPT ![w] = [v EXCEPT !.pc = "route"]]
      BY <1>2 DEF Proceed
    <2>2. v.pc = "begin" /\ UNCHANGED <<row, sent>>
      BY <1>2 DEF Proceed, history
    <2>3. Made([v EXCEPT !.pc = "route"], v, "route", v.at, v.dest, v.status, v.attempts)
      BY <1>0, <1>p DEF Made, Copies
    <2> QED
      BY <1>0, <2>1, <2>2, <2>3, Moved DEF PassTo
  <1>3. ASSUME NotApplicable(w) PROVE PassTo(w, "finish", "not_applicable")
    <2>1. worker' = [worker EXCEPT ![w] = [v EXCEPT !.pc = "finish", !.status = "not_applicable"]]
      BY <1>3 DEF NotApplicable, Typed
    <2>2. v.pc = "begin" /\ UNCHANGED <<row, sent>>
      BY <1>3 DEF NotApplicable, history
    <2>3. Made([v EXCEPT !.pc = "finish", !.status = "not_applicable"], v, "finish", v.at, v.dest, "not_applicable", v.attempts)
      BY <1>0, <1>p, <1>s DEF Made, Copies
    <2> QED
      BY <1>0, <2>1, <2>2, <2>3, Moved DEF PassTo
  <1>4. ASSUME SourceBlocked(w) PROVE PassTo(w, "finish", v.status)
    <2>1. worker' = [worker EXCEPT ![w] = [v EXCEPT !.pc = "finish"]]
      BY <1>4 DEF SourceBlocked
    <2>2. v.pc = "begin" /\ UNCHANGED <<row, sent>>
      BY <1>4 DEF SourceBlocked, history
    <2>3. Made([v EXCEPT !.pc = "finish"], v, "finish", v.at, v.dest, v.status, v.attempts)
      BY <1>0, <1>p DEF Made, Copies
    <2> QED
      BY <1>0, <2>1, <2>2, <2>3, Moved DEF PassTo
  <1>5. ASSUME PrepareFails(w) PROVE PassTo(w, "fail", v.status)
    <2>1. worker' = [worker EXCEPT ![w] = [v EXCEPT !.pc = "fail"]]
      BY <1>5 DEF PrepareFails
    <2>2. v.pc = "begin" /\ UNCHANGED <<row, sent>>
      BY <1>5 DEF PrepareFails, history
    <2>3. Made([v EXCEPT !.pc = "fail"], v, "fail", v.at, v.dest, v.status, v.attempts)
      BY <1>0, <1>p DEF Made, Copies
    <2> QED
      BY <1>0, <2>1, <2>2, <2>3, Moved DEF PassTo
  <1>6. ASSUME AllDelivered(w) PROVE PassTo(w, "finish", "forwarded")
    <2>1. worker' = [worker EXCEPT ![w] = [v EXCEPT !.pc = "finish", !.status = "forwarded"]]
      BY <1>6 DEF AllDelivered, Typed
    <2>2. v.pc = "route" /\ UNCHANGED <<row, sent>>
      BY <1>6 DEF AllDelivered, history
    <2>3. Made([v EXCEPT !.pc = "finish", !.status = "forwarded"], v, "finish", v.at, v.dest, "forwarded", v.attempts)
      BY <1>0, <1>p, <1>s DEF Made, Copies
    <2> QED
      BY <1>0, <2>1, <2>2, <2>3, Moved DEF PassTo
  <1> QED
    BY <1>1, <1>2, <1>3, <1>4, <1>5, <1>6

\* and from the gate of a destination to its request and back.
LEMMA RequestEffects ==
    ASSUME Typed, NEW w \in Workers
    PROVE  /\ DestinationCheckFails(w) => PassTo(w, "fail", worker[w].status)
           /\ IssueRequest(w) => PassTo(w, "sending", worker[w].status)
           /\ \A b \in BOOLEAN : Refuse(w, b) =>
                 PassTo(w, IF worker[w].file THEN "fail" ELSE "download", worker[w].status)
           /\ FloodWait(w) => \E pc \in {"download", "gate", "fail"} : PassTo(w, pc, worker[w].status)
           /\ DownloadDone(w) => PassTo(w, "gate", worker[w].status)
           /\ DownloadFails(w) => PassTo(w, "fail", worker[w].status)
  <1> DEFINE v == worker[w]
  <1>0. /\ v \in Copies /\ v.attempts \in Nat /\ v.noAutoRetry \in BOOLEAN
        /\ v.pc \notin {"idle", "pace"} => v.attempts > 0
        /\ v.pc \in {"gate", "sending", "delivered", "download"} => v.at \in Dests
    BY DEF Typed, Copies, CopyOK
  <1>p. {"fail", "sending", "download", "gate"} \subseteq Positions
    BY DEF Positions
  <1>t. /\ FloodAttempts \in Nat /\ 1 \in 1..FloodAttempts /\ v.tries \in 1..FloodAttempts
    BY ForwardAssumption DEF ForwardAssumption, Typed, Copies
  <1>1. ASSUME DestinationCheckFails(w) PROVE PassTo(w, "fail", v.status)
    <2>1. worker' = [worker EXCEPT ![w] = [v EXCEPT !.pc = "fail"]]
      BY <1>1 DEF DestinationCheckFails, Typed
    <2>2. v.pc = "gate" /\ UNCHANGED <<row, sent>>
      BY <1>1 DEF DestinationCheckFails, history
    <2>3. Made([v EXCEPT !.pc = "fail"], v, "fail", v.at, v.dest, v.status, v.attempts)
      BY <1>0, <1>p DEF Made, Copies
    <2> QED
      BY <1>0, <2>1, <2>2, <2>3, Moved DEF PassTo
  <1>2. ASSUME IssueRequest(w) PROVE PassTo(w, "sending", v.status)
    <2>1. worker' = [worker EXCEPT ![w] = [v EXCEPT !.pc = "sending"]]
      BY <1>2 DEF IssueRequest, Typed
    <2>2. v.pc = "gate" /\ UNCHANGED <<row, sent>>
      BY <1>2 DEF IssueRequest, history
    <2>3. Made([v EXCEPT !.pc = "sending"], v, "sending", v.at, v.dest, v.status, v.attempts)
      BY <1>0, <1>p DEF Made, Copies
    <2> QED
      BY <1>0, <2>1, <2>2, <2>3, Moved DEF PassTo
  <1>3. ASSUME NEW b \in BOOLEAN, Refuse(w, b) PROVE PassTo(w, IF v.file THEN "fail" ELSE "download", v.status)
    <2> DEFINE pc == IF v.file THEN "fail" ELSE "download"
    <2>0. pc \in {"fail", "download"}
      OBVIOUS
    <2>1. worker' = [worker EXCEPT ![w] = [v EXCEPT !.pc = pc, !.noAutoRetry = v.noAutoRetry \/ b]]
      BY <1>3 DEF Refuse, Typed
    <2>2. v.pc = "sending" /\ UNCHANGED <<row, sent>>
      BY <1>3 DEF Refuse, history
    <2>3. Made([v EXCEPT !.pc = pc, !.noAutoRetry = v.noAutoRetry \/ b], v, pc, v.at, v.dest, v.status, v.attempts)
      BY <1>0, <1>p, <2>0 DEF Made, Copies
    <2> QED
      BY <1>0, <2>1, <2>2, <2>3, <2>0, Moved DEF PassTo
  <1>4. ASSUME FloodWait(w) PROVE \E pc \in {"download", "gate", "fail"} : PassTo(w, pc, v.status)
    <2> DEFINE pc == IF ~v.file THEN "download"
                     ELSE IF v.tries < FloodAttempts THEN "gate" ELSE "fail"
               tries == IF v.file /\ v.tries < FloodAttempts THEN v.tries + 1 ELSE v.tries
    <2>0. pc \in {"download", "gate", "fail"} /\ tries \in 1..FloodAttempts
      BY <1>t
    <2>1. worker' = [worker EXCEPT ![w] = [v EXCEPT !.pc = pc, !.tries = tries]]
      BY <1>4 DEF FloodWait, Typed
    <2>2. v.pc = "sending" /\ UNCHANGED <<row, sent>>
      BY <1>4 DEF FloodWait, history
    <2>3. Made([v EXCEPT !.pc = pc, !.tries = tries], v, pc, v.at, v.dest, v.status, v.attempts)
      BY <1>0, <1>p, <2>0 DEF Made, Copies
    <2> QED
      BY <1>0, <2>1, <2>2, <2>3, <2>0, Moved DEF PassTo
  <1>5. ASSUME DownloadDone(w) PROVE PassTo(w, "gate", v.status)
    <2>1. worker' = [worker EXCEPT ![w] = [v EXCEPT !.pc = "gate", !.tries = 1, !.file = TRUE]]
      BY <1>5 DEF DownloadDone, Typed
    <2>2. v.pc = "download" /\ UNCHANGED <<row, sent>>
      BY <1>5 DEF DownloadDone, history
    <2>3. Made([v EXCEPT !.pc = "gate", !.tries = 1, !.file = TRUE], v, "gate", v.at, v.dest, v.status, v.attempts)
      BY <1>0, <1>p, <1>t DEF Made, Copies
    <2> QED
      BY <1>0, <2>1, <2>2, <2>3, Moved DEF PassTo
  <1>6. ASSUME DownloadFails(w) PROVE PassTo(w, "fail", v.status)
    <2>1. worker' = [worker EXCEPT ![w] = [v EXCEPT !.pc = "fail"]]
      BY <1>6 DEF DownloadFails, Typed
    <2>2. v.pc = "download" /\ UNCHANGED <<row, sent>>
      BY <1>6 DEF DownloadFails, history
    <2>3. Made([v EXCEPT !.pc = "fail"], v, "fail", v.at, v.dest, v.status, v.attempts)
      BY <1>0, <1>p DEF Made, Copies
    <2> QED
      BY <1>0, <2>1, <2>2, <2>3, Moved DEF PassTo
  <1> QED
    BY <1>1, <1>2, <1>3, <1>4, <1>5, <1>6

\* What persistForwardProgress leaves of the row of worker w.
Stored(w, dest) ==
    \/ Cancelled /\ row' = row
    \/ ~Cancelled /\ Writes(worker[w].job, row[worker[w].job].status, dest)

\* What persist writes is a row.
LEMMA Persisted ==
    ASSUME row \in [Jobs -> Rows], NEW w \in Workers, worker[w].job \in Jobs,
           NEW dest \in [Dests -> DestStatuses], Persist(w, dest)
    PROVE  Stored(w, dest)
  BY DEF Persist, Stored, Writes, Rows

\* The steps that settle the destination at hand or take the next one.
LEMMA DestinationEffects ==
    ASSUME Typed, row \in [Jobs -> Rows], NEW w \in Workers
    PROVE  LET v == worker[w]
               at(s) == [v.dest EXCEPT ![v.at] = s]
           IN
           /\ \A d \in Dests : NextDestination(w, d) =>
                 /\ Moves(w, "gate", d, [v.dest EXCEPT ![d] = "processing"], v.status)
                 /\ Stored(w, [v.dest EXCEPT ![d] = "processing"])
           /\ DestinationBlocked(w) => Moves(w, "finish", v.at, at("failed"), v.status) /\ row' = row
           /\ CancelBeforeRequest(w) => /\ Moves(w, "finish", v.at, at("pending"), v.status)
                                        /\ Writes(v.job, row[v.job].status, at("pending"))
           /\ Succeed(w) => Moves(w, "route", v.at, at("forwarded"), v.status) /\ Stored(w, at("forwarded"))
           /\ LoseAnswer(w) => /\ Moves(w, "finish", v.at, at(OutcomeOfLostAnswer(w)), v.status)
                               /\ Stored(w, at(OutcomeOfLostAnswer(w)))
           /\ MonitorGone(w) => Moves(w, "finish", v.at, at("pending"), v.status) /\ row' = row
  <1> DEFINE v == worker[w]
             at(s) == [v.dest EXCEPT ![v.at] = s]
  <1>0. /\ v \in Copies /\ v.attempts \in Nat /\ v.dest \in [Dests -> DestStatuses]
        /\ v.pc \notin {"idle", "pace"} => v.attempts > 0
        /\ v.pc # "idle" => v.job \in Jobs
        /\ v.pc \in {"gate", "sending", "delivered", "download"} => v.at \in Dests
    BY DEF Typed, Copies, CopyOK
  <1>p. {"finish", "route", "gate"} \subseteq Positions
    BY DEF Positions
  <1>t. 1 \in 1..FloodAttempts
    BY ForwardAssumption DEF ForwardAssumption
  <1>d. \A d, s : s \in DestStatuses => [v.dest EXCEPT ![d] = s] \in [Dests -> DestStatuses]
    BY <1>0
  <1>s. {"pending", "processing", "forwarded", "failed", "uncertain"} \subseteq DestStatuses
    BY DEF DestStatuses
  <1>1. ASSUME NEW d \in Dests, NextDestination(w, d)
        PROVE  Moves(w, "gate", d, [v.dest EXCEPT ![d] = "processing"], v.status) /\ Stored(w, [v.dest EXCEPT ![d] = "processing"])
    <2> DEFINE dest == [v.dest EXCEPT ![d] = "processing"]
    <2>0. dest \in [Dests -> DestStatuses]
      BY <1>d, <1>s
    <2>1. worker' = [worker EXCEPT ![w] = [v EXCEPT !.pc = "gate", !.at = d, !.tries = 1, !.dest = dest]]
      BY <1>1 DEF NextDestination, Typed
    <2>2. v.pc = "route"
      BY <1>1 DEF NextDestination
    <2>3. Stored(w, dest)
      <3>1. v.job \in Jobs /\ Persist(w, dest)
        BY <1>1, <1>0, <2>2 DEF NextDestination
      <3> QED
        BY <2>0, <3>1, Persisted
    <2> HIDE DEF dest
    <2>4. Made([v EXCEPT !.pc = "gate", !.at = d, !.tries = 1, !.dest = dest], v, "gate", d, dest, v.status, v.attempts)
      BY <1>0, <1>p, <1>t, <2>0 DEF Made, Copies
    <2>5. Moves(w, "gate", d, dest, v.status)
      BY <1>0, <2>1, <2>2, <2>4, Moved
    <2> QED
      BY <2>3, <2>5 DEF dest
  <1>2. ASSUME DestinationBlocked(w)
        PROVE  Moves(w, "finish", v.at, at("failed"), v.status) /\ row' = row
    <2> DEFINE dest == at("failed")
    <2>0. dest \in [Dests -> DestStatuses]
      BY <1>d, <1>s
    <2>1. worker' = [worker EXCEPT ![w] = [v EXCEPT !.pc = "finish", !.dest = dest]]
      BY <1>2 DEF DestinationBlocked, Typed
    <2>2. v.pc = "gate"
      BY <1>2 DEF DestinationBlocked
    <2>3. row' = row
      BY <1>2 DEF DestinationBlocked
    <2> HIDE DEF dest
    <2>4. Made([v EXCEPT !.pc = "finish", !.dest = dest], v, "finish", v.at, dest, v.status, v.attempts)
      BY <1>0, <1>p, <1>t, <2>0 DEF Made, Copies
    <2>5. Moves(w, "finish", v.at, dest, v.status)
      BY <1>0, <2>1, <2>2, <2>4, Moved
    <2> QED
      BY <2>3, <2>5 DEF dest
  <1>3. ASSUME CancelBeforeRequest(w)
        PROVE  Moves(w, "finish", v.at, at("pending"), v.status) /\ Writes(v.job, row[v.job].status, at("pending"))
    <2> DEFINE dest == at("pending")
    <2>0. dest \in [Dests -> DestStatuses]
      BY <1>d, <1>s
    <2>1. worker' = [worker EXCEPT ![w] = [v EXCEPT !.pc = "finish", !.dest = dest, !.retryBeforeSend = TRUE]]
      BY <1>3 DEF CancelBeforeRequest, Typed
    <2>2. v.pc = "gate"
      BY <1>3 DEF CancelBeforeRequest
    <2>3. Writes(v.job, row[v.job].status, dest)
      <3>1. v.job \in Jobs /\ row' = [row EXCEPT ![v.job].dest = dest]
        BY <1>3, <1>0, <2>2 DEF CancelBeforeRequest
      <3> QED
        BY <2>0, <3>1 DEF Writes, Rows
    <2> HIDE DEF dest
    <2>4. Made([v EXCEPT !.pc = "finish", !.dest = dest, !.retryBeforeSend = TRUE], v, "finish", v.at, dest, v.status, v.attempts)
      BY <1>0, <1>p, <1>t, <2>0 DEF Made, Copies
    <2>5. Moves(w, "finish", v.at, dest, v.status)
      BY <1>0, <2>1, <2>2, <2>4, Moved
    <2> QED
      BY <2>3, <2>5 DEF dest
  <1>4. ASSUME Succeed(w)
        PROVE  Moves(w, "route", v.at, at("forwarded"), v.status) /\ Stored(w, at("forwarded"))
    <2> DEFINE dest == at("forwarded")
    <2>0. dest \in [Dests -> DestStatuses]
      BY <1>d, <1>s
    <2>1. worker' = [worker EXCEPT ![w] = [v EXCEPT !.pc = "route", !.dest = dest]]
      BY <1>4 DEF Succeed, Typed
    <2>2. v.pc = "delivered"
      BY <1>4 DEF Succeed
    <2>3. Stored(w, dest)
      <3>1. v.job \in Jobs /\ Persist(w, dest)
        BY <1>4, <1>0, <2>2 DEF Succeed
      <3> QED
        BY <2>0, <3>1, Persisted
    <2> HIDE DEF dest
    <2>4. Made([v EXCEPT !.pc = "route", !.dest = dest], v, "route", v.at, dest, v.status, v.attempts)
      BY <1>0, <1>p, <1>t, <2>0 DEF Made, Copies
    <2>5. Moves(w, "route", v.at, dest, v.status)
      BY <1>0, <2>1, <2>2, <2>4, Moved
    <2> QED
      BY <2>3, <2>5 DEF dest
  <1>5. ASSUME LoseAnswer(w)
        PROVE  Moves(w, "finish", v.at, at(OutcomeOfLostAnswer(w)), v.status) /\ Stored(w, at(OutcomeOfLostAnswer(w)))
    <2> DEFINE dest == at(OutcomeOfLostAnswer(w))
    <2>s. OutcomeOfLostAnswer(w) \in {"failed", "uncertain"}
      BY DEF OutcomeOfLostAnswer
    <2>0. dest \in [Dests -> DestStatuses]
      BY <1>d, <1>s, <2>s
    <2>1. worker' = [worker EXCEPT ![w] = [v EXCEPT !.pc = "finish", !.dest = dest]]
      BY <1>5 DEF LoseAnswer, Typed
    <2>2. v.pc \in {"sending", "delivered"}
      BY <1>5 DEF LoseAnswer
    <2>3. Stored(w, dest)
      <3>1. v.job \in Jobs /\ Persist(w, dest)
        BY <1>5, <1>0, <2>2 DEF LoseAnswer
      <3> QED
        BY <2>0, <3>1, Persisted
    <2> HIDE DEF dest
    <2>4. Made([v EXCEPT !.pc = "finish", !.dest = dest], v, "finish", v.at, dest, v.status, v.attempts)
      BY <1>0, <1>p, <1>t, <2>0 DEF Made, Copies
    <2>5. Moves(w, "finish", v.at, dest, v.status)
      BY <1>0, <2>1, <2>2, <2>4, Moved
    <2> QED
      BY <2>3, <2>5 DEF dest
  <1>6. ASSUME MonitorGone(w)
        PROVE  Moves(w, "finish", v.at, at("pending"), v.status) /\ row' = row
    <2> DEFINE dest == at("pending")
    <2>0. dest \in [Dests -> DestStatuses]
      BY <1>d, <1>s
    <2>1. worker' = [worker EXCEPT ![w] = [v EXCEPT !.pc = "finish", !.dest = dest, !.waitForEngine = TRUE]]
      BY <1>6 DEF MonitorGone, Typed
    <2>2. v.pc = "sending"
      BY <1>6 DEF MonitorGone
    <2>3. row' = row
      BY <1>6 DEF MonitorGone
    <2> HIDE DEF dest
    <2>4. Made([v EXCEPT !.pc = "finish", !.dest = dest, !.waitForEngine = TRUE], v, "finish", v.at, dest, v.status, v.attempts)
      BY <1>0, <1>p, <1>t, <2>0 DEF Made, Copies
    <2>5. Moves(w, "finish", v.at, dest, v.status)
      BY <1>0, <2>1, <2>2, <2>4, Moved
    <2> QED
      BY <2>3, <2>5 DEF dest
  <1> QED
    BY <1>1, <1>2, <1>3, <1>4, <1>5, <1>6

\* A worker without a job.
LEMMA IdleTyped == Idle \in Copies /\ CopyOK(Idle)
  BY ForwardAssumption DEF ForwardAssumption, Idle, Copies, CopyOK, Positions, Statuses, DestStatuses

\* Telegram accepts one message more.
Accepts(j, d) ==
    /\ sent' \in [Jobs -> [Dests -> Nat]]
    /\ sent'[j][d] = sent[j][d] + 1
    /\ \A k \in Jobs, e \in Dests : k # j \/ e # d => sent'[k][e] = sent[k][e]

\* Telegram accepts the message: one more of it at that destination, nothing else changes there.
LEMMA DeliverEffect ==
    ASSUME Typed, sent \in [Jobs -> [Dests -> Nat]], NEW w \in Workers, Deliver(w)
    PROVE  /\ Moves(w, "delivered", worker[w].at, worker[w].dest, worker[w].status)
           /\ Accepts(worker[w].job, worker[w].at) /\ row' = row
  <1> DEFINE v == worker[w]
  <1>0. /\ v \in Copies /\ v.attempts \in Nat /\ v.pc = "sending"
        /\ v.attempts > 0 /\ v.job \in Jobs /\ v.at \in Dests
    BY DEF Typed, Copies, CopyOK, Deliver
  <1>1. worker' = [worker EXCEPT ![w] = [v EXCEPT !.pc = "delivered"]]
    BY DEF Deliver
  <1>2. Made([v EXCEPT !.pc = "delivered"], v, "delivered", v.at, v.dest, v.status, v.attempts)
    BY <1>0 DEF Made, Copies, Positions
  <1>3. Moves(w, "delivered", v.at, v.dest, v.status)
    BY <1>0, <1>1, <1>2, Moved
  <1>4. Accepts(v.job, v.at)
    BY <1>0 DEF Deliver, Accepts
  <1> QED
    BY <1>3, <1>4 DEF Deliver

\* forwardFailed writes the row while the attempt is still to be finished.
LEMMA ForwardFailedEffect ==
    ASSUME Typed, row \in [Jobs -> Rows], NEW w \in Workers, ForwardFailed(w)
    PROVE  /\ Moves(w, "finish", worker[w].at,
                    [d \in Dests |-> IF d = worker[w].at THEN "failed" ELSE worker[w].dest[d]],
                    worker[w].status)
           /\ Writes(worker[w].job, "failed", worker[w].dest)
  <1> DEFINE v == worker[w]
             dest == [d \in Dests |-> IF d = v.at THEN "failed" ELSE v.dest[d]]
  <1>0. /\ v \in Copies /\ v.attempts \in Nat /\ v.pc = "fail"
        /\ v.attempts > 0 /\ v.job \in Jobs /\ v.dest \in [Dests -> DestStatuses]
    BY DEF Typed, Copies, CopyOK, ForwardFailed
  <1>1. dest \in [Dests -> DestStatuses]
    BY <1>0 DEF DestStatuses
  <1>2. worker' = [worker EXCEPT ![w] = [v EXCEPT !.pc = "finish", !.dest = dest]]
    BY DEF ForwardFailed, Typed
  <1>3. Writes(v.job, "failed", v.dest)
    <2>1. [status |-> "failed", dest |-> v.dest, attempts |-> v.attempts, due |-> TRUE] \in Rows
      BY <1>0 DEF Rows, Statuses
    <2> QED
      BY <1>0, <2>1 DEF ForwardFailed, Writes
  <1> HIDE DEF dest
  <1>4. Made([v EXCEPT !.pc = "finish", !.dest = dest], v, "finish", v.at, dest, v.status, v.attempts)
    BY <1>0, <1>1 DEF Made, Copies, Positions
  <1>5. Moves(w, "finish", v.at, dest, v.status)
    BY <1>0, <1>2, <1>4, Moved
  <1> QED
    BY <1>3, <1>5 DEF dest

\* A worker takes up a job ...
Takes(w, j) ==
    /\ worker' \in [Workers -> Copies] /\ CopyOK(worker'[w])
    /\ worker'[w].pc = "pace" /\ worker'[w].job = j /\ worker'[w].dest = row[j].dest
    /\ worker'[w].status = "failed" /\ worker'[w].at = 0
    /\ \A v \in Workers \ {w} : worker'[v] = worker[v]

\* A worker takes a row: it is processing, and the worker's copy starts from what was stored.
LEMMA ClaimEffect ==
    ASSUME Typed, row \in [Jobs -> Rows], NEW w \in Workers, NEW j \in Jobs, ClaimForward(w, j)
    PROVE  Takes(w, j) /\ Writes(j, "processing", row[j].dest) /\ row[j].status = "pending"
  <1> DEFINE f == j \in UploadJobs
             u == [Idle EXCEPT !.pc = "pace", !.job = j, !.dest = row[j].dest,
                               !.attempts = row[j].attempts, !.file = f]
  <1>f. f \in BOOLEAN
    OBVIOUS
  <1>2. worker' = [worker EXCEPT ![w] = u]
    BY DEF ClaimForward
  <1> HIDE DEF f
  <1>0. row[j].dest \in [Dests -> DestStatuses] /\ row[j].attempts \in Nat
    BY DEF Rows
  <1>1. /\ u \in Copies /\ u.pc = "pace" /\ u.job = j /\ u.dest = row[j].dest
        /\ u.status = "failed" /\ u.at = 0
    BY <1>0, <1>f, IdleTyped DEF Idle, Copies, Positions
  <1>3. Writes(j, "processing", row[j].dest)
    BY DEF ClaimForward, Writes, Rows, Statuses
  <1> HIDE DEF u
  <1>4. Takes(w, j)
    BY <1>1, <1>2 DEF Takes, Typed, CopyOK
  <1> QED
    BY <1>3, <1>4 DEF ClaimForward, Claimable

\* ... and leaves it.
Leaves(w) ==
    /\ worker' \in [Workers -> Copies] /\ worker'[w] = Idle
    /\ \A v \in Workers \ {w} : worker'[v] = worker[v]

\* A worker gives its row back untouched, with the attempt returned.
LEMMA ReleaseEffect ==
    ASSUME Typed, row \in [Jobs -> Rows], NEW w \in Workers, ReleaseClaim(w)
    PROVE  /\ Leaves(w) /\ worker[w].job \in Jobs
           /\ Writes(worker[w].job, IF row[worker[w].job].status = "processing" THEN "pending"
                                    ELSE row[worker[w].job].status, row[worker[w].job].dest)
  <1>1. worker[w].job \in Jobs
    BY DEF Typed, CopyOK, ReleaseClaim
  <1>2. ASSUME NEW r \in Rows
        PROVE  /\ ReleasedRow(r) \in Rows /\ ReleasedRow(r).dest = r.dest
               /\ ReleasedRow(r).status = IF r.status = "processing" THEN "pending" ELSE r.status
    BY DEF ReleasedRow, Rows, Statuses
  <1>3. row' = [row EXCEPT ![worker[w].job] = ReleasedRow(row[worker[w].job])]
    BY DEF ReleaseClaim
  <1>4. Leaves(w)
    BY IdleTyped DEF Leaves, Typed, ReleaseClaim
  <1> QED
    BY <1>1, <1>2, <1>3, <1>4 DEF Writes

FinishedStatus(v) == IF RetriesItself(v) THEN "pending" ELSE SettledStatus(v)

\* The end of an attempt: the row gets the status the flags choose, the worker is idle.
LEMMA FinishEffect ==
    ASSUME Typed, row \in [Jobs -> Rows], NEW w \in Workers, Finish(w)
    PROVE  /\ Leaves(w) /\ worker[w].job \in Jobs
           /\ Writes(worker[w].job, FinishedStatus(worker[w]), worker[w].dest)
  <1> DEFINE v == worker[w]
             r == FinishedRow(v, row[v.job])
  <1>1. /\ v.job \in Jobs /\ v.attempts \in Nat /\ v.attempts > 0 /\ v.status \in Statuses
        /\ v.dest \in [Dests -> DestStatuses]
    BY DEF Typed, CopyOK, Copies, Finish
  <1>2. Attempts(v) \in Nat
    BY <1>1 DEF Attempts
  <1>3. FinishedStatus(v) \in Statuses
    BY <1>1 DEF FinishedStatus, SettledStatus, BaseStatus, Statuses
  <1>4. RetriesItself(v) \in BOOLEAN
    BY DEF RetriesItself
  <1>5. r = [status |-> FinishedStatus(v), dest |-> v.dest, attempts |-> Attempts(v),
             due |-> ~RetriesItself(v)]
    BY DEF FinishedRow, FinishedStatus
  <1>6. r \in Rows /\ r.status = FinishedStatus(v) /\ r.dest = v.dest
    BY <1>1, <1>2, <1>3, <1>4, <1>5 DEF Rows
  <1>7. row' = [row EXCEPT ![v.job] = r]
    BY DEF Finish
  <1>8. Leaves(w)
    BY IdleTyped DEF Leaves, Typed, Finish
  <1> HIDE DEF r
  <1> QED
    BY <1>1, <1>6, <1>7, <1>8 DEF Writes

-----------------------------------------------------------------------------
(* Types.                                                                  *)

\* What no worker step touches.
LEMMA WorkerFrame ==
    ASSUME NEW w \in Workers, WorkerStep(w)
    PROVE  /\ UNCHANGED <<paused, app, engine, asked, approved, confirmed, retried, spent>>
           /\ blocked' = blocked \/ blocked' = TRUE
  <1> USE DEF history
  <1>1. CASE \E j \in Jobs : ClaimForward(w, j)
    BY <1>1 DEF ClaimForward
  <1>2. CASE ReleaseClaim(w) \/ StartForward(w) \/ Proceed(w) \/ NotApplicable(w)
    BY <1>2 DEF ReleaseClaim, StartForward, Proceed, NotApplicable
  <1>3. CASE SourceBlocked(w) \/ PrepareFails(w) \/ AllDelivered(w) \/ DestinationBlocked(w)
    BY <1>3 DEF SourceBlocked, PrepareFails, AllDelivered, DestinationBlocked
  <1>4. CASE \E d \in Dests : NextDestination(w, d)
    BY <1>4 DEF NextDestination
  <1>5. CASE DestinationCheckFails(w) \/ IssueRequest(w) \/ CancelBeforeRequest(w)
    BY <1>5 DEF DestinationCheckFails, IssueRequest, CancelBeforeRequest
  <1>6. CASE Deliver(w) \/ Succeed(w) \/ LoseAnswer(w) \/ MonitorGone(w)
    BY <1>6 DEF Deliver, Succeed, LoseAnswer, MonitorGone
  <1>7. CASE \E permanent \in BOOLEAN : Refuse(w, permanent)
    BY <1>7 DEF Refuse
  <1>8. CASE FloodWait(w) \/ DownloadDone(w) \/ DownloadFails(w)
    BY <1>8 DEF FloodWait, DownloadDone, DownloadFails
  <1>9. CASE ForwardFailed(w) \/ Finish(w)
    BY <1>9 DEF ForwardFailed, Finish
  <1> QED
    BY <1>1, <1>2, <1>3, <1>4, <1>5, <1>6, <1>7, <1>8, <1>9 DEF WorkerStep

\* The kinds of step a worker takes: to the next position, to and from a destination,
Guard(w, pc, s) ==
    /\ worker[w].pc \in {"pace", "begin", "route", "gate", "sending", "download"}
    /\ pc \in {"begin", "route", "finish", "fail", "sending", "download", "gate"} /\ s \in Statuses
    /\ pc = "begin" => worker[w].pc = "pace"
    /\ pc \in {"sending", "download", "gate"} =>
         worker[w].pc \in {"gate", "sending", "download"} /\ ~Cancelled
    /\ pc = "fail" => worker[w].pc \in {"begin", "gate", "sending", "download"}
    /\ \/ s = worker[w].status
       \/ s = "not_applicable" /\ pc = "finish"
       \/ s = "forwarded" /\ pc = "finish" /\ Undelivered(worker[w].dest) = {}

Passes(w) == \E pc, s : Guard(w, pc, s) /\ PassTo(w, pc, s)

\* from the claim to the routes,
LEMMA BeginKinds ==
    ASSUME Typed, NEW w \in Workers,
           \/ StartForward(w) \/ Proceed(w) \/ NotApplicable(w) \/ SourceBlocked(w)
           \/ PrepareFails(w) \/ AllDelivered(w)
    PROVE  Passes(w)
  <1>0. worker[w].status \in Statuses /\ {"not_applicable", "forwarded"} \subseteq Statuses
    BY DEF Typed, Copies, Statuses
  <1>1. CASE StartForward(w)
    <2>1. Guard(w, "begin", worker[w].status)
      BY <1>0, <1>1 DEF StartForward, Guard
    <2> QED
      BY <1>1, <2>1, BeginEffects DEF Passes
  <1>2. CASE Proceed(w)
    <2>1. Guard(w, "route", worker[w].status)
      BY <1>0, <1>2 DEF Proceed, Guard
    <2> QED
      BY <1>2, <2>1, BeginEffects DEF Passes
  <1>3. CASE NotApplicable(w)
    <2>1. Guard(w, "finish", "not_applicable")
      BY <1>0, <1>3 DEF NotApplicable, Guard
    <2> QED
      BY <1>3, <2>1, BeginEffects DEF Passes
  <1>4. CASE SourceBlocked(w)
    <2>1. Guard(w, "finish", worker[w].status)
      BY <1>0, <1>4 DEF SourceBlocked, Guard
    <2> QED
      BY <1>4, <2>1, BeginEffects DEF Passes
  <1>5. CASE PrepareFails(w)
    <2>1. Guard(w, "fail", worker[w].status)
      BY <1>0, <1>5 DEF PrepareFails, Guard
    <2> QED
      BY <1>5, <2>1, BeginEffects DEF Passes
  <1>6. CASE AllDelivered(w)
    <2>1. Guard(w, "finish", "forwarded")
      BY <1>0, <1>6 DEF AllDelivered, Guard
    <2> QED
      BY <1>6, <2>1, BeginEffects DEF Passes
  <1> QED
    BY <1>1, <1>2, <1>3, <1>4, <1>5, <1>6

\* around a request: the gate, the download of a missing file, the answer,
LEMMA RequestKinds ==
    ASSUME Typed, NEW w \in Workers,
           \/ DestinationCheckFails(w) \/ IssueRequest(w) \/ FloodWait(w) \/ DownloadDone(w)
           \/ DownloadFails(w) \/ \E b \in BOOLEAN : Refuse(w, b)
    PROVE  Passes(w)
  <1>0. worker[w].status \in Statuses
    BY DEF Typed, Copies
  <1>1. CASE DestinationCheckFails(w)
    <2>1. Guard(w, "fail", worker[w].status)
      BY <1>0, <1>1 DEF DestinationCheckFails, Guard
    <2> QED
      BY <1>1, <2>1, RequestEffects DEF Passes
  <1>2. CASE IssueRequest(w)
    <2>1. Guard(w, "sending", worker[w].status)
      BY <1>0, <1>2 DEF IssueRequest, Guard
    <2> QED
      BY <1>2, <2>1, RequestEffects DEF Passes
  <1>3. CASE FloodWait(w)
    <2>1. PICK pc \in {"download", "gate", "fail"} : PassTo(w, pc, worker[w].status)
      BY <1>3, RequestEffects
    <2>2. Guard(w, pc, worker[w].status)
      BY <1>0, <1>3 DEF FloodWait, Guard
    <2> QED
      BY <2>1, <2>2 DEF Passes
  <1>4. CASE DownloadDone(w)
    <2>1. Guard(w, "gate", worker[w].status)
      BY <1>0, <1>4 DEF DownloadDone, Guard
    <2> QED
      BY <1>4, <2>1, RequestEffects DEF Passes
  <1>5. CASE DownloadFails(w)
    <2>1. Guard(w, "fail", worker[w].status)
      BY <1>0, <1>5 DEF DownloadFails, Guard
    <2> QED
      BY <1>5, <2>1, RequestEffects DEF Passes
  <1>6. ASSUME NEW b \in BOOLEAN, Refuse(w, b) PROVE Passes(w)
    <2> DEFINE pc == IF worker[w].file THEN "fail" ELSE "download"
    <2>1. PassTo(w, pc, worker[w].status)
      BY <1>6, RequestEffects
    <2>2. Guard(w, pc, worker[w].status)
      BY <1>0, <1>6 DEF Refuse, Guard
    <2> QED
      BY <2>1, <2>2 DEF Passes
  <1> QED
    BY <1>1, <1>2, <1>3, <1>4, <1>5, <1>6

\* and all together.
LEMMA WorkerKinds ==
    ASSUME Typed, NEW w \in Workers, WorkerStep(w)
    PROVE  \/ \E j \in Jobs : ClaimForward(w, j)
           \/ Passes(w)
           \/ \E d \in Dests : NextDestination(w, d)
           \/ DestinationBlocked(w) \/ CancelBeforeRequest(w) \/ Succeed(w) \/ LoseAnswer(w)
           \/ MonitorGone(w) \/ Deliver(w) \/ ForwardFailed(w) \/ ReleaseClaim(w) \/ Finish(w)
  BY BeginKinds, RequestKinds DEF WorkerStep

\* What worker steps keep of types.
LEMMA WorkerTyped ==
    ASSUME Typed, row \in [Jobs -> Rows], sent \in [Jobs -> [Dests -> Nat]],
           NEW w \in Workers, WorkerStep(w)
    PROVE  Typed' /\ row' \in [Jobs -> Rows] /\ sent' \in [Jobs -> [Dests -> Nat]]
  <1>m. ASSUME NEW pc, NEW at, NEW dest, NEW status, Moves(w, pc, at, dest, status) PROVE Typed'
    BY <1>m DEF Moves, Typed
  <1>s. ASSUME NEW dest, Stored(w, dest) PROVE row' \in [Jobs -> Rows]
    BY <1>s DEF Stored, Writes
  <1>l. Leaves(w) => Typed'
    BY IdleTyped DEF Leaves, Typed
  <1>1. CASE \E j \in Jobs : ClaimForward(w, j)
    <2>1. PICK j \in Jobs : ClaimForward(w, j)
      BY <1>1
    <2>2. Takes(w, j) /\ Writes(j, "processing", row[j].dest) /\ sent' = sent
      BY <2>1, ClaimEffect DEF ClaimForward, history
    <2> QED
      BY <2>2 DEF Takes, Writes, Typed
  <1>2. CASE Passes(w)
    BY <1>2, <1>m DEF Passes, PassTo
  <1>3. CASE \E d \in Dests : NextDestination(w, d)
    BY <1>3, <1>m, <1>s, DestinationEffects DEF NextDestination, history
  <1>4. CASE DestinationBlocked(w)
    BY <1>4, <1>m, DestinationEffects DEF DestinationBlocked, history
  <1>5. CASE CancelBeforeRequest(w)
    BY <1>5, <1>m, DestinationEffects DEF CancelBeforeRequest, history, Writes
  <1>6. CASE Succeed(w)
    BY <1>6, <1>m, <1>s, DestinationEffects DEF Succeed, history
  <1>7. CASE LoseAnswer(w)
    BY <1>7, <1>m, <1>s, DestinationEffects DEF LoseAnswer, history
  <1>8. CASE MonitorGone(w)
    BY <1>8, <1>m, DestinationEffects DEF MonitorGone, history
  <1>9. CASE Deliver(w)
    BY <1>9, <1>m, DeliverEffect DEF Accepts
  <1>10. CASE ForwardFailed(w)
    BY <1>10, <1>m, ForwardFailedEffect DEF ForwardFailed, history, Writes
  <1>11. CASE ReleaseClaim(w)
    BY <1>11, <1>l, ReleaseEffect DEF ReleaseClaim, history, Writes
  <1>12. CASE Finish(w)
    BY <1>12, <1>l, FinishEffect DEF Finish, history, Writes
  <1> QED
    BY <1>1, <1>2, <1>3, <1>4, <1>5, <1>6, <1>7, <1>8, <1>9, <1>10, <1>11, <1>12, WorkerKinds

\* What an answer of the operator leaves of a row.
LEMMA ReconciledTyped ==
    ASSUME NEW dest \in [Dests -> DestStatuses], NEW scope, NEW action
    PROVE  /\ Exposed(dest) \in [Dests -> DestStatuses]
           /\ ReconciledDest(dest, scope, action) \in [Dests -> DestStatuses]
  <1>1. Exposed(dest) \in [Dests -> DestStatuses]
    BY DEF Exposed, DestStatuses
  <1> QED
    BY <1>1 DEF ReconciledDest, DestStatuses

\* What the operator, the timers and the life of the process do to the rows.
LEMMA ReconcileEffect ==
    ASSUME TypeOK, NEW j \in Jobs, NEW scope \in Scopes, NEW action \in {"sent", "resend"},
           Reconcile(j, scope, action)
    PROVE  LET dest == ReconciledDest(row[j].dest, scope, action)
           IN /\ Writes(j, ReconciledStatus(dest, action), dest)
              /\ ReconciledStatus(dest, action) \in {"uncertain", "forwarded", "pending"}
              /\ row[j].status = "uncertain"
  <1> DEFINE dest == ReconciledDest(row[j].dest, scope, action)
             s == ReconciledStatus(dest, action)
  <1>0. row \in [Jobs -> Rows] /\ row[j].dest \in [Dests -> DestStatuses]
    BY DEF TypeOK, Rows
  <1>1. dest \in [Dests -> DestStatuses]
    BY <1>0, ReconciledTyped
  <1>2. s \in {"uncertain", "forwarded", "pending"}
    BY DEF ReconciledStatus
  <1>3. row' = [row EXCEPT ![j] = [row[j] EXCEPT !.status = s, !.dest = dest, !.due = TRUE]]
    BY <1>0 DEF Reconcile
  <1>4. row[j].status = "uncertain"
    BY DEF Reconcile
  <1> HIDE DEF dest, s
  <1>5. ASSUME NEW r \in Rows
        PROVE  LET u == [r EXCEPT !.status = s, !.dest = dest, !.due = TRUE]
               IN u \in Rows /\ u.status = s /\ u.dest = dest
    BY <1>1, <1>2 DEF Rows, Statuses
  <1>6. Writes(j, s, dest)
    BY <1>0, <1>3, <1>5 DEF Writes
  <1> QED
    BY <1>2, <1>4, <1>6 DEF dest, s

\* An insert, a retry, the timers, a stop and a start: the rows stay rows, the copies are kept or dropped.
LEMMA RowEffects ==
    ASSUME row \in [Jobs -> Rows]
    PROVE  /\ \A j \in Jobs : Enqueue(j) =>
                 \E s \in {"absent", "pending", "failed"} : Writes(j, s, [d \in Dests |-> "pending"])
           /\ \A js \in SUBSET Jobs : Retry(js) =>
                 /\ row' \in [Jobs -> Rows]
                 /\ \A k \in Jobs : /\ row'[k].dest = row[k].dest
                                    /\ k \notin js => row'[k] = row[k]
                                    /\ k \in js => row'[k].status = "pending"
           /\ \A j \in Jobs : BackoffEnds(j) => Writes(j, row[j].status, row[j].dest)
           /\ Start => /\ row' \in [Jobs -> Rows]
                       /\ \A k \in Jobs : /\ row'[k].dest = row[k].dest
                                          /\ row'[k].status = IF row[k].status = "processing"
                                                              THEN "uncertain" ELSE row[k].status
  <1>1. ASSUME NEW j \in Jobs, Enqueue(j)
        PROVE  \E s \in {"absent", "pending", "failed"} : Writes(j, s, [d \in Dests |-> "pending"])
    <2> DEFINE none == [d \in Dests |-> "pending"]
    <2>1. none \in [Dests -> DestStatuses]
      BY DEF DestStatuses
    <2>2. NoRow \in Rows /\ NoRow.status = "absent" /\ NoRow.dest = none
      BY <2>1 DEF NoRow, Rows, Statuses
    <2>3. ASSUME NEW s \in {"pending", "failed"}
          PROVE  LET u == [NoRow EXCEPT !.status = s]
                 IN u \in Rows /\ u.status = s /\ u.dest = none
      BY <2>2 DEF Rows, Statuses
    <2>4. PICK r \in {NoRow, [NoRow EXCEPT !.status = "pending"], [NoRow EXCEPT !.status = "failed"]} :
             row' = [row EXCEPT ![j] = r]
      BY <1>1 DEF Enqueue, OverflowRow
    <2>5. r \in Rows /\ r.status \in {"absent", "pending", "failed"} /\ r.dest = none
      BY <2>2, <2>3
    <2> HIDE DEF none
    <2>6. Writes(j, r.status, none)
      BY <2>4, <2>5 DEF Writes
    <2> QED
      BY <2>5, <2>6 DEF none
  <1>2. ASSUME NEW js \in SUBSET Jobs, Retry(js)
        PROVE  /\ row' \in [Jobs -> Rows]
               /\ \A k \in Jobs : /\ row'[k].dest = row[k].dest
                                  /\ k \notin js => row'[k] = row[k]
                                  /\ k \in js => row'[k].status = "pending"
    <2>1. ASSUME NEW r \in Rows
          PROVE  LET u == [r EXCEPT !.status = "pending", !.due = TRUE]
                 IN u \in Rows /\ u.status = "pending" /\ u.dest = r.dest
      BY DEF Rows, Statuses
    <2> QED
      BY <1>2, <2>1 DEF Retry
  <1>3. ASSUME NEW j \in Jobs, BackoffEnds(j) PROVE Writes(j, row[j].status, row[j].dest)
    BY <1>3 DEF BackoffEnds, Writes, Rows
  <1>4. ASSUME Start
        PROVE  /\ row' \in [Jobs -> Rows]
               /\ \A k \in Jobs : /\ row'[k].dest = row[k].dest
                                  /\ row'[k].status = IF row[k].status = "processing"
                                                      THEN "uncertain" ELSE row[k].status
    <2>1. ASSUME NEW r \in Rows
          PROVE  /\ RecoveredRow(r) \in Rows /\ RecoveredRow(r).dest = r.dest
                 /\ RecoveredRow(r).status = IF r.status = "processing" THEN "uncertain" ELSE r.status
      BY DEF RecoveredRow, Rows, Statuses
    <2> QED
      BY <1>4, <2>1 DEF Start
  <1> QED
    BY <1>1, <1>2, <1>3, <1>4

\* Nothing is queued and every worker is idle at the start.
LEMMA InitTypeOK == Init => TypeOK
  <1> SUFFICES ASSUME Init PROVE TypeOK
    OBVIOUS
  <1>1. NoRow \in Rows
    BY DEF NoRow, Rows, Statuses, DestStatuses
  <1>2. spent \in [retries: Nat, resends: Nat, stops: Nat, crashes: Nat, outages: Nat]
    BY DEF Init
  <1> QED
    BY <1>1, <1>2, IdleTyped DEF Init, TypeOK

\* The type invariant of the forward queue: the rows, the workers' copies and the flags keep
\* the shapes forward.go stores, and a returned attempt never makes the counter negative.
THEOREM TypeCorrect == Spec => []TypeOK
  <1>1. TypeOK /\ [Next]_vars => TypeOK'
    <2> SUFFICES ASSUME TypeOK, [Next]_vars PROVE TypeOK'
      OBVIOUS
    <2>t. /\ row \in [Jobs -> Rows] /\ Typed
          /\ sent \in [Jobs -> [Dests -> Nat]] /\ approved \in [Jobs -> [Dests -> Nat]]
          /\ confirmed \in [Jobs -> SUBSET Dests]
          /\ spent \in [retries: Nat, resends: Nat, stops: Nat, crashes: Nat, outages: Nat]
      BY DEF TypeOK, Typed
    <2>s. ASSUME NEW n \in {"retries", "resends", "stops", "crashes", "outages"},
                 spent' = [spent EXCEPT ![n] = @ + 1]
          PROVE  spent' \in [retries: Nat, resends: Nat, stops: Nat, crashes: Nat, outages: Nat]
      BY <2>t, <2>s
    <2>1. CASE \E w \in Workers : WorkerStep(w)
      BY <2>1, <2>t, WorkerTyped, WorkerFrame DEF TypeOK, Typed
    <2>2. CASE OperatorStep
      <3>1. ASSUME NEW js \in SUBSET Jobs, Retry(js) PROVE TypeOK'
        <4>1. row' \in [Jobs -> Rows]
          BY <2>t, <3>1, RowEffects
        <4> QED
          BY <3>1, <4>1, <2>s DEF Retry, TypeOK
      <3>2. CASE RetryOne \/ RetryAll
        BY <3>1, <3>2 DEF RetryOne, RetryAll
      <3>3. CASE SetPaused
        BY <3>3 DEF SetPaused, TypeOK, history
      <3>4. ASSUME NEW j \in Jobs, NEW scope \in Scopes, NEW action \in {"sent", "resend"},
                   Reconcile(j, scope, action)
            PROVE  TypeOK'
        <4> DEFINE picked == Picked(row[j].dest, scope, action)
        <4>1. row' \in [Jobs -> Rows]
          BY <3>4, ReconcileEffect DEF Writes
        <4>2. picked \subseteq Dests
          BY DEF Picked, Scopes
        <4>3. CASE action = "sent"
          <5>1. confirmed' = [confirmed EXCEPT ![j] = @ \cup picked] /\ UNCHANGED <<approved, spent>>
            BY <3>4, <4>3 DEF Reconcile
          <5> HIDE DEF picked
          <5>2. confirmed' \in [Jobs -> SUBSET Dests]
            BY <5>1, <4>2, <2>t
          <5> QED
            BY <3>4, <4>1, <5>1, <5>2 DEF Reconcile, TypeOK
        <4>4. CASE action = "resend"
          <5>1. /\ approved' = [approved EXCEPT ![j] = [d \in Dests |->
                                  IF d \in picked THEN approved[j][d] + 1 ELSE approved[j][d]]]
                /\ spent' = [spent EXCEPT !["resends"] = @ + 1] /\ UNCHANGED confirmed
            BY <3>4, <4>4, <2>t DEF Reconcile
          <5> HIDE DEF picked
          <5>2. approved' \in [Jobs -> [Dests -> Nat]]
            BY <5>1, <2>t
          <5>3. spent' \in [retries: Nat, resends: Nat, stops: Nat, crashes: Nat, outages: Nat]
            BY <5>1, <2>s
          <5> QED
            BY <3>4, <4>1, <5>1, <5>2, <5>3 DEF Reconcile, TypeOK
        <4> QED
          BY <4>3, <4>4
      <3> QED
        BY <2>2, <3>2, <3>3, <3>4 DEF OperatorStep
    <2>3. CASE EnvironmentStep
      <3>1. ASSUME NEW j \in Jobs, Enqueue(j) PROVE TypeOK'
        <4>1. row' \in [Jobs -> Rows]
          BY <2>t, <3>1, RowEffects DEF Writes
        <4> QED
          BY <3>1, <4>1 DEF Enqueue, TypeOK
      <3>2. ASSUME NEW j \in Jobs, BackoffEnds(j) PROVE TypeOK'
        <4>1. row' \in [Jobs -> Rows]
          BY <2>t, <3>2, RowEffects DEF Writes
        <4> QED
          BY <3>2, <4>1 DEF BackoffEnds, TypeOK, history
      <3>3. CASE FloodEnds \/ StartMonitor \/ Exit
        BY <3>3 DEF FloodEnds, StartMonitor, Exit, TypeOK, history
      <3>4. CASE StopMonitor
        BY <3>4, <2>s DEF StopMonitor, TypeOK
      <3>5. CASE Stop
        BY <3>5, <2>s DEF Stop, TypeOK
      <3>6. CASE Crash
        <4>1. worker' \in [Workers -> Copies] /\ \A w \in Workers : CopyOK(worker'[w])
          BY <3>6, IdleTyped DEF Crash
        <4> QED
          BY <3>6, <2>s, <4>1 DEF Crash, TypeOK
      <3>7. CASE Start
        <4>1. row' \in [Jobs -> Rows]
          BY <2>t, <3>7, RowEffects
        <4> QED
          BY <3>7, <4>1 DEF Start, TypeOK, history
      <3> QED
        BY <2>3, <3>1, <3>2, <3>3, <3>4, <3>5, <3>6, <3>7 DEF EnvironmentStep
    <2>4. CASE UNCHANGED vars
      BY <2>4 DEF vars, TypeOK
    <2> QED
      BY <2>1, <2>2, <2>3, <2>4 DEF Next
  <1> QED
    BY <1>1, InitTypeOK, PTL DEF Spec

-----------------------------------------------------------------------------
(* Who owns a job and what has become of its destinations.                 *)

Known(j, d) == sent[j][d] > 0 \/ d \in confirmed[j]

Holds(w, j) == worker[w].pc # "idle" /\ worker[w].job = j

\* A copy names a destination while it is in progress, calls a destination forwarded only
\* when it is, and the job only when every destination is settled.
CopyFits(w) ==
    /\ worker[w].status \in {"failed", "not_applicable", "forwarded"}
    /\ worker[w].status = "forwarded" =>
         /\ worker[w].pc = "finish"
         /\ \A d \in Dests : worker[w].dest[d] \in {"forwarded", "uncertain"}
    /\ worker[w].pc # "idle" => app # "down" /\ worker[w].job \in asked
    /\ worker[w].pc \in {"pace", "begin"} => worker[w].at = 0
    /\ worker[w].pc \in {"gate", "sending", "delivered", "download", "fail"} =>
         \A d \in Dests : worker[w].at = d => worker[w].dest[d] = "processing"
    /\ worker[w].pc = "delivered" => sent[worker[w].job][worker[w].at] > 0
    /\ worker[w].pc # "idle" =>
         \A d \in Dests : worker[w].dest[d] = "forwarded" => Known(worker[w].job, d)

\* A row exists once its job was asked for, and says forwarded only when it is.
RowFits(j) ==
    /\ j \notin asked => row[j].status = "absent" /\ \A d \in Dests : sent[j][d] = 0
    /\ \A d \in Dests : row[j].status = "forwarded" \/ row[j].dest[d] = "forwarded" => Known(j, d)
    /\ app # "down" /\ row[j].status = "processing" => \E w \in Workers : Holds(w, j)

\* The row under a worker that nobody but this worker can have: it is processing, or was
\* declared failed by an attempt that is about to finish; it tells of a request under way.
HoldFits(w, j) ==
    /\ \/ row[j].status = "processing"
       \/ row[j].status = "failed" /\ worker[w].pc = "finish"
    /\ worker[w].pc = "pace" => row[j].dest = worker[w].dest
    /\ worker[w].pc # "finish" => \A d \in Dests : worker[w].dest[d] # "uncertain"
    /\ worker[w].pc \in {"sending", "delivered"} \/ (worker[w].pc \in {"gate", "download"} /\ ~Cancelled)
         => row[j].dest[worker[w].at] = "processing"

\* A destination that got its message is not up for another one: it is forwarded, in doubt,
\* being answered, or failed under a shutdown that leaves the job to the operator.
Accounted(w, d) ==
    \/ worker[w].dest[d] \in {"forwarded", "uncertain"}
    \/ worker[w].pc = "delivered" /\ worker[w].at = d
    \/ /\ worker[w].pc = "finish" /\ Cancelled /\ worker[w].dest[d] = "failed"
       /\ \A e \in Dests : worker[w].dest[e] # "uncertain"

SentFits(j, d) ==
    /\ sent[j][d] <= 1
    /\ sent[j][d] = 1 =>
         /\ row[j].status = "pending" => row[j].dest[d] = "forwarded"
         /\ row[j].status \in {"processing", "uncertain"} => row[j].dest[d] # "failed"
         /\ \A w \in Workers : Holds(w, j) => Accounted(w, d)

\* A job that no operator retried has one worker at most.
FreshFits(j) ==
    j \notin retried =>
        /\ \A w \in Workers : Holds(w, j) => HoldFits(w, j)
        /\ \A v, w \in Workers : Holds(v, j) /\ Holds(w, j) => v = w
        /\ row[j].status = "pending" => \A d \in Dests : row[j].dest[d] # "uncertain"
        /\ \A d \in Dests : approved[j][d] = 0 => SentFits(j, d)

ForwardInv ==
    /\ \A w \in Workers : CopyFits(w)
    /\ \A j \in Jobs : RowFits(j) /\ FreshFits(j)

\* The invariant holds at the start
LEMMA InitForwardInv == Init => ForwardInv
  <1> SUFFICES ASSUME Init PROVE ForwardInv
    OBVIOUS
  <1>1. ASSUME NEW w \in Workers PROVE CopyFits(w)
    BY DEF Init, CopyFits, Idle
  <1>2. ASSUME NEW j \in Jobs PROVE RowFits(j) /\ FreshFits(j)
    BY DEF Init, RowFits, FreshFits, NoRow, Idle, Holds, HoldFits, SentFits, Known
  <1> QED
    BY <1>1, <1>2 DEF ForwardInv

\* and says what the run checks.
LEMMA ForwardInvOwned == TypeOK /\ ForwardInv => AttemptsAreOwned
  <1> SUFFICES ASSUME TypeOK, ForwardInv PROVE AttemptsAreOwned
    OBVIOUS
  <1>0. sent \in [Jobs -> [Dests -> Nat]] /\ approved \in [Jobs -> [Dests -> Nat]]
    BY DEF TypeOK
  <1>1. NeverResentUnasked
    BY <1>0 DEF ForwardInv, FreshFits, SentFits, NeverResentUnasked
  <1>2. ForwardedIsDelivered
    BY DEF ForwardInv, RowFits, Known, ForwardedIsDelivered
  <1>3. ProcessingIsHeld
    BY DEF ForwardInv, RowFits, Holds, ProcessingIsHeld
  <1> QED
    BY <1>1, <1>2, <1>3 DEF AttemptsAreOwned

-----------------------------------------------------------------------------
(* Steps of one worker on one job keep the invariant.                      *)

\* Only worker w moves, on job j, with what was sent growing only for j.
Local(w, j) ==
    /\ \A v \in Workers \ {w} : worker'[v] = worker[v]
    /\ worker[w].pc # "idle" => worker[w].job = j
    /\ worker'[w].pc # "idle" => worker'[w].job = j
    /\ \A k \in Jobs \ {j} : row'[k] = row[k] /\ \A d \in Dests : sent'[k][d] = sent[k][d]
    /\ \A d \in Dests : sent[j][d] \in Nat /\ sent'[j][d] \in Nat /\ sent'[j][d] >= sent[j][d]
    /\ UNCHANGED <<app, asked, approved, confirmed, retried>>

\* The other workers and jobs keep what the invariant says of them,
LEMMA OthersKept ==
    ASSUME TypeOK, ForwardInv, NEW w \in Workers, NEW j \in Jobs, Local(w, j)
    PROVE  /\ \A v \in Workers \ {w} : CopyFits(v)'
           /\ \A k \in Jobs \ {j} : RowFits(k)' /\ FreshFits(k)'
  <1>0. sent \in [Jobs -> [Dests -> Nat]] /\ Typed
    BY DEF TypeOK, Typed
  <1>1. ASSUME NEW v \in Workers \ {w} PROVE CopyFits(v)'
    <2>1. CopyFits(v) /\ worker'[v] = worker[v]
      BY DEF ForwardInv, Local
    <2>2. \A d \in Dests : Known(worker[v].job, d) /\ worker[v].job \in Jobs => Known(worker[v].job, d)'
      BY <1>0 DEF Known, Local
    <2>3. worker[v].pc # "idle" => worker[v].job \in Jobs
      BY <1>0 DEF Typed, CopyOK
    <2>4. worker[v].pc = "delivered" => worker[v].at \in Dests
      BY <1>0 DEF Typed, CopyOK
    <2>5. worker[v].pc = "delivered" => sent'[worker[v].job][worker[v].at] > 0
      BY <1>0, <2>1, <2>3, <2>4 DEF CopyFits, Local
    <2> QED
      BY <2>1, <2>2, <2>3, <2>5 DEF CopyFits, Local, Known
  <1>2. ASSUME NEW k \in Jobs \ {j} PROVE RowFits(k)' /\ FreshFits(k)'
    <2>1. RowFits(k) /\ FreshFits(k)
      BY DEF ForwardInv
    <2>2. \A v \in Workers : Holds(v, k)' <=> Holds(v, k)
      BY DEF Holds, Local
    <2>3. \A v \in Workers : Holds(v, k) => worker'[v] = worker[v]
      BY DEF Holds, Local
    <2>4. row'[k] = row[k] /\ \A d \in Dests : sent'[k][d] = sent[k][d]
      BY DEF Local
    <2>5. RowFits(k)'
      BY <2>1, <2>2, <2>4 DEF RowFits, Known, Local
    <2>6. \A v \in Workers : Holds(v, k) => (HoldFits(v, k) => HoldFits(v, k)')
      BY <2>3, <2>4 DEF HoldFits, Local, Cancelled
    <2>7. \A v \in Workers, d \in Dests : Holds(v, k) => (Accounted(v, d) => Accounted(v, d)')
      BY <2>3 DEF Accounted, Local, Cancelled
    <2>8. FreshFits(k)'
      BY <2>1, <2>2, <2>4, <2>6, <2>7 DEF FreshFits, SentFits, Local
    <2> QED
      BY <2>5, <2>8
  <1> QED
    BY <1>1, <1>2

\* so that what is left to show is about the worker and its job,
LEMMA LocalKeeps ==
    ASSUME TypeOK, ForwardInv, NEW w \in Workers, NEW j \in Jobs, Local(w, j),
           CopyFits(w)', RowFits(j)', FreshFits(j)'
    PROVE  ForwardInv'
  BY OthersKept DEF ForwardInv

\* which for a job that was not retried nobody else has.
LEMMA FreshAlone ==
    ASSUME ForwardInv, NEW w \in Workers, NEW j \in Jobs, Holds(w, j), j \notin retried
    PROVE  /\ HoldFits(w, j) /\ \A v \in Workers \ {w} : ~Holds(v, j)
           /\ \A d \in Dests : approved[j][d] = 0 => SentFits(j, d) /\ (sent[j][d] = 1 => Accounted(w, d))
  BY DEF ForwardInv, FreshFits, SentFits

\* The job of a worker, not retried, keeps its facts when its only worker and its row move together.
LEMMA FreshHeld ==
    ASSUME TypeOK, ForwardInv, NEW w \in Workers, NEW j \in Jobs, Local(w, j),
           Holds(w, j), Holds(w, j)',
           j \notin retried =>
             /\ HoldFits(w, j)'
             /\ \A d \in Dests : approved[j][d] = 0 =>
                  /\ sent'[j][d] <= 1
                  /\ sent'[j][d] = 1 => row'[j].dest[d] # "failed" \/ row'[j].status = "failed"
                  /\ sent'[j][d] = 1 => Accounted(w, d)'
    PROVE  FreshFits(j)'
  <1> SUFFICES ASSUME j \notin retried' PROVE FreshFits(j)'
    BY DEF FreshFits
  <1>1. j \notin retried /\ \A v \in Workers \ {w} : ~Holds(v, j)'
    <2>1. j \notin retried
      BY DEF Local
    <2> QED
      BY <2>1, FreshAlone DEF Local, Holds
  <1>2. row'[j].status \in {"processing", "failed"}
    BY <1>1 DEF HoldFits
  <1>3. ASSUME NEW d \in Dests, approved'[j][d] = 0 PROVE SentFits(j, d)'
    BY <1>1, <1>2, <1>3 DEF SentFits, Local
  <1> QED
    BY <1>1, <1>2, <1>3 DEF FreshFits

\* A row says forwarded only of what is known, as the copy written to it does.
LEMMA RowHeld ==
    ASSUME TypeOK, ForwardInv, NEW w \in Workers, NEW j \in Jobs, Local(w, j),
           Holds(w, j), Holds(w, j)',
           row'[j].status # "forwarded" \/ row'[j].status = row[j].status,
           \A d \in Dests : row'[j].dest[d] = "forwarded" => row[j].dest[d] = "forwarded" \/ Known(j, d)'
    PROVE  RowFits(j)'
  <1>1. RowFits(j) /\ CopyFits(w)
    BY DEF ForwardInv
  <1>2. j \in asked'
    BY <1>1 DEF CopyFits, Holds, Local
  <1>3. \A d \in Dests : Known(j, d) => Known(j, d)'
    BY DEF Known, Local
  <1>4. \A d \in Dests : (row'[j].status = "forwarded" \/ row'[j].dest[d] = "forwarded") => Known(j, d)'
    BY <1>1, <1>3 DEF RowFits
  <1> QED
    BY <1>2, <1>4 DEF RowFits

\* The row of the job keeps its status and takes the destinations of the copy, if any.
RowKept(w, j) ==
    /\ row'[j].status = row[j].status
    /\ row'[j].dest = row[j].dest \/ row'[j].dest = worker'[w].dest

\* What is known of a job that was not retried while its worker is on the way.
LEMMA FreshFacts ==
    ASSUME TypeOK, ForwardInv, NEW w \in Workers, NEW j \in Jobs, Holds(w, j), j \notin retried,
           worker[w].pc # "finish"
    PROVE  /\ row[j].status = "processing" /\ \A d \in Dests : worker[w].dest[d] # "uncertain"
           /\ worker[w].pc \in {"sending", "delivered"} \/ (worker[w].pc \in {"gate", "download"} /\ ~Cancelled)
                => row[j].dest[worker[w].at] = "processing"
           /\ \A d \in Dests : approved[j][d] = 0 =>
                /\ sent[j][d] \in {0, 1}
                /\ sent[j][d] = 1 =>
                     /\ row[j].dest[d] # "failed"
                     /\ \/ worker[w].dest[d] = "forwarded"
                        \/ worker[w].pc = "delivered" /\ worker[w].at = d
  <1>0. sent \in [Jobs -> [Dests -> Nat]]
    BY DEF TypeOK
  <1>1. HoldFits(w, j)
    BY FreshAlone
  <1>2. ASSUME NEW d \in Dests, approved[j][d] = 0
        PROVE  SentFits(j, d) /\ (sent[j][d] = 1 => Accounted(w, d))
    BY <1>2, FreshAlone
  <1>3. row[j].status = "processing" /\ \A d \in Dests : worker[w].dest[d] # "uncertain"
    BY <1>1 DEF HoldFits
  <1>4. worker[w].pc \in {"sending", "delivered"} \/ (worker[w].pc \in {"gate", "download"} /\ ~Cancelled)
          => row[j].dest[worker[w].at] = "processing"
    BY <1>1 DEF HoldFits
  <1>5. ASSUME NEW d \in Dests, approved[j][d] = 0
        PROVE  /\ sent[j][d] \in {0, 1}
               /\ sent[j][d] = 1 =>
                    /\ row[j].dest[d] # "failed"
                    /\ \/ worker[w].dest[d] = "forwarded"
                       \/ worker[w].pc = "delivered" /\ worker[w].at = d
    <2>1. sent[j][d] \in {0, 1}
      <3>1. sent[j][d] \in Nat /\ sent[j][d] <= 1
        BY <1>0, <1>2, <1>5 DEF SentFits
      <3> QED
        BY <3>1
    <2>2. sent[j][d] = 1 => row[j].dest[d] # "failed"
      BY <1>2, <1>3, <1>5 DEF SentFits
    <2>3. sent[j][d] = 1 => \/ worker[w].dest[d] = "forwarded"
                            \/ worker[w].pc = "delivered" /\ worker[w].at = d
      BY <1>2, <1>3, <1>5 DEF Accounted
    <2> QED
      BY <2>1, <2>2, <2>3
  <1> QED
    BY <1>3, <1>4, <1>5

\* A step on the way keeps the invariant when it keeps these facts.
FreshNext(w, j) ==
    /\ worker'[w].pc # "finish" => \A d \in Dests : worker'[w].dest[d] # "uncertain"
    /\ worker'[w].pc \in {"sending", "delivered"} \/ (worker'[w].pc \in {"gate", "download"} /\ ~Cancelled)
         => row'[j].dest[worker'[w].at] = "processing"
    /\ \A d \in Dests : approved[j][d] = 0 =>
         /\ sent'[j][d] <= 1
         /\ sent'[j][d] = 1 => row'[j].dest[d] # "failed" /\ Accounted(w, d)'

\* A step on the way keeps the invariant when the copy and the row it writes keep their facts.
LEMMA WayKeeps ==
    ASSUME TypeOK, ForwardInv, NEW w \in Workers, NEW j \in Jobs, Local(w, j),
           Holds(w, j), Holds(w, j)', CopyFits(w)', RowKept(w, j), worker[w].pc # "finish",
           worker'[w].pc # "pace",
           j \notin retried => FreshNext(w, j)
    PROVE  ForwardInv'
  <1>1. RowFits(j)'
    <2>1. row'[j].status # "forwarded" \/ row'[j].status = row[j].status
      BY DEF RowKept
    <2>2. \A d \in Dests : row'[j].dest[d] = "forwarded" => row[j].dest[d] = "forwarded" \/ Known(j, d)'
      BY DEF RowKept, CopyFits, Holds, Known
    <2> QED
      BY <2>1, <2>2, RowHeld
  <1>2. ASSUME j \notin retried PROVE HoldFits(w, j)'
    <2>1. row'[j].status = "processing"
      BY <1>2, FreshFacts DEF RowKept
    <2> QED
      BY <1>2, <2>1 DEF HoldFits, Cancelled, Local, FreshNext
  <1>3. FreshFits(j)'
    BY <1>2, FreshHeld DEF FreshNext
  <1> QED
    BY <1>1, <1>3, LocalKeeps

\* The frame of a step of worker w that goes on with its job.
LEMMA WayLocal ==
    ASSUME TypeOK, NEW w \in Workers, WorkerStep(w), worker[w].pc # "idle",
           NEW j \in Jobs, worker[w].job = j,
           NEW pc, pc # "idle", NEW at, NEW dest, NEW status, Moves(w, pc, at, dest, status),
           \A k \in Jobs \ {j} : row'[k] = row[k], sent' = sent
    PROVE  Local(w, j) /\ Holds(w, j) /\ Holds(w, j)'
  <1>1. sent \in [Jobs -> [Dests -> Nat]]
    BY DEF TypeOK
  <1>2. UNCHANGED <<app, asked, approved, confirmed, retried>>
    BY WorkerFrame
  <1> QED
    BY <1>1, <1>2 DEF Local, Holds, Moves

\* A step that only moves the worker on.
LEMMA PassKeeps ==
    ASSUME TypeOK, ForwardInv, NEW w \in Workers, WorkerStep(w), Passes(w)
    PROVE  ForwardInv'
  <1> DEFINE v == worker[w]
  <1>1. PICK pc, s : Guard(w, pc, s) /\ PassTo(w, pc, s)
    BY DEF Passes
  <1>2. /\ Moves(w, pc, v.at, v.dest, s) /\ row' = row /\ sent' = sent
        /\ v.pc \notin {"idle", "finish", "delivered"} /\ pc # "idle"
    BY <1>1 DEF PassTo, Guard
  <1>j. PICK j \in Jobs : v.job = j
    BY <1>2 DEF TypeOK, CopyOK
  <1>3. Local(w, j) /\ Holds(w, j) /\ Holds(w, j)'
    BY <1>2, <1>j, WayLocal
  <1>4. CopyFits(w)'
    <2>1. CopyFits(w)
      BY DEF ForwardInv
    <2>2. s \in {"failed", "not_applicable", "forwarded"}
      BY <1>1, <2>1 DEF Guard, CopyFits
    <2>3. s = "forwarded" => pc = "finish" /\ \A d \in Dests : v.dest[d] \in {"forwarded", "uncertain"}
      BY <1>1, <1>2, <2>1 DEF Guard, CopyFits, Undelivered
    <2>4. pc \in {"gate", "sending", "delivered", "download", "fail"} =>
            \A d \in Dests : v.at = d => v.dest[d] = "processing"
      <3>1. 0 \notin Dests
        BY DEF Dests
      <3> QED
        BY <1>1, <2>1, <3>1 DEF Guard, CopyFits
    <2>5. pc \in {"pace", "begin"} => v.at = 0
      BY <1>1, <2>1 DEF Guard, CopyFits
    <2>6. pc # "delivered"
      BY <1>1 DEF Guard
    <2> QED
      BY <1>2, <1>3, <2>1, <2>2, <2>3, <2>4, <2>5, <2>6 DEF CopyFits, Moves, Local, Known, Holds
  <1>5. RowKept(w, j)
    BY <1>2 DEF RowKept
  <1>6. ASSUME j \notin retried PROVE FreshNext(w, j)
    <2>1. /\ \A d \in Dests : v.dest[d] # "uncertain"
          /\ v.pc = "sending" \/ (v.pc \in {"gate", "download"} /\ ~Cancelled)
               => row[j].dest[v.at] = "processing"
          /\ \A d \in Dests : approved[j][d] = 0 =>
               /\ sent[j][d] \in {0, 1}
               /\ sent[j][d] = 1 => row[j].dest[d] # "failed" /\ v.dest[d] = "forwarded"
      BY <1>2, <1>3, <1>6, FreshFacts
    <2>2. worker'[w].dest = v.dest /\ worker'[w].at = v.at /\ worker'[w].pc = pc
      BY <1>2 DEF Moves
    <2>3. pc \in {"sending", "delivered"} \/ (pc \in {"gate", "download"} /\ ~Cancelled)
            => row[j].dest[v.at] = "processing"
      BY <1>1, <2>1 DEF Guard
    <2>4. \A d \in Dests : v.dest[d] = "forwarded" => Accounted(w, d)'
      BY <2>2 DEF Accounted
    <2> QED
      BY <1>2, <2>1, <2>2, <2>3, <2>4 DEF FreshNext
  <1> QED
    BY <1>1, <1>2, <1>3, <1>4, <1>5, <1>6, WayKeeps DEF Moves, Guard

\* A step that settles the destination at hand: x is what becomes of it.
LEMMA SettleKeeps ==
    ASSUME TypeOK, ForwardInv, NEW w \in Workers, WorkerStep(w), NEW j \in Jobs, worker[w].job = j,
           NEW pc \in {"finish", "route"}, NEW x \in DestStatuses, worker[w].at \in Dests,
           worker[w].pc \in {"gate", "sending", "delivered"},
           Moves(w, pc, worker[w].at, [worker[w].dest EXCEPT ![worker[w].at] = x], worker[w].status),
           row' = row \/ Writes(j, row[j].status, [worker[w].dest EXCEPT ![worker[w].at] = x]),
           sent' = sent,
           x = "processing" => FALSE,
           x = "forwarded" => sent[j][worker[w].at] > 0,
           x = "uncertain" => pc = "finish",
           x = "pending" => worker[w].pc # "delivered",
           x = "failed" => row' = row /\ (worker[w].pc # "delivered" \/ (Cancelled /\ pc = "finish"))
    PROVE  ForwardInv'
  <1> DEFINE v == worker[w]
             dest == [v.dest EXCEPT ![v.at] = x]
  <1>0. v \in Copies /\ v.dest \in [Dests -> DestStatuses] /\ v.pc \notin {"idle", "finish"}
    BY DEF TypeOK, Copies
  <1>d. dest[v.at] = x /\ \A d \in Dests : d # v.at => dest[d] = v.dest[d]
    BY <1>0
  <1>r. \A k \in Jobs \ {j} : row'[k] = row[k]
    BY DEF Writes
  <1>c. CopyFits(w) /\ v.dest[v.at] = "processing"
    BY DEF ForwardInv, CopyFits
  <1>1. Local(w, j) /\ Holds(w, j) /\ Holds(w, j)'
    BY <1>0, <1>r, WayLocal
  <1>m. worker'[w].pc = pc /\ worker'[w].at = v.at /\ worker'[w].dest = dest
        /\ worker'[w].status = v.status /\ worker'[w].job = j
    BY DEF Moves
  <1> HIDE DEF dest
  <1>2. CopyFits(w)'
    <2>1. v.status # "forwarded"
      BY <1>0, <1>c DEF CopyFits
    <2>2. \A d \in Dests : dest[d] = "forwarded" => Known(j, d)'
      <3>1. ASSUME NEW d \in Dests, dest[d] = "forwarded" PROVE Known(j, d)
        BY <1>0, <1>c, <1>d, <3>1 DEF CopyFits, Known
      <3> QED
        BY <3>1, <1>1 DEF Known, Local
    <2> QED
      BY <1>0, <1>c, <1>m, <1>1, <2>1, <2>2 DEF CopyFits, Local
  <1>3. RowKept(w, j)
    BY <1>m DEF RowKept, Writes, dest
  <1>4. ASSUME j \notin retried PROVE FreshNext(w, j)
    <2>1. /\ \A d \in Dests : v.dest[d] # "uncertain"
          /\ \A d \in Dests : approved[j][d] = 0 =>
               /\ sent[j][d] \in {0, 1}
               /\ sent[j][d] = 1 =>
                    /\ row[j].dest[d] # "failed"
                    /\ \/ v.dest[d] = "forwarded"
                       \/ v.pc = "delivered" /\ v.at = d
      BY <1>0, <1>1, <1>4, FreshFacts
    <2>2. pc # "finish" => \A d \in Dests : dest[d] # "uncertain"
      BY <1>d, <2>1
    <2>3. ASSUME NEW d \in Dests, approved[j][d] = 0, sent[j][d] = 1
          PROVE  row'[j].dest[d] # "failed" /\ Accounted(w, d)'
      <3>1. row[j].dest[d] # "failed" /\ (v.dest[d] = "forwarded" \/ (v.pc = "delivered" /\ v.at = d))
        BY <2>1, <2>3
      <3>2. CASE d # v.at
        <4>1. dest[d] = "forwarded"
          BY <1>d, <3>1, <3>2
        <4> QED
          BY <1>m, <1>3, <3>1, <4>1 DEF Accounted, RowKept
      <3>3. CASE d = v.at
        <4>1. v.pc = "delivered" /\ x \in {"forwarded", "uncertain", "failed"}
          BY <1>c, <3>1, <3>3 DEF DestStatuses
        <4>2. CASE x = "failed"
          <5>1. Cancelled /\ pc = "finish" /\ row' = row /\ \A e \in Dests : dest[e] # "uncertain"
            BY <1>d, <2>1, <4>1, <4>2
          <5>2. Cancelled'
            BY <1>1, <5>1 DEF Cancelled, Local
          <5> QED
            BY <1>d, <1>m, <3>1, <3>3, <4>2, <5>1, <5>2 DEF Accounted
        <4>3. CASE x # "failed"
          BY <1>d, <1>m, <1>3, <3>1, <3>3, <4>1, <4>3 DEF Accounted, RowKept
        <4> QED
          BY <4>2, <4>3
      <3> QED
        BY <3>2, <3>3
    <2>4. \A d \in Dests : approved[j][d] = 0 => sent'[j][d] <= 1
      <3>1. \A d \in Dests : approved[j][d] = 0 => sent[j][d] \in {0, 1}
        BY <2>1
      <3> QED
        BY <3>1
    <2> QED
      BY <1>m, <2>2, <2>3, <2>4 DEF FreshNext
  <1> QED
    BY <1>0, <1>1, <1>2, <1>3, <1>4, <1>m, WayKeeps

\* The outcomes of a request: forwarded, in doubt, refused, or to be tried again.
LEMMA OutcomeKeeps ==
    ASSUME TypeOK, ForwardInv, NEW w \in Workers, WorkerStep(w),
           \/ DestinationBlocked(w) \/ CancelBeforeRequest(w) \/ Succeed(w) \/ LoseAnswer(w)
           \/ MonitorGone(w)
    PROVE  ForwardInv'
  <1> DEFINE v == worker[w]
             at(s) == [v.dest EXCEPT ![v.at] = s]
  <1>0. /\ Typed /\ row \in [Jobs -> Rows] /\ v.pc \in {"gate", "sending", "delivered"}
        /\ sent' = sent
    BY DEF TypeOK, Typed, DestinationBlocked, CancelBeforeRequest, Succeed, LoseAnswer, MonitorGone,
           history
  <1>1. v.at \in Dests /\ v.job \in Jobs
    BY <1>0 DEF Typed, CopyOK
  <1>j. PICK j \in Jobs : v.job = j
    BY <1>1
  <1>s. \A dest : Stored(w, dest) => row' = row \/ (Writes(j, row[j].status, dest) /\ ~Cancelled)
    BY <1>j DEF Stored
  <1>x. {"pending", "processing", "forwarded", "failed", "uncertain"} \subseteq DestStatuses
    BY DEF DestStatuses
  <1>2. CASE DestinationBlocked(w)
    <2>1. v.pc = "gate" /\ Moves(w, "finish", v.at, at("failed"), v.status) /\ row' = row
      BY <1>0, <1>2, DestinationEffects DEF DestinationBlocked
    <2> QED
      BY <1>0, <1>1, <1>j, <1>x, <2>1, SettleKeeps
  <1>3. CASE CancelBeforeRequest(w)
    <2>1. /\ v.pc = "gate" /\ Moves(w, "finish", v.at, at("pending"), v.status)
          /\ Writes(j, row[j].status, at("pending"))
      BY <1>0, <1>3, <1>j, DestinationEffects DEF CancelBeforeRequest
    <2> QED
      BY <1>0, <1>1, <1>j, <1>x, <2>1, SettleKeeps
  <1>4. CASE Succeed(w)
    <2>1. /\ v.pc = "delivered" /\ Moves(w, "route", v.at, at("forwarded"), v.status)
          /\ Stored(w, at("forwarded"))
      BY <1>0, <1>4, DestinationEffects DEF Succeed
    <2>2. sent[j][v.at] > 0
      BY <1>j, <2>1 DEF ForwardInv, CopyFits
    <2>3. row' = row \/ Writes(j, row[j].status, at("forwarded"))
      BY <2>1, <1>s
    <2> QED
      BY <1>0, <1>1, <1>j, <1>x, <2>1, <2>2, <2>3, SettleKeeps
  <1>5. CASE LoseAnswer(w)
    <2> DEFINE x == OutcomeOfLostAnswer(w)
    <2>1. Moves(w, "finish", v.at, at(x), v.status) /\ Stored(w, at(x))
      BY <1>0, <1>5, DestinationEffects
    <2>2. x \in {"failed", "uncertain"} /\ (x = "failed" => Cancelled)
      BY DEF OutcomeOfLostAnswer
    <2>3. row' = row \/ Writes(j, row[j].status, at(x))
      BY <2>1, <1>s
    <2>4. Cancelled => row' = row
      BY <2>1, <1>s
    <2> HIDE DEF x
    <2>5. x = "failed" => row' = row /\ Cancelled
      BY <2>2, <2>4
    <2> QED
      BY <1>0, <1>1, <1>j, <1>x, <2>1, <2>2, <2>3, <2>5, SettleKeeps
  <1>6. CASE MonitorGone(w)
    <2>1. v.pc = "sending" /\ Moves(w, "finish", v.at, at("pending"), v.status) /\ row' = row
      BY <1>0, <1>6, DestinationEffects DEF MonitorGone
    <2> QED
      BY <1>0, <1>1, <1>j, <1>x, <2>1, SettleKeeps
  <1> QED
    BY <1>2, <1>3, <1>4, <1>5, <1>6

\* Taking the next destination: none that is settled is taken again.
LEMMA NextDestinationKeeps ==
    ASSUME TypeOK, ForwardInv, NEW w \in Workers, WorkerStep(w), NEW a \in Dests, NextDestination(w, a)
    PROVE  ForwardInv'
  <1> DEFINE v == worker[w]
             dest == [v.dest EXCEPT ![a] = "processing"]
  <1>0. /\ Typed /\ row \in [Jobs -> Rows] /\ v.pc = "route" /\ sent' = sent
        /\ v \in Copies /\ v.dest \in [Dests -> DestStatuses]
        /\ v.dest[a] \notin {"forwarded", "uncertain"}
    BY DEF TypeOK, Typed, NextDestination, history, Undelivered, Copies
  <1>j. PICK j \in Jobs : v.job = j
    BY <1>0 DEF Typed, CopyOK
  <1>1. Moves(w, "gate", a, dest, v.status) /\ Stored(w, dest)
    BY <1>0, DestinationEffects
  <1>d. dest[a] = "processing" /\ \A d \in Dests : d # a => dest[d] = v.dest[d]
    BY <1>0
  <1> HIDE DEF dest
  <1>r. \/ Cancelled /\ row' = row
        \/ ~Cancelled /\ Writes(j, row[j].status, dest)
    BY <1>1, <1>j DEF Stored
  <1>c. CopyFits(w)
    BY DEF ForwardInv
  <1>m. worker'[w].pc = "gate" /\ worker'[w].at = a /\ worker'[w].dest = dest
        /\ worker'[w].status = v.status /\ worker'[w].job = j
    BY <1>1, <1>j DEF Moves
  <1>2. Local(w, j) /\ Holds(w, j) /\ Holds(w, j)'
    <2>1. \A k \in Jobs \ {j} : row'[k] = row[k]
      BY <1>r DEF Writes
    <2> QED
      BY <1>0, <1>1, <1>j, <2>1, WayLocal
  <1>3. CopyFits(w)'
    <2>1. v.status # "forwarded"
      BY <1>0, <1>c DEF CopyFits
    <2>2. \A d \in Dests : dest[d] = "forwarded" => Known(j, d)'
      BY <1>0, <1>c, <1>d, <1>j, <1>2 DEF CopyFits, Known, Local
    <2> QED
      BY <1>0, <1>c, <1>d, <1>m, <1>2, <2>1, <2>2 DEF CopyFits, Local
  <1>4. RowKept(w, j)
    BY <1>r, <1>m DEF RowKept, Writes
  <1>5. ASSUME j \notin retried PROVE FreshNext(w, j)
    <2>1. /\ \A d \in Dests : v.dest[d] # "uncertain"
          /\ \A d \in Dests : approved[j][d] = 0 =>
               /\ sent[j][d] \in {0, 1}
               /\ sent[j][d] = 1 => row[j].dest[d] # "failed" /\ v.dest[d] = "forwarded"
      BY <1>0, <1>2, <1>5, FreshFacts
    <2>2. ~Cancelled => row'[j].dest[a] = "processing"
      BY <1>d, <1>r DEF Writes
    <2>3. ASSUME NEW d \in Dests, approved[j][d] = 0, sent[j][d] = 1
          PROVE  row'[j].dest[d] # "failed" /\ Accounted(w, d)'
      <3>1. dest[d] = "forwarded" /\ row[j].dest[d] # "failed"
        BY <1>0, <1>d, <2>1, <2>3
      <3> QED
        BY <1>m, <1>4, <3>1 DEF Accounted, RowKept
    <2>4. \A d \in Dests : approved[j][d] = 0 => sent'[j][d] <= 1
      <3>1. \A d \in Dests : approved[j][d] = 0 => sent[j][d] \in {0, 1}
        BY <2>1
      <3> QED
        BY <1>0, <3>1
    <2>5. \A d \in Dests : dest[d] # "uncertain"
      BY <1>d, <2>1
    <2> QED
      BY <1>0, <1>m, <2>2, <2>3, <2>4, <2>5 DEF FreshNext
  <1> QED
    BY <1>0, <1>2, <1>3, <1>4, <1>5, <1>m, WayKeeps

\* Telegram accepts a message for a destination that had none.
LEMMA DeliverKeeps ==
    ASSUME TypeOK, ForwardInv, NEW w \in Workers, WorkerStep(w), Deliver(w)
    PROVE  ForwardInv'
  <1> DEFINE v == worker[w]
  <1>0. /\ Typed /\ row \in [Jobs -> Rows] /\ v.pc = "sending"
        /\ sent \in [Jobs -> [Dests -> Nat]]
    BY DEF TypeOK, Typed, Deliver
  <1>a. v.at \in Dests /\ v.job \in Jobs
    BY <1>0 DEF Typed, CopyOK
  <1>j. PICK j \in Jobs, a \in Dests : v.job = j /\ v.at = a
    BY <1>a
  <1>m. /\ worker'[w].pc = "delivered" /\ worker'[w].at = a /\ worker'[w].dest = v.dest
        /\ worker'[w].status = v.status /\ worker'[w].job = j /\ row' = row
        /\ \A u \in Workers \ {w} : worker'[u] = worker[u]
    BY <1>0, <1>j, DeliverEffect DEF Moves
  <1>s. /\ sent' \in [Jobs -> [Dests -> Nat]] /\ sent'[j][a] = sent[j][a] + 1
        /\ \A k \in Jobs, e \in Dests : k # j \/ e # a => sent'[k][e] = sent[k][e]
    BY <1>0, <1>j, DeliverEffect DEF Accepts
  <1>c. CopyFits(w)
    BY DEF ForwardInv
  <1>2. Local(w, j) /\ Holds(w, j) /\ Holds(w, j)'
    <2>1. UNCHANGED <<app, asked, approved, confirmed, retried>>
      BY WorkerFrame
    <2>2. \A d \in Dests : sent[j][d] \in Nat /\ sent'[j][d] \in Nat /\ sent'[j][d] >= sent[j][d]
      BY <1>0, <1>s
    <2> QED
      BY <1>0, <1>j, <1>m, <1>s, <2>1, <2>2 DEF Local, Holds
  <1>3. CopyFits(w)'
    <2>1. \A d \in Dests : v.dest[d] = "forwarded" => Known(j, d)'
      BY <1>0, <1>c, <1>j, <1>2 DEF CopyFits, Known, Local
    <2>2. sent'[j][a] > 0
      BY <1>0, <1>s
    <2> QED
      BY <1>0, <1>c, <1>j, <1>m, <1>2, <2>1, <2>2 DEF CopyFits, Local
  <1>4. RowKept(w, j)
    BY <1>m DEF RowKept
  <1>5. ASSUME j \notin retried PROVE FreshNext(w, j)
    <2>1. /\ \A d \in Dests : v.dest[d] # "uncertain"
          /\ row[j].dest[a] = "processing"
          /\ \A d \in Dests : approved[j][d] = 0 =>
               /\ sent[j][d] \in {0, 1}
               /\ sent[j][d] = 1 => row[j].dest[d] # "failed" /\ v.dest[d] = "forwarded"
      BY <1>0, <1>2, <1>5, <1>j, FreshFacts
    <2>2. v.dest[a] = "processing"
      BY <1>0, <1>c, <1>j DEF CopyFits
    <2>3. ASSUME NEW d \in Dests, approved[j][d] = 0
          PROVE  sent'[j][d] <= 1 /\ (sent'[j][d] = 1 => row'[j].dest[d] # "failed" /\ Accounted(w, d)')
      <3>1. CASE d = a
        <4>1. sent[j][a] = 0
          BY <2>1, <2>2, <2>3, <3>1
        <4> QED
          BY <1>s, <1>m, <2>1, <3>1, <4>1 DEF Accounted
      <3>2. CASE d # a
        BY <1>s, <1>m, <2>1, <2>3, <3>2 DEF Accounted
      <3> QED
        BY <3>1, <3>2
    <2> QED
      BY <1>m, <2>1, <2>3 DEF FreshNext
  <1> QED
    BY <1>0, <1>2, <1>3, <1>4, <1>5, <1>m, WayKeeps

\* A failed attempt is recorded before it ends.
LEMMA FailedKeeps ==
    ASSUME TypeOK, ForwardInv, NEW w \in Workers, WorkerStep(w), ForwardFailed(w)
    PROVE  ForwardInv'
  <1> DEFINE v == worker[w]
             dest == [d \in Dests |-> IF d = v.at THEN "failed" ELSE v.dest[d]]
  <1>0. Typed /\ row \in [Jobs -> Rows] /\ v.pc = "fail" /\ sent' = sent
    BY DEF TypeOK, Typed, ForwardFailed, history
  <1>j. PICK j \in Jobs : v.job = j
    BY <1>0 DEF Typed, CopyOK
  <1>1. Moves(w, "finish", v.at, dest, v.status) /\ Writes(j, "failed", v.dest)
    BY <1>0, <1>j, ForwardFailedEffect
  <1>d. \A d \in Dests : dest[d] = IF d = v.at THEN "failed" ELSE v.dest[d]
    OBVIOUS
  <1> HIDE DEF dest
  <1>c. CopyFits(w)
    BY DEF ForwardInv
  <1>m. worker'[w].pc = "finish" /\ worker'[w].at = v.at /\ worker'[w].dest = dest
        /\ worker'[w].status = v.status /\ worker'[w].job = j
        /\ row'[j].status = "failed" /\ row'[j].dest = v.dest
    BY <1>1, <1>j DEF Moves, Writes
  <1>2. Local(w, j) /\ Holds(w, j) /\ Holds(w, j)'
    <2>1. \A k \in Jobs \ {j} : row'[k] = row[k]
      BY <1>1 DEF Writes
    <2> QED
      BY <1>0, <1>1, <1>j, <2>1, WayLocal
  <1>3. CopyFits(w)'
    <2>1. v.status # "forwarded"
      BY <1>0, <1>c DEF CopyFits
    <2>2. \A d \in Dests : dest[d] = "forwarded" => Known(j, d)'
      BY <1>0, <1>c, <1>d, <1>j, <1>2 DEF CopyFits, Known, Local
    <2> QED
      BY <1>0, <1>c, <1>m, <1>2, <2>1, <2>2 DEF CopyFits, Local
  <1>4. RowFits(j)'
    <2>1. \A d \in Dests : row'[j].dest[d] = "forwarded" => Known(j, d)'
      BY <1>0, <1>c, <1>j, <1>m, <1>2 DEF CopyFits, Known, Local
    <2> QED
      BY <1>2, <1>m, <2>1, RowHeld
  <1>5. FreshFits(j)'
    <2>1. ASSUME j \notin retried
          PROVE  /\ HoldFits(w, j)'
                 /\ \A d \in Dests : approved[j][d] = 0 =>
                      /\ sent'[j][d] <= 1
                      /\ sent'[j][d] = 1 => row'[j].dest[d] # "failed" \/ row'[j].status = "failed"
                      /\ sent'[j][d] = 1 => Accounted(w, d)'
      <3>1. HoldFits(w, j)'
        BY <1>m DEF HoldFits
      <3>2. ASSUME NEW d \in Dests, approved[j][d] = 0
            PROVE  sent[j][d] <= 1 /\ (sent[j][d] = 1 => Accounted(w, d)')
        <4>1. sent[j][d] \in {0, 1} /\ (sent[j][d] = 1 => v.dest[d] = "forwarded")
          BY <1>0, <1>2, <2>1, <3>2, FreshFacts
        <4>2. sent[j][d] = 1 => dest[d] = "forwarded"
          BY <1>0, <1>c, <1>d, <4>1 DEF CopyFits
        <4> QED
          BY <1>m, <4>1, <4>2 DEF Accounted
      <3> QED
        BY <1>0, <1>m, <3>1, <3>2
    <2> QED
      BY <1>2, <2>1, FreshHeld
  <1> QED
    BY <1>2, <1>3, <1>4, <1>5, LocalKeeps

\* A claimed job is nobody else's.
LEMMA ClaimKeeps ==
    ASSUME TypeOK, ForwardInv, NEW w \in Workers, WorkerStep(w), NEW j \in Jobs, ClaimForward(w, j)
    PROVE  ForwardInv'
  <1>0. /\ Typed /\ row \in [Jobs -> Rows] /\ sent' = sent /\ sent \in [Jobs -> [Dests -> Nat]]
        /\ worker[w].pc = "idle" /\ app = "up"
    BY DEF TypeOK, Typed, ClaimForward, history, Cancelled
  <1>1. Takes(w, j) /\ Writes(j, "processing", row[j].dest) /\ row[j].status = "pending"
    BY <1>0, ClaimEffect
  <1>u. UNCHANGED <<app, asked, approved, confirmed, retried>>
    BY WorkerFrame
  <1>m. /\ worker'[w].pc = "pace" /\ worker'[w].job = j /\ worker'[w].dest = row[j].dest
        /\ worker'[w].status = "failed" /\ worker'[w].at = 0
        /\ \A v \in Workers \ {w} : worker'[v] = worker[v]
        /\ row'[j].status = "processing" /\ row'[j].dest = row[j].dest
        /\ \A k \in Jobs \ {j} : row'[k] = row[k]
    BY <1>1 DEF Takes, Writes
  <1>2. Local(w, j)
    BY <1>0, <1>u, <1>m DEF Local
  <1>r. RowFits(j) /\ FreshFits(j) /\ \A d \in Dests : Known(j, d) => Known(j, d)'
    BY <1>2 DEF ForwardInv, Known, Local
  <1>3. CopyFits(w)'
    BY <1>0, <1>1, <1>u, <1>m, <1>r DEF CopyFits, RowFits
  <1>4. RowFits(j)'
    BY <1>1, <1>u, <1>m, <1>r DEF RowFits, Holds
  <1>5. ASSUME j \notin retried PROVE FreshFits(j)'
    <2>1. \A v \in Workers : ~Holds(v, j)
      BY <1>1, <1>5, <1>r DEF FreshFits, HoldFits
    <2>2. \A v \in Workers : Holds(v, j)' => v = w
      BY <1>m, <2>1 DEF Holds
    <2>3. HoldFits(w, j)'
      BY <1>1, <1>5, <1>m, <1>r DEF HoldFits, FreshFits
    <2>4. ASSUME NEW d \in Dests, approved[j][d] = 0 PROVE SentFits(j, d)'
      BY <1>0, <1>1, <1>5, <1>m, <1>r, <2>2, <2>4 DEF FreshFits, SentFits, Accounted
    <2> QED
      BY <1>m, <1>u, <2>2, <2>3, <2>4 DEF FreshFits
  <1>6. j \in retried => FreshFits(j)'
    BY <1>u DEF FreshFits
  <1> QED
    BY <1>2, <1>3, <1>4, <1>5, <1>6, LocalKeeps

\* Leaving a job: it is nobody's, and what may be sent again was not.
LEMMA LeaveKeeps ==
    ASSUME TypeOK, ForwardInv, NEW w \in Workers, WorkerStep(w), NEW j \in Jobs, Holds(w, j),
           Leaves(w), NEW s, NEW dest, Writes(j, s, dest), sent' = sent, s # "processing",
           \A d \in Dests : s = "forwarded" \/ dest[d] = "forwarded" => Known(j, d),
           j \notin retried =>
             /\ s = "pending" => \A d \in Dests : dest[d] # "uncertain"
             /\ \A d \in Dests : approved[j][d] = 0 /\ sent[j][d] = 1 =>
                  /\ s = "pending" => dest[d] = "forwarded"
                  /\ s = "uncertain" => dest[d] # "failed"
    PROVE  ForwardInv'
  <1>0. sent \in [Jobs -> [Dests -> Nat]]
    BY DEF TypeOK
  <1>u. UNCHANGED <<app, asked, approved, confirmed, retried>>
    BY WorkerFrame
  <1>m. /\ worker'[w] = Idle /\ Idle.pc = "idle" /\ Idle.status = "failed"
        /\ \A v \in Workers \ {w} : worker'[v] = worker[v]
        /\ row'[j].status = s /\ row'[j].dest = dest /\ \A k \in Jobs \ {j} : row'[k] = row[k]
    BY DEF Leaves, Writes, Idle
  <1>1. Local(w, j)
    BY <1>0, <1>u, <1>m DEF Local, Holds
  <1>2. CopyFits(w)'
    BY <1>m DEF CopyFits
  <1>3. RowFits(j)'
    <2>1. j \in asked
      BY DEF ForwardInv, CopyFits, Holds
    <2> QED
      BY <1>u, <1>m, <2>1 DEF RowFits, Known
  <1>4. ASSUME j \notin retried PROVE FreshFits(j)'
    <2>1. \A v \in Workers : ~Holds(v, j)'
      BY <1>4, <1>m, FreshAlone DEF Holds
    <2>2. ASSUME NEW d \in Dests, approved[j][d] = 0 PROVE SentFits(j, d)'
      <3>1. sent[j][d] <= 1
        BY <1>4, <2>2, FreshAlone DEF SentFits
      <3> QED
        BY <1>4, <1>m, <2>1, <2>2, <3>1 DEF SentFits
    <2> QED
      BY <1>4, <1>u, <1>m, <2>1, <2>2 DEF FreshFits
  <1>5. j \in retried => FreshFits(j)'
    BY <1>u DEF FreshFits
  <1> QED
    BY <1>1, <1>2, <1>3, <1>4, <1>5, LocalKeeps

\* Giving a row back keeps the invariant: no destination had been touched.
LEMMA ReleaseKeeps ==
    ASSUME TypeOK, ForwardInv, NEW w \in Workers, WorkerStep(w), ReleaseClaim(w)
    PROVE  ForwardInv'
  <1>0. /\ Typed /\ row \in [Jobs -> Rows] /\ sent' = sent /\ worker[w].pc = "pace"
    BY DEF TypeOK, Typed, ReleaseClaim, history
  <1>j. PICK j \in Jobs : worker[w].job = j
    BY <1>0 DEF Typed, CopyOK
  <1> DEFINE s == IF row[j].status = "processing" THEN "pending" ELSE row[j].status
  <1>1. Leaves(w) /\ Writes(j, s, row[j].dest) /\ Holds(w, j)
    BY <1>0, <1>j, ReleaseEffect DEF Holds
  <1>2. s # "processing" /\ (s = "forwarded" => row[j].status = "forwarded")
    OBVIOUS
  <1> HIDE DEF s
  <1>3. \A d \in Dests : s = "forwarded" \/ row[j].dest[d] = "forwarded" => Known(j, d)
    BY <1>2 DEF ForwardInv, RowFits
  <1>4. ASSUME j \notin retried
        PROVE  /\ \A d \in Dests : row[j].dest[d] # "uncertain"
               /\ \A d \in Dests : approved[j][d] = 0 /\ sent[j][d] = 1 => row[j].dest[d] = "forwarded"
    <2>1. row[j].dest = worker[w].dest
      BY <1>0, <1>1, <1>4, FreshAlone DEF HoldFits
    <2> QED
      BY <1>0, <1>1, <1>4, <2>1, FreshFacts
  <1> QED
    BY <1>0, <1>1, <1>2, <1>3, <1>4, LeaveKeeps

\* The end of an attempt: a destination that got its message is forwarded or in doubt in the row.
LEMMA FinishKeeps ==
    ASSUME TypeOK, ForwardInv, NEW w \in Workers, WorkerStep(w), Finish(w)
    PROVE  ForwardInv'
  <1> DEFINE v == worker[w]
             s == FinishedStatus(v)
  <1>0. /\ Typed /\ row \in [Jobs -> Rows] /\ sent' = sent /\ v.pc = "finish"
        /\ sent \in [Jobs -> [Dests -> Nat]] /\ v.dest \in [Dests -> DestStatuses]
    BY DEF TypeOK, Typed, Finish, history, Copies
  <1>j. PICK j \in Jobs : v.job = j
    BY <1>0 DEF Typed, CopyOK
  <1>1. Leaves(w) /\ Writes(j, s, v.dest) /\ Holds(w, j)
    BY <1>0, <1>j, FinishEffect DEF Holds
  <1>c. CopyFits(w)
    BY DEF ForwardInv
  <1>2. s # "processing"
    BY <1>c DEF FinishedStatus, SettledStatus, BaseStatus, CopyFits
  <1>3. s = "pending" => (\A d \in Dests : v.dest[d] # "uncertain") /\ ~Cancelled
    BY <1>c DEF FinishedStatus, RetriesItself, SettledStatus, BaseStatus, CopyFits
  <1>4. s = "uncertain" => \E d \in Dests : v.dest[d] = "uncertain"
    BY <1>c DEF FinishedStatus, SettledStatus, BaseStatus, CopyFits
  <1>5. s = "forwarded" => \A d \in Dests : v.dest[d] = "forwarded"
    BY <1>c DEF FinishedStatus, SettledStatus, BaseStatus, CopyFits
  <1> HIDE DEF s
  <1>6. \A d \in Dests : s = "forwarded" \/ v.dest[d] = "forwarded" => Known(j, d)
    BY <1>0, <1>c, <1>j, <1>5 DEF CopyFits
  <1>7. ASSUME j \notin retried
        PROVE  \A d \in Dests : approved[j][d] = 0 /\ sent[j][d] = 1 =>
                  /\ s = "pending" => v.dest[d] = "forwarded"
                  /\ s = "uncertain" => v.dest[d] # "failed"
    <2> SUFFICES ASSUME NEW d \in Dests, approved[j][d] = 0, sent[j][d] = 1
                 PROVE  /\ s = "pending" => v.dest[d] = "forwarded"
                        /\ s = "uncertain" => v.dest[d] # "failed"
      OBVIOUS
    <2>1. Accounted(w, d)
      BY <1>1, <1>7, FreshAlone
    <2> QED
      BY <1>0, <1>3, <1>4, <2>1 DEF Accounted
  <1> QED
    BY <1>0, <1>1, <1>2, <1>3, <1>6, <1>7, LeaveKeeps

\* Every step of a worker keeps the invariant.
LEMMA WorkerKeeps ==
    ASSUME TypeOK, ForwardInv, NEW w \in Workers, WorkerStep(w)
    PROVE  ForwardInv'
  <1>1. Typed
    BY DEF TypeOK, Typed
  <1> QED
    BY <1>1, WorkerKinds, ClaimKeeps, PassKeeps, NextDestinationKeeps, OutcomeKeeps, DeliverKeeps,
       FailedKeeps, ReleaseKeeps, FinishKeeps

-----------------------------------------------------------------------------
(* Steps of the operator, of time and of the process.                      *)

\* A step that changes neither the workers nor what the invariant reads of a row.
LEMMA FrameKeeps ==
    ASSUME TypeOK, ForwardInv, UNCHANGED <<worker, app, asked, sent, approved, confirmed, retried>>,
           \A k \in Jobs : row'[k].status = row[k].status /\ row'[k].dest = row[k].dest
    PROVE  ForwardInv'
  <1>1. ASSUME NEW w \in Workers PROVE CopyFits(w)'
    BY DEF ForwardInv, CopyFits, Known
  <1>2. ASSUME NEW k \in Jobs PROVE RowFits(k)' /\ FreshFits(k)'
    <2>1. RowFits(k) /\ FreshFits(k)
      BY DEF ForwardInv
    <2>2. RowFits(k)'
      BY <2>1 DEF RowFits, Known, Holds
    <2>3. \A w \in Workers : Holds(w, k)' <=> Holds(w, k)
      BY DEF Holds
    <2>4. \A w \in Workers : HoldFits(w, k)' <=> HoldFits(w, k)
      BY DEF HoldFits, Cancelled
    <2>5. \A w \in Workers, d \in Dests : Accounted(w, d)' <=> Accounted(w, d)
      BY DEF Accounted, Cancelled
    <2>6. FreshFits(k)'
      BY <2>1, <2>3, <2>4, <2>5 DEF FreshFits, SentFits
    <2> QED
      BY <2>2, <2>6
  <1> QED
    BY <1>1, <1>2 DEF ForwardInv

\* A step without workers: nobody has a job before it and after it.
LEMMA VacantKeeps ==
    ASSUME TypeOK, ForwardInv, \A w \in Workers : worker'[w] = Idle,
           UNCHANGED <<asked, sent, approved, confirmed, retried>>,
           \A k \in Jobs : /\ row'[k].dest = row[k].dest
                           /\ \/ row'[k].status = row[k].status
                              \/ row[k].status = "processing" /\ row'[k].status = "uncertain",
           app' # "down" => \A k \in Jobs : row'[k].status # "processing"
    PROVE  ForwardInv'
  <1>0. Idle.pc = "idle" /\ Idle.status = "failed"
    BY DEF Idle
  <1>1. ASSUME NEW w \in Workers PROVE CopyFits(w)'
    BY <1>0 DEF CopyFits
  <1>2. ASSUME NEW k \in Jobs PROVE RowFits(k)' /\ FreshFits(k)'
    <2>1. RowFits(k) /\ FreshFits(k)
      BY DEF ForwardInv
    <2>2. RowFits(k)'
      BY <2>1 DEF RowFits, Known
    <2>3. \A w \in Workers : ~Holds(w, k)'
      BY <1>0 DEF Holds
    <2>4. FreshFits(k)'
      BY <2>1, <2>3 DEF FreshFits, SentFits
    <2> QED
      BY <2>2, <2>4
  <1> QED
    BY <1>1, <1>2 DEF ForwardInv

\* A retry makes the job one of which nothing more is promised, and sends nothing itself.
LEMMA RetryKeeps ==
    ASSUME TypeOK, ForwardInv, NEW js \in SUBSET Jobs, Retry(js)
    PROVE  ForwardInv'
  <1>1. /\ \A k \in Jobs : /\ row'[k].dest = row[k].dest
                           /\ k \notin js => row'[k] = row[k]
                           /\ k \in js => row'[k].status = "pending"
        /\ UNCHANGED <<worker, app, asked, sent, approved, confirmed>> /\ retried' = retried \cup js
        /\ \A k \in js : row[k].status \in {"failed", "interrupted"}
    BY RowEffects DEF TypeOK, Retry, Retryable
  <1>2. ASSUME NEW w \in Workers PROVE CopyFits(w)'
    BY <1>1 DEF ForwardInv, CopyFits, Known
  <1>3. ASSUME NEW k \in Jobs PROVE RowFits(k)'
    <2>1. RowFits(k)
      BY DEF ForwardInv
    <2>2. k \notin asked' => row'[k].status = "absent" /\ \A d \in Dests : sent'[k][d] = 0
      BY <1>1, <2>1 DEF RowFits
    <2> QED
      BY <1>1, <2>1, <2>2 DEF RowFits, Known, Holds
  <1>4. ASSUME NEW k \in Jobs PROVE FreshFits(k)'
    <2>1. FreshFits(k)
      BY DEF ForwardInv
    <2>2. CASE k \in js
      BY <1>1, <2>2 DEF FreshFits
    <2>3. CASE k \notin js
      <3>1. row'[k] = row[k]
        BY <1>1, <2>3
      <3>2. \A w \in Workers : (Holds(w, k)' <=> Holds(w, k)) /\ (HoldFits(w, k)' <=> HoldFits(w, k))
        BY <1>1, <3>1 DEF Holds, HoldFits, Cancelled
      <3>3. \A w \in Workers, d \in Dests : Accounted(w, d)' <=> Accounted(w, d)
        BY <1>1 DEF Accounted, Cancelled
      <3> QED
        BY <1>1, <2>1, <3>1, <3>2, <3>3 DEF FreshFits, SentFits
    <2> QED
      BY <2>2, <2>3
  <1> QED
    BY <1>2, <1>3, <1>4 DEF ForwardInv

\* An answer of the operator: resending one destination is approved, the others keep their accounts.
LEMMA ReconcileKeeps ==
    ASSUME TypeOK, ForwardInv, NEW j \in Jobs, NEW scope \in Scopes, NEW action \in {"sent", "resend"},
           Reconcile(j, scope, action)
    PROVE  ForwardInv'
  <1> DEFINE picked == Picked(row[j].dest, scope, action)
             dest == ReconciledDest(row[j].dest, scope, action)
             s == ReconciledStatus(dest, action)
  <1>0. /\ sent \in [Jobs -> [Dests -> Nat]] /\ approved \in [Jobs -> [Dests -> Nat]]
        /\ confirmed \in [Jobs -> SUBSET Dests]
    BY DEF TypeOK
  <1>1. /\ Writes(j, s, dest) /\ s \in {"uncertain", "forwarded", "pending"}
        /\ row[j].status = "uncertain"
    BY ReconcileEffect
  <1>2. /\ UNCHANGED <<worker, app, asked, sent, retried>>
        /\ action = "sent" => confirmed' = [confirmed EXCEPT ![j] = @ \cup picked] /\ approved' = approved
        /\ action = "resend" =>
             /\ confirmed' = confirmed
             /\ approved' = [approved EXCEPT ![j] = [d \in Dests |->
                               IF d \in picked THEN approved[j][d] + 1 ELSE approved[j][d]]]
    BY DEF Reconcile
  <1>d. ASSUME NEW d \in Dests
        PROVE  /\ dest[d] = IF d \in picked THEN IF action = "sent" THEN "forwarded" ELSE "pending"
                            ELSE IF row[j].dest[d] \in Waiting THEN "uncertain" ELSE row[j].dest[d]
    BY DEF ReconciledDest, Exposed
  <1>s. /\ s = "pending" => \A d \in Dests : dest[d] # "uncertain"
        /\ s = "forwarded" => \A d \in Dests : dest[d] = "forwarded"
    BY DEF ReconciledStatus
  <1> HIDE DEF picked, dest, s
  <1>m. /\ row'[j].status = s /\ row'[j].dest = dest /\ \A k \in Jobs \ {j} : row'[k] = row[k]
    BY <1>1 DEF Writes
  <1>3. /\ \A k \in Jobs, d \in Dests : Known(k, d) => Known(k, d)'
        /\ \A d \in Dests : dest[d] = "forwarded" => row[j].dest[d] = "forwarded" \/ Known(j, d)'
        /\ \A d \in Dests : approved'[j][d] = 0 =>
             approved[j][d] = 0 /\ (action = "sent" \/ d \notin picked)
        /\ \A k \in Jobs \ {j} : approved'[k] = approved[k]
    <2>1. CASE action = "sent"
      <3>1. /\ confirmed'[j] = confirmed[j] \cup picked /\ approved' = approved
            /\ \A k \in Jobs \ {j} : confirmed'[k] = confirmed[k]
        BY <1>0, <1>2, <2>1
      <3>2. \A k \in Jobs, d \in Dests : Known(k, d) => Known(k, d)'
        BY <1>2, <3>1 DEF Known
      <3>3. \A d \in Dests : dest[d] = "forwarded" => row[j].dest[d] = "forwarded" \/ Known(j, d)'
        BY <1>d, <3>1 DEF Known, Waiting
      <3> QED
        BY <2>1, <3>1, <3>2, <3>3
    <2>2. CASE action = "resend"
      <3>1. /\ \A d \in Dests : approved'[j][d] = IF d \in picked THEN approved[j][d] + 1 ELSE approved[j][d]
            /\ \A k \in Jobs \ {j} : approved'[k] = approved[k]
            /\ confirmed' = confirmed
        BY <1>0, <1>2, <2>2
      <3>2. \A d \in Dests : approved'[j][d] = 0 => d \notin picked /\ approved[j][d] = 0
        BY <1>0, <3>1
      <3>3. \A d \in Dests : dest[d] = "forwarded" => row[j].dest[d] = "forwarded"
        BY <1>d, <2>2 DEF Waiting
      <3> QED
        BY <1>2, <3>1, <3>2, <3>3 DEF Known
    <2> QED
      BY <2>1, <2>2
  <1>4. ASSUME NEW w \in Workers PROVE CopyFits(w)'
    <2>1. CopyFits(w) /\ (worker[w].pc # "idle" => worker[w].job \in Jobs)
      BY DEF ForwardInv, TypeOK, CopyOK
    <2>2. ASSUME worker[w].pc # "idle", NEW d \in Dests, worker[w].dest[d] = "forwarded"
          PROVE  Known(worker[w].job, d)'
      <3>1. PICK k \in Jobs : k = worker[w].job
        BY <2>1, <2>2
      <3>2. Known(k, d)
        BY <2>1, <2>2, <3>1 DEF CopyFits
      <3>3. Known(k, d)'
        BY <1>3, <3>2
      <3> QED
        BY <1>2, <3>1, <3>3 DEF Known
    <2> QED
      BY <1>2, <2>1, <2>2 DEF CopyFits, Known
  <1>5. ASSUME NEW k \in Jobs PROVE RowFits(k)'
    <2>1. RowFits(k)
      BY DEF ForwardInv
    <2>2. CASE k = j
      <3>1. j \in asked'
        BY <1>1, <1>2, <2>1, <2>2 DEF RowFits
      <3>2. \A d \in Dests : dest[d] = "forwarded" => Known(j, d)'
        BY <1>3, <2>1, <2>2 DEF RowFits
      <3> QED
        BY <1>1, <1>m, <1>s, <2>2, <3>1, <3>2 DEF RowFits
    <2>3. CASE k # j
      BY <1>2, <1>3, <1>m, <2>1, <2>3 DEF RowFits, Known, Holds
    <2> QED
      BY <2>2, <2>3
  <1>6. ASSUME NEW k \in Jobs PROVE FreshFits(k)'
    <2>1. FreshFits(k)
      BY DEF ForwardInv
    <2>h. \A w \in Workers : Holds(w, k)' <=> Holds(w, k)
      BY <1>2 DEF Holds
    <2>2. CASE k = j /\ j \notin retried
      <3>1. \A w \in Workers : ~Holds(w, j)'
        BY <1>1, <2>1, <2>2, <2>h DEF FreshFits, HoldFits
      <3>2. ASSUME NEW d \in Dests, approved'[j][d] = 0 PROVE SentFits(j, d)'
        <4>0. approved[j][d] = 0 /\ (action = "sent" \/ d \notin picked)
          BY <1>3, <3>2
        <4>1. SentFits(j, d) /\ (action = "sent" \/ d \notin picked)
          <5>1. FreshFits(j) /\ j \notin retried
            BY <2>1, <2>2
          <5> QED
            BY <4>0, <5>1 DEF FreshFits
        <4>2. sent[j][d] = 1 => dest[d] \in {"forwarded", "uncertain"}
          <5>1. sent[j][d] = 1 => row[j].dest[d] # "failed"
            BY <1>1, <4>1 DEF SentFits
          <5>2. row[j].dest[d] \in DestStatuses
            BY DEF TypeOK, Rows
          <5> QED
            BY <1>d, <4>1, <5>1, <5>2 DEF Waiting, DestStatuses
        <4> QED
          BY <1>2, <1>m, <1>s, <3>1, <4>1, <4>2 DEF SentFits
      <3> QED
        BY <1>m, <1>s, <2>2, <3>1, <3>2 DEF FreshFits
    <2>3. CASE k # j
      <3>1. row'[k] = row[k] /\ approved'[k] = approved[k]
        BY <1>3, <1>m, <2>3
      <3>2. \A w \in Workers : HoldFits(w, k)' <=> HoldFits(w, k)
        BY <1>2, <3>1 DEF HoldFits, Cancelled
      <3>3. \A w \in Workers, d \in Dests : Accounted(w, d)' <=> Accounted(w, d)
        BY <1>2 DEF Accounted, Cancelled
      <3> QED
        BY <1>2, <2>1, <2>h, <3>1, <3>2, <3>3 DEF FreshFits, SentFits
    <2> QED
      BY <1>2, <2>2, <2>3 DEF FreshFits
  <1> QED
    BY <1>4, <1>5, <1>6 DEF ForwardInv

\* A new row asks for its destinations once: nothing was sent for it before.
LEMMA EnqueueKeeps ==
    ASSUME TypeOK, ForwardInv, NEW j \in Jobs, Enqueue(j)
    PROVE  ForwardInv'
  <1>1. PICK s \in {"absent", "pending", "failed"} : Writes(j, s, [d \in Dests |-> "pending"])
    BY RowEffects DEF TypeOK
  <1>2. /\ UNCHANGED <<worker, app, sent, approved, confirmed, retried>> /\ asked' = asked \cup {j}
        /\ j \notin asked
    BY DEF Enqueue
  <1>m. /\ row'[j].status = s /\ \A d \in Dests : row'[j].dest[d] = "pending"
        /\ \A k \in Jobs \ {j} : row'[k] = row[k]
    BY <1>1 DEF Writes
  <1>3. ASSUME NEW w \in Workers PROVE CopyFits(w)'
    BY <1>2 DEF ForwardInv, CopyFits, Known
  <1>4. ASSUME NEW k \in Jobs PROVE RowFits(k)'
    <2>1. RowFits(k)
      BY DEF ForwardInv
    <2> QED
      BY <1>2, <1>m, <2>1 DEF RowFits, Known, Holds
  <1>5. ASSUME NEW k \in Jobs PROVE FreshFits(k)'
    <2>1. FreshFits(k) /\ RowFits(k)
      BY DEF ForwardInv
    <2>h. \A w \in Workers : Holds(w, k)' <=> Holds(w, k)
      BY <1>2 DEF Holds
    <2>2. CASE k = j
      <3>1. \A w \in Workers : ~Holds(w, j)
        BY <1>2 DEF ForwardInv, CopyFits, Holds
      <3>2. \A d \in Dests : sent[j][d] = 0
        BY <1>2, <2>1, <2>2 DEF RowFits
      <3> QED
        BY <1>2, <1>m, <2>h, <2>2, <3>1, <3>2 DEF FreshFits, SentFits
    <2>3. CASE k # j
      <3>1. row'[k] = row[k]
        BY <1>m, <2>3
      <3>2. \A w \in Workers : HoldFits(w, k)' <=> HoldFits(w, k)
        BY <1>2, <3>1 DEF HoldFits, Cancelled
      <3>3. \A w \in Workers, d \in Dests : Accounted(w, d)' <=> Accounted(w, d)
        BY <1>2 DEF Accounted, Cancelled
      <3> QED
        BY <1>2, <2>1, <2>h, <3>1, <3>2, <3>3 DEF FreshFits, SentFits
    <2> QED
      BY <2>2, <2>3
  <1> QED
    BY <1>3, <1>4, <1>5 DEF ForwardInv

\* A cancelled context excuses the workers from more, never from less.
LEMMA StopKeeps ==
    ASSUME TypeOK, ForwardInv, Stop
    PROVE  ForwardInv'
  <1>1. /\ UNCHANGED <<row, worker, asked, sent, approved, confirmed, retried>>
        /\ app' = "stopping" /\ app = "up"
    BY DEF Stop
  <1>2. ASSUME NEW w \in Workers PROVE CopyFits(w)'
    BY <1>1 DEF ForwardInv, CopyFits, Known
  <1>3. ASSUME NEW k \in Jobs PROVE RowFits(k)' /\ FreshFits(k)'
    <2>1. RowFits(k) /\ FreshFits(k)
      BY DEF ForwardInv
    <2>2. RowFits(k)'
      BY <1>1, <2>1 DEF RowFits, Known, Holds
    <2>3. \A w \in Workers : /\ Holds(w, k)' <=> Holds(w, k)
                             /\ HoldFits(w, k) => HoldFits(w, k)'
      BY <1>1 DEF Holds, HoldFits, Cancelled
    <2>4. \A w \in Workers, d \in Dests : Accounted(w, d) => Accounted(w, d)'
      BY <1>1 DEF Accounted, Cancelled
    <2>5. FreshFits(k)'
      BY <1>1, <2>1, <2>3, <2>4 DEF FreshFits, SentFits
    <2> QED
      BY <2>2, <2>5
  <1> QED
    BY <1>2, <1>3 DEF ForwardInv

\* The timers, the engine, stops, crashes and starts of the process keep the invariant.
LEMMA EnvironmentKeeps ==
    ASSUME TypeOK, ForwardInv, EnvironmentStep
    PROVE  ForwardInv'
  <1>1. ASSUME NEW j \in Jobs, BackoffEnds(j) PROVE ForwardInv'
    <2>1. Writes(j, row[j].status, row[j].dest)
      BY <1>1, RowEffects DEF TypeOK
    <2>2. \A k \in Jobs : row'[k].status = row[k].status /\ row'[k].dest = row[k].dest
      BY <2>1 DEF Writes
    <2>3. UNCHANGED <<worker, app, asked, sent, approved, confirmed, retried>>
      BY <1>1 DEF BackoffEnds, history
    <2> QED
      BY <2>2, <2>3, FrameKeeps
  <1>2. CASE FloodEnds \/ StopMonitor \/ StartMonitor
    <2>1. UNCHANGED <<row, worker, app, asked, sent, approved, confirmed, retried>>
      BY <1>2 DEF FloodEnds, StopMonitor, StartMonitor, history
    <2> QED
      BY <2>1, FrameKeeps
  <1>3. CASE Exit \/ Crash
    <2>1. /\ UNCHANGED <<row, asked, sent, approved, confirmed, retried>> /\ app' = "down"
      BY <1>3 DEF Exit, Crash, history
    <2>2. CASE Crash
      BY <2>1, <2>2, VacantKeeps DEF Crash
    <2>3. CASE Exit
      <3>1. \A w \in Workers : worker'[w].pc = "idle" /\ worker' = worker
        BY <2>3 DEF Exit
      <3>2. ASSUME NEW w \in Workers PROVE CopyFits(w)'
        BY <2>1, <3>1 DEF ForwardInv, CopyFits, Known
      <3>3. ASSUME NEW k \in Jobs PROVE RowFits(k)' /\ FreshFits(k)'
        <4>1. RowFits(k) /\ FreshFits(k)
          BY DEF ForwardInv
        <4>2. RowFits(k)'
          BY <2>1, <4>1 DEF RowFits, Known
        <4>3. \A w \in Workers : ~Holds(w, k)'
          BY <3>1 DEF Holds
        <4> QED
          BY <2>1, <4>1, <4>2, <4>3 DEF FreshFits, SentFits
      <3> QED
        BY <3>2, <3>3 DEF ForwardInv
    <2> QED
      BY <1>3, <2>2, <2>3
  <1>4. CASE Start
    <2>1. /\ app = "down" /\ UNCHANGED <<worker, asked, sent, approved, confirmed, retried>>
          /\ \A k \in Jobs : /\ row'[k].dest = row[k].dest
                             /\ row'[k].status = IF row[k].status = "processing"
                                                 THEN "uncertain" ELSE row[k].status
      BY <1>4, RowEffects DEF Start, history, TypeOK
    <2>2. \A w \in Workers : worker[w].pc = "idle"
      BY <2>1 DEF ForwardInv, CopyFits
    <2>3. ASSUME NEW w \in Workers PROVE CopyFits(w)'
      BY <2>1, <2>2 DEF ForwardInv, CopyFits
    <2>4. ASSUME NEW k \in Jobs PROVE RowFits(k)' /\ FreshFits(k)'
      <3>1. RowFits(k) /\ FreshFits(k)
        BY DEF ForwardInv
      <3>2. RowFits(k)'
        BY <2>1, <3>1 DEF RowFits, Known
      <3>3. \A w \in Workers : ~Holds(w, k)'
        BY <2>1, <2>2 DEF Holds
      <3> QED
        BY <2>1, <3>1, <3>2, <3>3 DEF FreshFits, SentFits
    <2> QED
      BY <2>3, <2>4 DEF ForwardInv
  <1> QED
    BY <1>1, <1>2, <1>3, <1>4, EnqueueKeeps, StopKeeps DEF EnvironmentStep

\* What is known of workers and rows is known after every step.
LEMMA ForwardInvKept == TypeOK /\ ForwardInv /\ [Next]_vars => ForwardInv'
  <1> SUFFICES ASSUME TypeOK, ForwardInv, [Next]_vars PROVE ForwardInv'
    OBVIOUS
  <1>1. CASE OperatorStep
    <2>1. CASE RetryOne \/ RetryAll
      <3>1. PICK js \in SUBSET Jobs : Retry(js)
        BY <2>1 DEF RetryOne, RetryAll
      <3> QED
        BY <3>1, RetryKeeps
    <2>2. CASE SetPaused
      <3>1. UNCHANGED <<row, worker, app, asked, sent, approved, confirmed, retried>>
        BY <2>2 DEF SetPaused, history
      <3> QED
        BY <3>1, FrameKeeps
    <2> QED
      BY <1>1, <2>1, <2>2, ReconcileKeeps DEF OperatorStep
  <1>2. CASE UNCHANGED vars
    BY <1>2, FrameKeeps DEF vars
  <1> QED
    BY <1>1, <1>2, WorkerKeeps, EnvironmentKeeps DEF Next

\* The inductive invariant holds in every reachable state.
THEOREM ForwardInvariant == Spec => []ForwardInv
  BY InitForwardInv, ForwardInvKept, TypeCorrect, PTL DEF Spec

\* Whatever the workers, the restarts and the operator do: nothing is sent twice without the
\* operator's word, what is recorded as forwarded was accepted or confirmed, and a row is
\* processing only in the hands of a worker.
THEOREM AttemptsOwned == Spec => []AttemptsAreOwned
  BY ForwardInvOwned, ForwardInvariant, TypeCorrect, PTL
-----------------------------------------------------------------------------
(* The forward queue implements Delivery, step by step, when one worker    *)
(* runs and no graceful shutdown cuts its requests: the conditions under   *)
(* which the code keeps the promise.                                       *)

\* The worker's copy and the row under it agree but for the destination an attempt ends on.
HandFits(u, j) ==
    /\ \/ row[j].status = "processing"
       \/ worker[u].pc = "finish" /\ row[j].status \in {"failed", "pending"}
    /\ worker[u].pc # "finish" =>
         row[j].dest = worker[u].dest /\ \A d \in Dests : row[j].dest[d] # "uncertain"
    /\ worker[u].pc = "finish" => \A d \in Dests :
         \/ worker[u].dest[d] = row[j].dest[d]
         \/ row[j].dest[d] = "processing" /\ worker[u].dest[d] \in {"pending", "failed"}

\* A row names a doubt only while it is uncertain or its worker is about to say so.
OneInv(u) ==
    /\ app # "stopping"
    /\ \A j \in Jobs \ asked, d \in Dests : row[j].dest[d] = "pending"
    /\ \A j \in Jobs : row[j].status \notin {"uncertain", "processing"} =>
         \A d \in Dests : row[j].dest[d] # "uncertain"
    /\ \A j \in Jobs : Holds(u, j) => HandFits(u, j)

\* The phase of a letter by the status of its row, its own, whether a worker has the job and
\* the position of the one that is at this destination.
PhaseFor(s, x, held, pc) ==
    IF x = "forwarded" THEN "done"
    ELSE IF pc = "sending" THEN "sending"
    ELSE IF pc = "delivered" THEN "accepted"
    ELSE IF x = "uncertain" \/ (x \in Waiting /\ (s = "uncertain" \/ (s = "processing" /\ ~held)))
         THEN "unknown" ELSE "due"

At(u, j, d) == IF Holds(u, j) /\ worker[u].at = d THEN worker[u].pc ELSE "idle"

\* The phase of every letter is the one these four say, before a step and after it.
LEMMA PhaseIs ==
    ASSUME NEW u, Workers = {u}, TypeOK, CopyFits(u), OneInv(u), NEW j \in Jobs, NEW d \in Dests
    PROVE  PhaseOf(j, d) = PhaseFor(row[j].status, row[j].dest[d], Holds(u, j), At(u, j, d))
  <1>1. /\ InHand(j) <=> Holds(u, j)
        /\ AtDest(j, d, "sending") <=> At(u, j, d) = "sending"
        /\ AtDest(j, d, "delivered") <=> At(u, j, d) = "delivered"
    BY DEF InHand, Holds, AtDest, At
  <1>2. At(u, j, d) \in {"sending", "delivered"} => row[j].dest[d] = "processing" /\ row[j].status = "processing" /\ Holds(u, j)
    BY DEF OneInv, CopyFits, HandFits, At
  <1> QED
    BY <1>1, <1>2 DEF PhaseOf, PhaseFor, Waiting

LEMMA PhaseIsNext ==
    ASSUME NEW u, Workers = {u}, TypeOK', CopyFits(u)', OneInv(u)', NEW j \in Jobs, NEW d \in Dests
    PROVE  PhaseOf(j, d)' = PhaseFor(row'[j].status, row'[j].dest[d], Holds(u, j)', At(u, j, d)')
  <1>1. /\ InHand(j)' <=> Holds(u, j)'
        /\ AtDest(j, d, "sending")' <=> At(u, j, d)' = "sending"
        /\ AtDest(j, d, "delivered")' <=> At(u, j, d)' = "delivered"
    BY DEF InHand, Holds, AtDest, At
  <1>2. At(u, j, d)' \in {"sending", "delivered"} => row'[j].dest[d] = "processing" /\ row'[j].status = "processing" /\ Holds(u, j)'
    BY DEF OneInv, CopyFits, HandFits, At, Holds
  <1> QED
    BY <1>1, <1>2 DEF PhaseOf, PhaseFor, Waiting

\* The moves Delivery allows a letter, by its phases and what was accepted and approved.
LetterMoves(j, d, p, q) ==
    \/ /\ sent'[j][d] = sent[j][d] /\ approved'[j][d] = approved[j][d]
       /\ \/ q = p
          \/ p = "due" /\ q \in {"sending", "unknown"}
          \/ p = "sending" /\ q \in {"due", "unknown"}
          \/ p = "accepted" /\ q \in {"done", "unknown"}
          \/ p = "unknown" /\ q = "done"
    \/ /\ sent'[j][d] = sent[j][d] + 1 /\ approved'[j][d] = approved[j][d]
       /\ p = "sending" /\ q = "accepted"
    \/ /\ sent'[j][d] = sent[j][d] /\ approved'[j][d] = approved[j][d] + 1
       /\ p \in {"unknown", "due"} /\ q \in {"unknown", "due"}

LEMMA LetterMoved ==
    ASSUME NEW j \in Jobs, NEW d \in Dests, LetterMoves(j, d, PhaseOf(j, d), PhaseOf(j, d)')
    PROVE  Ledger!Move(<<j, d>>)
  BY DEF LetterMoves, Letters, Ledger!Move, Ledger!Keep, Ledger!Send, Ledger!Accept, Ledger!Return,
         Ledger!Record, Ledger!Doubt, Ledger!Confirm, Ledger!Resend, Ledger!Moves, Ledger!Same
-----------------------------------------------------------------------------
(* Steps of the worker.                                                    *)

\* One worker, in a reachable state.
One(u) == Workers = {u} /\ TypeOK /\ ForwardInv /\ OneInv(u)

PhaseNow(u, j, d) == PhaseFor(row[j].status, row[j].dest[d], Holds(u, j), At(u, j, d))

LetterFits(u, j, d) == LetterMoves(j, d, PhaseNow(u, j, d), PhaseNow(u, j, d)')

Fits(u) == OneInv(u)' /\ \A j \in Jobs, d \in Dests : LetterFits(u, j, d)

\* What is not about the job at hand stays as it was.
LEMMA LocalFits ==
    ASSUME NEW u, One(u), NEW j \in Jobs, Local(u, j), j \in asked,
           row'[j].status \notin {"uncertain", "processing"} => \A d \in Dests : row'[j].dest[d] # "uncertain",
           Holds(u, j)' => HandFits(u, j)',
           \A d \in Dests : LetterFits(u, j, d)
    PROVE  Fits(u)
  <1>1. /\ \A k \in Jobs \ {j} : /\ row'[k] = row[k] /\ ~Holds(u, k) /\ ~Holds(u, k)'
                                 /\ \A d \in Dests : sent'[k][d] = sent[k][d]
        /\ UNCHANGED <<app, asked, approved>>
    BY DEF Local, Holds
  <1>2. OneInv(u)'
    BY <1>1 DEF One, OneInv
  <1>3. ASSUME NEW k \in Jobs \ {j}, NEW d \in Dests PROVE LetterFits(u, k, d)
    <2>1. PhaseNow(u, k, d)' = PhaseNow(u, k, d)
      BY <1>1, <1>3 DEF PhaseNow, At, PhaseFor
    <2> QED
      BY <1>1, <1>3, <2>1 DEF LetterFits, LetterMoves
  <1> QED
    BY <1>2, <1>3 DEF Fits

\* The facts a step of the worker starts from.
LEMMA HandFacts ==
    ASSUME NEW u, One(u), NEW j \in Jobs, Holds(u, j)
    PROVE  /\ u \in Workers /\ Typed /\ row \in [Jobs -> Rows] /\ CopyFits(u) /\ HandFits(u, j)
           /\ app = "up" /\ j \in asked /\ ~Cancelled
           /\ worker[u].dest \in [Dests -> DestStatuses] /\ row[j].dest \in [Dests -> DestStatuses]
           /\ approved' = approved => \A d \in Dests : approved'[j][d] = approved[j][d]
  BY DEF One, TypeOK, Typed, ForwardInv, OneInv, CopyFits, Holds, Cancelled, Copies, Rows

\* What becomes of a letter while the worker goes from one position to the next.
WayOf(j, d, x, at, pc, y, at2, pc2) ==
    LetterMoves(j, d, PhaseFor("processing", x, TRUE, IF at = d THEN pc ELSE "idle"),
                      PhaseFor("processing", y, TRUE, IF at2 = d THEN pc2 ELSE "idle"))

\* A step on the way: r are the destinations it leaves in the row.
LEMMA WayFits ==
    ASSUME NEW u, One(u), u \in Workers, NEW j \in Jobs, Local(u, j), Holds(u, j), Holds(u, j)',
           worker[u].pc # "finish", NEW pc, NEW at, NEW dest, NEW s, Moves(u, pc, at, dest, s),
           row'[j].status = row[j].status, NEW r, row'[j].dest = r,
           pc # "finish" => r = dest /\ \A d \in Dests : dest[d] # "uncertain",
           pc = "finish" => \A d \in Dests :
             dest[d] = r[d] \/ (r[d] = "processing" /\ dest[d] \in {"pending", "failed"}),
           \A d \in Dests : WayOf(j, d, row[j].dest[d], worker[u].at, worker[u].pc, r[d], at, pc)
    PROVE  Fits(u)
  <1>1. row[j].status = "processing" /\ j \in asked
    BY HandFacts DEF HandFits
  <1>2. HandFits(u, j)'
    BY <1>1 DEF HandFits, Moves
  <1>3. ASSUME NEW d \in Dests PROVE LetterFits(u, j, d)
    <2>1. PhaseNow(u, j, d) = PhaseFor("processing", row[j].dest[d], TRUE,
                                       IF worker[u].at = d THEN worker[u].pc ELSE "idle")
      BY <1>1 DEF PhaseNow, PhaseFor, At
    <2>2. PhaseNow(u, j, d)' = PhaseFor("processing", r[d], TRUE, IF at = d THEN pc ELSE "idle")
      BY <1>1 DEF PhaseNow, PhaseFor, At, Moves
    <2> QED
      BY <2>1, <2>2 DEF LetterFits, WayOf
  <1> QED
    BY <1>1, <1>2, <1>3, LocalFits

\* A step that only moves the worker on sends the letter at hand or gives up on it unsent.
LEMMA PassFits ==
    ASSUME NEW u, One(u), u \in Workers, WorkerStep(u), Passes(u)
    PROVE  Fits(u)
  <1>1. PICK pc, s : Guard(u, pc, s) /\ PassTo(u, pc, s)
    BY DEF Passes
  <1>2. PICK j \in Jobs : worker[u].job = j
    BY <1>1 DEF One, TypeOK, CopyOK, Guard
  <1>3. Holds(u, j)
    BY <1>1, <1>2 DEF Holds, Guard
  <1>4. Local(u, j) /\ Holds(u, j)'
    BY <1>1, <1>2, <1>3, WayLocal DEF PassTo, One, Guard, Holds
  <1>5. /\ row[j].dest = worker[u].dest /\ \A d \in Dests : row[j].dest[d] # "uncertain"
        /\ row' = row /\ sent' = sent /\ approved' = approved
    <2>1. HandFits(u, j) /\ worker[u].pc # "finish"
      BY <1>1, <1>3, HandFacts DEF Guard
    <2>2. row' = row /\ sent' = sent /\ approved' = approved
      BY <1>1, WorkerFrame DEF PassTo
    <2> QED
      BY <2>1, <2>2 DEF HandFits
  <1>6. ASSUME NEW d \in Dests
        PROVE  WayOf(j, d, row[j].dest[d], worker[u].at, worker[u].pc, row[j].dest[d], worker[u].at, pc)
    BY <1>1, <1>5 DEF WayOf, LetterMoves, PhaseFor, Guard
  <1> QED
    BY <1>1, <1>3, <1>4, <1>5, <1>6, WayFits DEF PassTo, Guard

\* The steps that settle the destination at hand: it is forwarded, in doubt, or due again.
LEMMA SettleFits ==
    ASSUME NEW u, One(u), u \in Workers, WorkerStep(u), NEW j \in Jobs, Holds(u, j),
           NEW x \in DestStatuses, NEW pc, worker[u].at \in Dests,
           Moves(u, pc, worker[u].at, [worker[u].dest EXCEPT ![worker[u].at] = x], worker[u].status),
           \/ x \in {"pending", "failed"} /\ pc = "finish" /\ row' = row /\ worker[u].pc \in {"gate", "sending"}
           \/ /\ \/ x = "forwarded" /\ pc = "route" /\ worker[u].pc = "delivered"
                 \/ x = "uncertain" /\ pc = "finish" /\ worker[u].pc \in {"sending", "delivered"}
              /\ Writes(j, row[j].status, [worker[u].dest EXCEPT ![worker[u].at] = x]),
           sent' = sent
    PROVE  Fits(u)
  <1> DEFINE at == worker[u].at
             dest == [worker[u].dest EXCEPT ![at] = x]
  <1>1. /\ row[j].dest = worker[u].dest /\ \A d \in Dests : row[j].dest[d] # "uncertain"
        /\ row[j].dest[at] = "processing" /\ worker[u].dest \in [Dests -> DestStatuses]
    BY HandFacts DEF HandFits, CopyFits
  <1>2. /\ dest[at] = x /\ \A d \in Dests : d # at => dest[d] = row[j].dest[d]
    BY <1>1
  <1>3. pc # "idle" /\ worker[u].pc # "idle" /\ worker[u].job = j
    BY DEF Holds
  <1> HIDE DEF dest, at
  <1>4. /\ \A k \in Jobs \ {j} : row'[k] = row[k]
        /\ row'[j].status = row[j].status /\ approved' = approved
    BY WorkerFrame DEF Writes
  <1>5. Local(u, j) /\ Holds(u, j)'
    <2>1. TypeOK
      BY DEF One
    <2> QED
      BY <1>3, <1>4, <2>1, WayLocal DEF dest, at
  <1>6. /\ row'[j].dest = row[j].dest \/ row'[j].dest = dest
        /\ x \in {"pending", "failed"} => row'[j].dest = row[j].dest
        /\ x \in {"forwarded", "uncertain"} => row'[j].dest = dest
    BY DEF Writes, dest, at
  <1>7. ASSUME NEW d \in Dests
        PROVE  WayOf(j, d, row[j].dest[d], worker[u].at, worker[u].pc, row'[j].dest[d], worker[u].at, pc)
    BY <1>1, <1>2, <1>4, <1>6 DEF WayOf, LetterMoves, PhaseFor, Waiting, at
  <1>8. /\ pc # "finish" => row'[j].dest = dest /\ \A d \in Dests : dest[d] # "uncertain"
        /\ pc = "finish" => \A d \in Dests :
             dest[d] = row'[j].dest[d] \/ (row'[j].dest[d] = "processing" /\ dest[d] \in {"pending", "failed"})
    BY <1>1, <1>2, <1>6
  <1>9. Moves(u, pc, worker[u].at, dest, worker[u].status) /\ worker[u].pc # "finish"
    BY DEF dest, at
  <1> QED
    BY <1>4, <1>5, <1>7, <1>8, <1>9, WayFits

\* The next destination is due before and after.
LEMMA NextFits ==
    ASSUME NEW u, One(u), u \in Workers, WorkerStep(u), NEW e \in Dests, NextDestination(u, e)
    PROVE  Fits(u)
  <1>0. Typed /\ row \in [Jobs -> Rows] /\ TypeOK
    BY DEF One, TypeOK, Typed
  <1>1. /\ worker[u].pc = "route" /\ worker[u].dest[e] \notin {"forwarded", "uncertain"}
        /\ sent' = sent /\ approved' = approved
    BY DEF NextDestination, Undelivered, history
  <1>2. PICK j \in Jobs : worker[u].job = j
    BY <1>0, <1>1 DEF TypeOK, CopyOK
  <1>3. Holds(u, j)
    BY <1>1, <1>2 DEF Holds
  <1> DEFINE dest == [worker[u].dest EXCEPT ![e] = "processing"]
  <1>4. Moves(u, "gate", e, dest, worker[u].status) /\ Stored(u, dest)
    BY <1>0, DestinationEffects
  <1>5. /\ row[j].dest = worker[u].dest /\ \A d \in Dests : row[j].dest[d] # "uncertain"
        /\ worker[u].dest \in [Dests -> DestStatuses] /\ ~Cancelled
    BY <1>1, <1>3, HandFacts DEF HandFits
  <1>6. /\ dest[e] = "processing" /\ \A d \in Dests : d # e => dest[d] = row[j].dest[d]
    BY <1>5
  <1> HIDE DEF dest
  <1>7. Writes(j, row[j].status, dest)
    BY <1>2, <1>4, <1>5 DEF Stored
  <1>8. Local(u, j) /\ Holds(u, j)'
    BY <1>0, <1>1, <1>2, <1>4, <1>7, WayLocal DEF Writes
  <1>9. ASSUME NEW d \in Dests
        PROVE  WayOf(j, d, row[j].dest[d], worker[u].at, worker[u].pc, dest[d], e, "gate")
    BY <1>1, <1>5, <1>6 DEF WayOf, LetterMoves, PhaseFor
  <1>10. \A d \in Dests : dest[d] # "uncertain"
    BY <1>5, <1>6
  <1> QED
    BY <1>1, <1>3, <1>4, <1>7, <1>8, <1>9, <1>10, WayFits DEF Writes

\* Telegram accepts the letter that is on its way, and no other.
LEMMA DeliverFits ==
    ASSUME NEW u, One(u), u \in Workers, WorkerStep(u), Deliver(u)
    PROVE  Fits(u)
  <1>0. Typed /\ sent \in [Jobs -> [Dests -> Nat]] /\ TypeOK
    BY DEF One, TypeOK, Typed
  <1>1. worker[u].pc = "sending"
    BY DEF Deliver
  <1>2. PICK j \in Jobs, e \in Dests : worker[u].job = j /\ worker[u].at = e
    BY <1>0, <1>1 DEF TypeOK, CopyOK
  <1>3. Holds(u, j)
    BY <1>1, <1>2 DEF Holds
  <1>4. /\ Moves(u, "delivered", worker[u].at, worker[u].dest, worker[u].status)
        /\ Accepts(j, e) /\ row' = row
    BY <1>0, <1>2, DeliverEffect
  <1>5. /\ row[j].dest = worker[u].dest /\ \A d \in Dests : row[j].dest[d] # "uncertain"
        /\ row[j].dest[e] = "processing"
    BY <1>1, <1>2, <1>3, HandFacts DEF HandFits, CopyFits
  <1>6. approved' = approved /\ UNCHANGED <<app, asked, confirmed, retried>>
    BY WorkerFrame
  <1>7. Holds(u, j)' /\ Local(u, j)
    BY <1>0, <1>1, <1>2, <1>4, <1>6 DEF Local, Holds, Moves, Accepts
  <1>8. ASSUME NEW d \in Dests
        PROVE  WayOf(j, d, row[j].dest[d], worker[u].at, worker[u].pc, row[j].dest[d], worker[u].at, "delivered")
    BY <1>1, <1>2, <1>4, <1>5, <1>6 DEF WayOf, LetterMoves, PhaseFor, Accepts
  <1> QED
    BY <1>1, <1>3, <1>4, <1>5, <1>7, <1>8, WayFits

\* A failed attempt is recorded: what was due is still due.
LEMMA FailedFits ==
    ASSUME NEW u, One(u), u \in Workers, WorkerStep(u), ForwardFailed(u)
    PROVE  Fits(u)
  <1>0. Typed /\ row \in [Jobs -> Rows] /\ TypeOK
    BY DEF One, TypeOK, Typed
  <1>1. worker[u].pc = "fail" /\ sent' = sent /\ approved' = approved
    BY DEF ForwardFailed, history
  <1>2. PICK j \in Jobs : worker[u].job = j
    BY <1>0, <1>1 DEF TypeOK, CopyOK
  <1>3. Holds(u, j)
    BY <1>1, <1>2 DEF Holds
  <1> DEFINE dest == [d \in Dests |-> IF d = worker[u].at THEN "failed" ELSE worker[u].dest[d]]
  <1>4. /\ Moves(u, "finish", worker[u].at, dest, worker[u].status)
        /\ Writes(j, "failed", worker[u].dest)
    BY <1>0, <1>2, ForwardFailedEffect
  <1>5. /\ row[j].dest = worker[u].dest /\ \A d \in Dests : row[j].dest[d] # "uncertain"
        /\ \A d \in Dests : worker[u].at = d => row[j].dest[d] = "processing"
        /\ row[j].status = "processing" /\ j \in asked
    BY <1>1, <1>3, HandFacts DEF HandFits, CopyFits
  <1>6. \A d \in Dests : dest[d] = IF d = worker[u].at THEN "failed" ELSE worker[u].dest[d]
    OBVIOUS
  <1> HIDE DEF dest
  <1>7. Local(u, j) /\ Holds(u, j)'
    BY <1>0, <1>1, <1>2, <1>4, WayLocal DEF Writes
  <1>8. HandFits(u, j)'
    BY <1>4, <1>5, <1>6 DEF HandFits, Moves, Writes
  <1>9. ASSUME NEW d \in Dests PROVE LetterFits(u, j, d)
    <2>1. /\ PhaseNow(u, j, d) = PhaseFor("processing", row[j].dest[d], TRUE, At(u, j, d))
          /\ At(u, j, d) \in {"fail", "idle"}
      BY <1>1, <1>3, <1>5 DEF PhaseNow, PhaseFor, At
    <2>2. /\ PhaseNow(u, j, d)' = PhaseFor("failed", row[j].dest[d], TRUE, At(u, j, d)')
          /\ At(u, j, d)' \in {"finish", "idle"}
      BY <1>4, <1>5, <1>7 DEF PhaseNow, PhaseFor, At, Moves, Writes
    <2>3. PhaseNow(u, j, d)' = PhaseNow(u, j, d)
      BY <1>5, <2>1, <2>2 DEF PhaseFor
    <2> QED
      BY <1>1, <2>3 DEF LetterFits, LetterMoves
  <1> QED
    BY <1>4, <1>5, <1>7, <1>8, <1>9, LocalFits DEF Writes

\* A claim finds the destinations due or done, and leaves them so.
LEMMA ClaimFits ==
    ASSUME NEW u, One(u), u \in Workers, WorkerStep(u), NEW j \in Jobs, ClaimForward(u, j)
    PROVE  Fits(u)
  <1>0. Typed /\ row \in [Jobs -> Rows] /\ sent \in [Jobs -> [Dests -> Nat]]
    BY DEF One, TypeOK, Typed
  <1>1. worker[u].pc = "idle" /\ sent' = sent
    BY DEF ClaimForward, history
  <1>2. Takes(u, j) /\ Writes(j, "processing", row[j].dest) /\ row[j].status = "pending"
    BY <1>0, ClaimEffect
  <1>3. UNCHANGED <<app, asked, approved, confirmed, retried>>
    BY WorkerFrame
  <1>4. j \in asked /\ \A d \in Dests : row[j].dest[d] # "uncertain"
    BY <1>2 DEF One, OneInv, ForwardInv, RowFits
  <1>5. Local(u, j) /\ ~Holds(u, j) /\ Holds(u, j)'
    BY <1>0, <1>1, <1>2, <1>3 DEF Local, Holds, Takes, Writes
  <1>6. HandFits(u, j)'
    BY <1>2, <1>4 DEF HandFits, Takes, Writes
  <1>7. ASSUME NEW d \in Dests PROVE LetterFits(u, j, d)
    <2>1. PhaseNow(u, j, d) = PhaseFor("pending", row[j].dest[d], FALSE, "idle")
      BY <1>2, <1>5 DEF PhaseNow, PhaseFor, At
    <2>2. /\ PhaseNow(u, j, d)' = PhaseFor("processing", row[j].dest[d], TRUE, At(u, j, d)')
          /\ At(u, j, d)' \in {"pace", "idle"}
      BY <1>2, <1>5 DEF PhaseNow, PhaseFor, At, Takes, Writes
    <2>3. PhaseNow(u, j, d)' = PhaseNow(u, j, d)
      BY <1>4, <2>1, <2>2 DEF PhaseFor
    <2> QED
      BY <1>1, <1>3, <2>3 DEF LetterFits, LetterMoves
  <1> QED
    BY <1>2, <1>4, <1>5, <1>6, <1>7, LocalFits DEF Writes

\* The end of an attempt: what it did not send is due, or in doubt with the rest of its job.
LEMMA LeaveFits ==
    ASSUME NEW u, One(u), u \in Workers, WorkerStep(u), NEW j \in Jobs, Holds(u, j),
           worker[u].pc \in {"pace", "finish"}, sent' = sent,
           Leaves(u), NEW s, s # "processing", Writes(j, s, worker[u].dest),
           (\E d \in Dests : worker[u].dest[d] = "uncertain") => s = "uncertain"
    PROVE  Fits(u)
  <1>1. UNCHANGED <<app, asked, approved, confirmed, retried>>
    BY WorkerFrame
  <1>2. sent \in [Jobs -> [Dests -> Nat]]
    BY DEF One, TypeOK
  <1>3. ~Holds(u, j)' /\ worker'[u].pc = "idle"
    BY HandFacts DEF Holds, Leaves, Idle
  <1>4. Local(u, j)
    BY <1>1, <1>2, <1>3 DEF Local, Holds, Leaves, Writes
  <1>5. ASSUME NEW d \in Dests PROVE LetterFits(u, j, d)
    <2>1. /\ PhaseNow(u, j, d) = PhaseFor(row[j].status, row[j].dest[d], TRUE, At(u, j, d))
          /\ At(u, j, d) \in {"pace", "finish", "idle"}
      BY DEF PhaseNow, PhaseFor, At
    <2>2. PhaseNow(u, j, d)' = PhaseFor(s, worker[u].dest[d], FALSE, "idle")
      BY <1>3 DEF PhaseNow, PhaseFor, At, Writes
    <2>3. /\ row[j].status \in {"processing", "failed", "pending"}
          /\ \/ row[j].dest[d] = worker[u].dest[d]
             \/ row[j].dest[d] = "processing" /\ worker[u].dest[d] \in {"pending", "failed"}
          /\ worker[u].pc = "pace" => row[j].dest[d] # "uncertain"
      BY HandFacts DEF HandFits
    <2>4. \/ PhaseNow(u, j, d)' = PhaseNow(u, j, d)
          \/ PhaseNow(u, j, d) = "due" /\ PhaseNow(u, j, d)' = "unknown"
      BY <2>1, <2>2, <2>3 DEF PhaseFor, Waiting
    <2> QED
      BY <1>1, <2>4 DEF LetterFits, LetterMoves
  <1> QED
    BY <1>3, <1>4, <1>5, HandFacts, LocalFits DEF Writes

\* Every step of the worker moves the letters as Delivery allows.
LEMMA WorkerFits ==
    ASSUME NEW u, One(u), u \in Workers, WorkerStep(u)
    PROVE  Fits(u)
  <1>0. Typed /\ row \in [Jobs -> Rows] /\ TypeOK
    BY DEF One, TypeOK, Typed
  <1>1. CASE ReleaseClaim(u)
    <2>1. worker[u].pc = "pace" /\ sent' = sent
      BY <1>1 DEF ReleaseClaim, history
    <2>2. PICK j \in Jobs : worker[u].job = j
      BY <1>0, <2>1 DEF TypeOK, CopyOK
    <2>3. Holds(u, j)
      BY <2>1, <2>2 DEF Holds
    <2>4. /\ row[j].status = "processing" /\ row[j].dest = worker[u].dest
          /\ \A d \in Dests : row[j].dest[d] # "uncertain"
      BY <2>1, <2>3, HandFacts DEF HandFits
    <2>5. Leaves(u) /\ Writes(j, "pending", worker[u].dest)
      BY <1>0, <1>1, <2>2, <2>4, ReleaseEffect
    <2> QED
      BY <2>1, <2>3, <2>4, <2>5, LeaveFits
  <1>2. CASE Finish(u)
    <2>1. worker[u].pc = "finish" /\ sent' = sent
      BY <1>2 DEF Finish, history
    <2>2. PICK j \in Jobs : worker[u].job = j
      BY <1>0, <2>1 DEF TypeOK, CopyOK
    <2>3. Holds(u, j)
      BY <2>1, <2>2 DEF Holds
    <2>4. Leaves(u) /\ Writes(j, FinishedStatus(worker[u]), worker[u].dest)
      BY <1>0, <1>2, <2>2, FinishEffect
    <2>5. /\ (\E d \in Dests : worker[u].dest[d] = "uncertain") => FinishedStatus(worker[u]) = "uncertain"
          /\ FinishedStatus(worker[u]) # "processing"
      BY <2>3, HandFacts DEF FinishedStatus, RetriesItself, SettledStatus, BaseStatus, CopyFits
    <2> QED
      BY <2>1, <2>3, <2>4, <2>5, LeaveFits
  <1>3. CASE DestinationBlocked(u) \/ CancelBeforeRequest(u) \/ Succeed(u) \/ LoseAnswer(u) \/ MonitorGone(u)
    <2>1. worker[u].pc \in {"gate", "sending", "delivered"} /\ sent' = sent
      BY <1>3 DEF DestinationBlocked, CancelBeforeRequest, Succeed, LoseAnswer, MonitorGone, history
    <2>2. PICK j \in Jobs : worker[u].job = j /\ worker[u].at \in Dests
      BY <1>0, <2>1 DEF TypeOK, CopyOK
    <2>3. Holds(u, j) /\ ~Cancelled
      BY <2>1, <2>2, HandFacts DEF Holds
    <2>4. CASE DestinationBlocked(u)
      BY <1>0, <2>1, <2>2, <2>3, <2>4, DestinationEffects, SettleFits DEF DestinationBlocked, DestStatuses
    <2>5. CASE Succeed(u)
      BY <1>0, <2>1, <2>2, <2>3, <2>5, DestinationEffects, SettleFits DEF Succeed, Stored, DestStatuses
    <2>6. CASE LoseAnswer(u)
      <3>1. OutcomeOfLostAnswer(u) = "uncertain"
        BY <2>3 DEF OutcomeOfLostAnswer
      <3> QED
        BY <1>0, <2>1, <2>2, <2>3, <2>6, <3>1, DestinationEffects, SettleFits
           DEF LoseAnswer, Stored, DestStatuses
    <2>7. CASE MonitorGone(u)
      BY <1>0, <2>1, <2>2, <2>3, <2>7, DestinationEffects, SettleFits DEF MonitorGone, DestStatuses
    <2> QED
      BY <1>3, <2>3, <2>4, <2>5, <2>6, <2>7 DEF CancelBeforeRequest
  <1> QED
    BY <1>0, <1>1, <1>2, <1>3, WorkerKinds, PassFits, NextFits, DeliverFits, FailedFits, ClaimFits
-----------------------------------------------------------------------------
(* Steps around the worker.                                                *)

\* A row whose new status tells the same of its destinations.
SameTold(u, k) ==
    /\ row'[k].dest = row[k].dest
    /\ \/ row'[k].status = row[k].status
       \/ /\ row[k].status \in {"absent", "pending", "failed", "interrupted"}
          /\ row'[k].status \in {"pending", "failed"}
       \/ worker[u].pc = "idle" /\ row[k].status = "processing" /\ row'[k].status = "uncertain"

\* Inserts, retries, timers and a start change no phase.
LEMMA StillFits ==
    ASSUME NEW u, One(u), UNCHANGED <<worker, sent, approved>>, app' # "stopping",
           asked \subseteq asked', \A k \in Jobs : SameTold(u, k)
    PROVE  Fits(u)
  <1>1. ASSUME NEW k \in Jobs, Holds(u, k)' PROVE HandFits(u, k)'
    <2>1. Holds(u, k) /\ SameTold(u, k)
      BY <1>1 DEF Holds
    <2>2. HandFits(u, k) /\ worker[u].pc # "idle"
      BY <2>1, HandFacts DEF Holds
    <2> QED
      BY <2>1, <2>2 DEF HandFits, SameTold
  <1>2. OneInv(u)'
    BY <1>1 DEF One, OneInv, SameTold
  <1>3. ASSUME NEW k \in Jobs, NEW d \in Dests PROVE LetterFits(u, k, d)
    <2>1. /\ SameTold(u, k) /\ (Holds(u, k)' <=> Holds(u, k)) /\ At(u, k, d)' = At(u, k, d)
          /\ Holds(u, k) => worker[u].pc # "idle"
      BY DEF Holds, At
    <2>2. row[k].status \notin {"uncertain", "processing"} => row[k].dest[d] # "uncertain"
      BY DEF One, OneInv
    <2>3. PhaseNow(u, k, d)' = PhaseNow(u, k, d)
      BY <2>1, <2>2 DEF PhaseNow, PhaseFor, SameTold, Waiting
    <2> QED
      BY <2>3 DEF LetterFits, LetterMoves
  <1> QED
    BY <1>2, <1>3 DEF Fits

\* A crash leaves what was on its way, and what its job still had to send, in doubt.
LEMMA CrashFits ==
    ASSUME NEW u, One(u), Crash
    PROVE  Fits(u)
  <1>1. /\ worker'[u].pc = "idle" /\ app' = "down"
        /\ UNCHANGED <<row, asked, sent, approved>>
    BY DEF Crash, Idle, One
  <1>2. \A k \in Jobs : ~Holds(u, k)'
    BY <1>1 DEF Holds
  <1>3. OneInv(u)'
    BY <1>1, <1>2 DEF One, OneInv
  <1>4. ASSUME NEW k \in Jobs, NEW d \in Dests PROVE LetterFits(u, k, d)
    <2>1. PhaseNow(u, k, d)' = PhaseFor(row[k].status, row[k].dest[d], FALSE, "idle")
      BY <1>1, <1>2 DEF PhaseNow, PhaseFor, At
    <2>2. CASE Holds(u, k)
      <3>1. PhaseNow(u, k, d) = PhaseFor(row[k].status, row[k].dest[d], TRUE, At(u, k, d))
        BY <2>2 DEF PhaseNow, PhaseFor, At
      <3>2. /\ At(u, k, d) \in {"sending", "delivered"} =>
                 row[k].dest[d] = "processing" /\ row[k].status = "processing"
            /\ row[k].status \in {"processing", "failed", "pending"}
        BY <2>2, HandFacts DEF HandFits, CopyFits, At
      <3> QED
        BY <1>1, <2>1, <3>1, <3>2 DEF LetterFits, LetterMoves, PhaseFor, Waiting
    <2>3. CASE ~Holds(u, k)
      <3>1. PhaseNow(u, k, d) = PhaseFor(row[k].status, row[k].dest[d], FALSE, "idle")
        BY <2>3 DEF PhaseNow, PhaseFor, At
      <3> QED
        BY <1>1, <2>1, <3>1 DEF LetterFits, LetterMoves
    <2> QED
      BY <2>2, <2>3
  <1> QED
    BY <1>3, <1>4 DEF Fits

\* The operator's answer confirms letters that were in doubt or approves their resend.
LEMMA ReconcileFits ==
    ASSUME NEW u, One(u), NEW j \in Jobs, NEW scope \in Scopes, NEW action \in {"sent", "resend"},
           Reconcile(j, scope, action)
    PROVE  Fits(u)
  <1> DEFINE picked == Picked(row[j].dest, scope, action)
             dest == ReconciledDest(row[j].dest, scope, action)
             s == ReconciledStatus(dest, action)
  <1>0. TypeOK /\ row \in [Jobs -> Rows] /\ approved \in [Jobs -> [Dests -> Nat]]
    BY DEF One, TypeOK
  <1>1. /\ Writes(j, s, dest) /\ s \in {"uncertain", "forwarded", "pending"}
        /\ row[j].status = "uncertain"
    BY <1>0, ReconcileEffect
  <1>2. /\ UNCHANGED <<worker, app, asked, sent>>
        /\ action = "sent" => approved' = approved
        /\ action = "resend" =>
             approved' = [approved EXCEPT ![j] = [d \in Dests |->
                            IF d \in picked THEN approved[j][d] + 1 ELSE approved[j][d]]]
    BY DEF Reconcile
  <1>3. /\ \A k \in Jobs \ {j} : approved'[k] = approved[k]
        /\ \A d \in Dests : approved'[j][d] = IF action = "resend" /\ d \in picked
                                              THEN approved[j][d] + 1 ELSE approved[j][d]
    BY <1>0, <1>2
  <1>4. ASSUME NEW d \in Dests
        PROVE  /\ dest[d] = IF d \in picked THEN IF action = "sent" THEN "forwarded" ELSE "pending"
                            ELSE IF row[j].dest[d] \in Waiting THEN "uncertain" ELSE row[j].dest[d]
               /\ d \in picked => \/ row[j].dest[d] \in Waiting \cup {"uncertain"}
                                  \/ action = "resend" /\ row[j].dest[d] # "forwarded"
    BY DEF ReconciledDest, Exposed, Picked, Waiting
  <1>5. s # "uncertain" => \A d \in Dests : dest[d] # "uncertain"
    BY DEF ReconciledStatus
  <1> HIDE DEF picked, dest, s
  <1>6. row'[j].status = s /\ row'[j].dest = dest /\ \A k \in Jobs \ {j} : row'[k] = row[k]
    BY <1>1 DEF Writes
  <1>7. ~Holds(u, j)
    BY <1>1, HandFacts DEF HandFits
  <1>8. \A k \in Jobs : Holds(u, k)' <=> Holds(u, k)
    BY <1>2 DEF Holds
  <1>9. j \in asked
    BY <1>1 DEF One, ForwardInv, RowFits
  <1>10. ASSUME NEW k \in Jobs, Holds(u, k)' PROVE HandFits(u, k)'
    <2>1. Holds(u, k) /\ k # j
      BY <1>7, <1>8, <1>10
    <2>2. HandFits(u, k)
      BY <2>1, HandFacts
    <2> QED
      BY <1>2, <1>6, <2>1, <2>2 DEF HandFits
  <1>11. OneInv(u)'
    BY <1>1, <1>2, <1>5, <1>6, <1>9, <1>10 DEF One, OneInv
  <1>12. ASSUME NEW k \in Jobs \ {j}, NEW d \in Dests PROVE LetterFits(u, k, d)
    <2>1. PhaseNow(u, k, d)' = PhaseNow(u, k, d)
      BY <1>2, <1>6, <1>8, <1>12 DEF PhaseNow, PhaseFor, At
    <2> QED
      BY <1>2, <1>3, <1>12, <2>1 DEF LetterFits, LetterMoves
  <1>13. ASSUME NEW d \in Dests PROVE LetterFits(u, j, d)
    <2>1. PhaseNow(u, j, d) = PhaseFor("uncertain", row[j].dest[d], FALSE, "idle")
      BY <1>1, <1>7 DEF PhaseNow, PhaseFor, At
    <2>2. PhaseNow(u, j, d)' = PhaseFor(s, dest[d], FALSE, "idle")
      BY <1>6, <1>7, <1>8 DEF PhaseNow, PhaseFor, At
    <2>3. CASE d \in picked /\ action = "sent"
      <3>1. PhaseNow(u, j, d) = "unknown" /\ PhaseNow(u, j, d)' = "done"
        BY <1>4, <2>1, <2>2, <2>3 DEF PhaseFor, Waiting
      <3> QED
        BY <1>2, <1>3, <2>3, <3>1 DEF LetterFits, LetterMoves
    <2>4. CASE d \in picked /\ action = "resend"
      <3>1. PhaseNow(u, j, d) \in {"unknown", "due"} /\ PhaseNow(u, j, d)' \in {"unknown", "due"}
        BY <1>1, <1>4, <2>1, <2>2, <2>4 DEF PhaseFor, Waiting
      <3> QED
        BY <1>2, <1>3, <2>4, <3>1 DEF LetterFits, LetterMoves
    <2>5. CASE d \notin picked
      <3>1. PhaseNow(u, j, d)' = PhaseNow(u, j, d)
        BY <1>1, <1>4, <2>1, <2>2, <2>5 DEF PhaseFor, Waiting
      <3> QED
        BY <1>2, <1>3, <2>5, <3>1 DEF LetterFits, LetterMoves
    <2> QED
      BY <2>3, <2>4, <2>5
  <1> QED
    BY <1>11, <1>12, <1>13 DEF Fits

\* Every step moves the letters as Delivery allows.
LEMMA NextStepFits ==
    ASSUME NEW u, One(u), MaxStops = 0, [Next]_vars
    PROVE  Fits(u)
  <1>0. Workers = {u} /\ app # "stopping" /\ row \in [Jobs -> Rows] /\ spent.stops \in Nat
    BY DEF One, OneInv, TypeOK
  <1>1. CASE \E w \in Workers : WorkerStep(w)
    BY <1>0, <1>1, WorkerFits
  <1>2. CASE RetryOne \/ RetryAll
    <2>1. PICK js \in SUBSET Jobs : Retry(js)
      BY <1>2 DEF RetryOne, RetryAll
    <2>2. /\ UNCHANGED <<worker, sent, approved, app, asked>>
          /\ \A k \in js : row[k].status \in {"failed", "interrupted"}
      BY <2>1 DEF Retry, Retryable
    <2>3. \A k \in Jobs : SameTold(u, k)
      BY <1>0, <2>1, <2>2, RowEffects DEF SameTold
    <2> QED
      BY <1>0, <2>2, <2>3, StillFits
  <1>3. CASE \E j \in Jobs, scope \in Scopes, action \in {"sent", "resend"} : Reconcile(j, scope, action)
    BY <1>3, ReconcileFits
  <1>4. CASE \E j \in Jobs : Enqueue(j)
    <2>1. PICK j \in Jobs : Enqueue(j)
      BY <1>4
    <2>2. /\ UNCHANGED <<worker, sent, approved, app>> /\ asked \subseteq asked' /\ j \notin asked
      BY <2>1 DEF Enqueue
    <2>3. PICK s \in {"absent", "pending", "failed"} : Writes(j, s, [d \in Dests |-> "pending"])
      BY <1>0, <2>1, RowEffects
    <2>4. /\ row[j].status = "absent" /\ row[j].dest \in [Dests -> DestStatuses]
          /\ \A d \in Dests : row[j].dest[d] = "pending"
      BY <1>0, <2>2 DEF One, OneInv, ForwardInv, RowFits, Rows
    <2>5. row[j].dest = [d \in Dests |-> "pending"]
      BY <2>4
    <2>6. \A k \in Jobs : SameTold(u, k)
      BY <2>3, <2>4, <2>5 DEF SameTold, Writes
    <2> QED
      BY <1>0, <2>2, <2>6, StillFits
  <1>5. CASE \E j \in Jobs : BackoffEnds(j)
    <2>1. PICK j \in Jobs : BackoffEnds(j)
      BY <1>5
    <2>2. UNCHANGED <<worker, sent, approved, app, asked>>
      BY <2>1 DEF BackoffEnds, history
    <2>3. \A k \in Jobs : SameTold(u, k)
      BY <1>0, <2>1, RowEffects DEF SameTold, Writes
    <2> QED
      BY <1>0, <2>2, <2>3, StillFits
  <1>6. CASE Start
    <2>1. UNCHANGED <<worker, sent, approved, asked>> /\ app = "down" /\ app' = "up"
      BY <1>6 DEF Start, history
    <2>2. worker[u].pc = "idle"
      BY <1>0, <2>1 DEF One, ForwardInv, CopyFits
    <2>3. \A k \in Jobs : SameTold(u, k)
      BY <1>0, <1>6, <2>2, RowEffects DEF SameTold
    <2> QED
      BY <2>1, <2>3, StillFits
  <1>7. CASE FloodEnds \/ StopMonitor \/ StartMonitor \/ SetPaused \/ UNCHANGED vars
    <2>1. UNCHANGED <<row, worker, sent, approved, app, asked>>
      BY <1>7 DEF FloodEnds, StopMonitor, StartMonitor, SetPaused, vars, history
    <2>2. \A k \in Jobs : SameTold(u, k)
      BY <2>1 DEF SameTold
    <2> QED
      BY <1>0, <2>1, <2>2, StillFits
  <1>8. ~Stop /\ ~Exit
    BY <1>0 DEF Stop, Exit
  <1> QED
    BY <1>1, <1>2, <1>3, <1>4, <1>5, <1>6, <1>7, <1>8, CrashFits DEF Next, OperatorStep, EnvironmentStep

\* At the start every letter is due.
LEMMA InitOne ==
    ASSUME NEW u, Workers = {u}, Init
    PROVE  OneInv(u) /\ Ledger!DeliveryInit
  <1>1. \A j \in Jobs : row[j] = NoRow /\ ~Holds(u, j)
    BY DEF Init, Idle, Holds
  <1>2. OneInv(u)
    BY <1>1 DEF OneInv, NoRow, Init
  <1>3. TypeOK /\ CopyFits(u)
    BY InitTypeOK, InitForwardInv DEF ForwardInv
  <1>4. ASSUME NEW j \in Jobs, NEW d \in Dests PROVE PhaseOf(j, d) = "due"
    BY <1>1, <1>2, <1>3, PhaseIs DEF PhaseFor, At, NoRow, Waiting
  <1> QED
    BY <1>2, <1>4 DEF Init, Letters, Ledger!DeliveryInit

\* The ledger the queue keeps of its letters is one of Delivery.
LEMMA LedgerTyped ==
    ASSUME TypeOK
    PROVE  Ledger!DeliveryTypeOK
  <1>1. \A j \in Jobs, d \in Dests : PhaseOf(j, d) \in Ledger!Phases
    BY DEF PhaseOf, Ledger!Phases
  <1> QED
    BY <1>1 DEF TypeOK, Letters, Ledger!DeliveryTypeOK

\* With one worker and no graceful shutdown, for any jobs, destinations, crashes, outages and
\* answers of the operator: each letter is on its way at most once at a time, what was accepted
\* is never handed out again by itself, a doubt waits for the operator, a success is for ever.
THEOREM QueueDelivers ==
    ASSUME NEW u, Workers = {u}, MaxStops = 0
    PROVE  Spec => DeliversAsPromised
  <1>1. Init => OneInv(u) /\ Ledger!DeliveryInit
    BY InitOne
  <1>2. TypeOK /\ ForwardInv /\ OneInv(u) /\ [Next]_vars => OneInv(u)'
    BY NextStepFits DEF One, Fits
  <1>3. /\ TypeOK /\ ForwardInv /\ OneInv(u) /\ TypeOK' /\ ForwardInv' /\ OneInv(u)'
        /\ [Next]_vars
        => Ledger!DeliveryNext
    <2> SUFFICES ASSUME TypeOK, ForwardInv, OneInv(u), TypeOK', ForwardInv', OneInv(u)', [Next]_vars
                 PROVE  Ledger!DeliveryNext
      OBVIOUS
    <2>1. ASSUME NEW j \in Jobs, NEW d \in Dests PROVE Ledger!Move(<<j, d>>)
      <3>1. LetterFits(u, j, d)
        BY NextStepFits DEF One, Fits
      <3>2. PhaseOf(j, d) = PhaseNow(u, j, d)
        BY PhaseIs DEF ForwardInv, PhaseNow
      <3>3. PhaseOf(j, d)' = PhaseNow(u, j, d)'
        BY PhaseIsNext DEF ForwardInv, PhaseNow
      <3> QED
        BY <3>1, <3>2, <3>3, LetterMoved DEF LetterFits
    <2>2. Ledger!DeliveryTypeOK'
      BY LedgerTyped, PTL
    <2> QED
      BY <2>1, <2>2 DEF Ledger!DeliveryNext, Letters
  <1> QED
    BY <1>1, <1>2, <1>3, TypeCorrect, ForwardInvariant, PTL DEF Spec, DeliversAsPromised, Ledger!DeliverySpec

Promise == INSTANCE Delivery_proofs WITH
    phase <- [l \in Letters |-> PhaseOf(l[1], l[2])],
    copies <- [l \in Letters |-> sent[l[1]][l[2]]],
    leave <- [l \in Letters |-> approved[l[1]][l[2]]]

\* What Delivery promises holds of the queue: without a graceful shutdown, whose failed
\* uploads a retry repeats, no retry duplicates a message by itself.
THEOREM RetrySendsOnce ==
    ASSUME NEW u, Workers = {u}, MaxStops = 0
    PROVE  Spec => []NoDuplicateOnRetry
  <1>1. TypeOK /\ Promise!AcceptedByLeave => NoDuplicateOnRetry
    <2> SUFFICES ASSUME TypeOK, Promise!AcceptedByLeave, NEW j \in Jobs, NEW d \in Dests
                 PROVE  sent[j][d] <= 1 + approved[j][d]
      BY DEF NoDuplicateOnRetry
    <2>1. <<j, d>> \in Letters /\ sent[j][d] \in Nat /\ approved[j][d] \in Nat
      BY DEF Letters, TypeOK
    <2> QED
      BY <2>1 DEF Promise!AcceptedByLeave
  <1>2. Promise!DeliverySpec => []Promise!AcceptedByLeave
    BY Promise!AcceptedOnce, PTL
  <1>3. DeliversAsPromised => Promise!DeliverySpec
    <2>1. Ledger!DeliveryInit => Promise!DeliveryInit
      BY DEF Ledger!DeliveryInit, Promise!DeliveryInit
    <2>2. [Ledger!DeliveryNext]_(Ledger!deliveryVars) => [Promise!DeliveryNext]_(Promise!deliveryVars)
      BY DEF Ledger!DeliveryNext, Promise!DeliveryNext, Ledger!deliveryVars, Promise!deliveryVars,
             Ledger!DeliveryTypeOK, Promise!DeliveryTypeOK, Ledger!Phases, Promise!Phases,
             Ledger!Move, Promise!Move, Ledger!Keep, Promise!Keep, Ledger!Send, Promise!Send,
             Ledger!Accept, Promise!Accept, Ledger!Return, Promise!Return, Ledger!Record,
             Promise!Record, Ledger!Doubt, Promise!Doubt, Ledger!Confirm, Promise!Confirm,
             Ledger!Resend, Promise!Resend, Ledger!Moves, Promise!Moves, Ledger!Same, Promise!Same
    <2> QED
      BY <2>1, <2>2, PTL DEF DeliversAsPromised, Ledger!DeliverySpec, Promise!DeliverySpec
  <1> QED
    BY <1>1, <1>2, <1>3, QueueDelivers, TypeCorrect, PTL
=============================================================================
