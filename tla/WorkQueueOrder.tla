--------------------------- MODULE WorkQueueOrder ---------------------------
(***************************************************************************)
(* WorkQueue with a record of what was observed of each message and of     *)
(* what was explicitly asked for, to state which observation a row must    *)
(* hold and whose request it must serve.                                   *)
(***************************************************************************)
EXTENDS WorkQueue

VARIABLES
    seen,      \* Key -> observations <<version, pts, identity>> of the present row
    explicit,  \* keys whose present content was asked for by an explicit request
    held       \* keys paused by an operator since the whole queue was last resumed

orderVars == <<vars, seen, explicit, held>>

OrderInit ==
    /\ Init
    /\ seen = [k \in Keys |-> {}]
    /\ explicit = {}
    /\ held = {}

Observation(k, m) == <<m.version, SourcePts(k, m), m.identity>>
Content(k) == <<rows[k].version, rows[k].identity>>

Observe(k, m) ==
    /\ Enqueue(k, m)
    /\ seen' = [seen EXCEPT ![k] = @ \cup {Observation(k, m)}]
    /\ explicit' = IF m.origin # "live" /\ <<m.version, m.identity>> = Content(k)'
                   THEN explicit \cup {k}
                   ELSE IF Content(k)' # Content(k) THEN explicit \ {k} ELSE explicit
    /\ UNCHANGED held

CountedAnew(k) == k \in StoryKeys /\ rows'[k].pts < rows[k].pts

\* Any other step: a deleted row forgets what was seen and asked for; a refresh
\* that found another attachment, or a reassigned story, whose observations are
\* counted anew, restarts the record with what the row holds.
Elsewise(step) ==
    /\ step
    /\ seen' = [k \in Keys |->
                  IF rows'[k].id = 0 THEN {}
                  ELSE IF Content(k)' # Content(k) \/ CountedAnew(k)
                       THEN {<<rows'[k].version, rows'[k].pts, rows'[k].identity>>}
                       ELSE seen[k]]
    /\ explicit' = {k \in explicit : rows'[k].id # 0 /\ rows'[k].status \notin Terminal}
    /\ UNCHANGED held

Work ==
    \/ \E w \in Workers : WorkerStep(w)
    \/ \E s \in signals : Signal(s)
    \/ \E k \in Keys : BackoffEnds(k) \/ DeleteFinished({k})

PauseStep ==
    /\ \/ \E paused \in BOOLEAN :
            /\ SetQueuePaused(paused)
            /\ held' = IF paused THEN held ELSE {}
       \/ \E k \in Keys, paused \in BOOLEAN :
            /\ PauseJob(k, paused)
            /\ held' = IF paused THEN held \cup {k} ELSE held \ {k}
    /\ UNCHANGED <<seen, explicit>>

ObserveStep == \E k \in Keys, m \in Messages : Observe(k, m)

\* Every step of the queue, with its record.
OtherStep ==
    \/ Work
    \/ \E a \in Accounts : FloodWaitEnds(a)
    \/ CancelAllQueued
    \/ \E k \in Keys : CancelJob(k)
    \/ \E ks \in {{k} : k \in Keys} \cup {Keys} : RetryJobs(ks) \/ DeleteFinished(ks)
    \/ Lifecycle

OrderNext == ObserveStep \/ PauseStep \/ Elsewise(OtherStep)

OrderSpec == OrderInit /\ [][OrderNext]_orderVars

\* Pauses, promotion and demotion of a run that stays up.
PauseNext ==
    \/ ObserveStep
    \/ PauseStep
    \/ Elsewise(Work)
    \/ Elsewise(\E obs \in BOOLEAN : Start(obs))
    \/ Elsewise(Promote \/ StopObserving)

PauseSpec == OrderInit /\ [][PauseNext]_orderVars

-----------------------------------------------------------------------------

Older(o, p) == o[1] < p[1] \/ (o[1] = p[1] /\ o[2] < p[2])

\* Whatever the order edits of a comparable message arrive in, the row describes
\* the observation with the highest version, then the highest pts: a delayed
\* intermediate edit never replaces a later one (enqueueWork's watermark).
LatestObservationWins ==
    \A k \in Keys : Comparable(k) /\ Exists(k) =>
        \E o \in seen[k] : /\ \A p \in seen[k] : ~Older(o, p)
                           /\ Content(k) = <<o[1], o[3]>>

\* "Stopping the live subscription does not interrupt an explicit backfill"
\* (manual.go): work an explicit request asked for is never left waiting for live
\* observation to come back.
BackfillUninterrupted ==
    \A k \in explicit :
        run = "up" /\ ~observing /\ rows[k].status = "pending" => rows[k].origin # "live"

\* "resume-all action also clears individual pauses" (work.go, SetQueuePaused):
\* afterwards only a row paused again can be hidden from the workers.
HiddenOnlyIfHeld ==
    \A k \in Keys : rows[k].status = "pending" /\ rows[k].paused => k \in held
=============================================================================
