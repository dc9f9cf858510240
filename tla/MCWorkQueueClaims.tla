------------------------- MODULE MCWorkQueueClaims -------------------------
(***************************************************************************)
(* Two scenarios of WorkQueueOrder that share a run: in "claims" two       *)
(* workers race on one row through the edits, retries, cancellations and   *)
(* restarts of one account, in "order" two accounts report versions of a   *)
(* channel message to a single worker.                                     *)
(***************************************************************************)
EXTENDS WorkQueueOrder, TLC

Msg(a, o, v, p, i, rep) ==
    [account |-> a, origin |-> o, version |-> v, pts |-> p, identity |-> i,
     ttl |-> FALSE, repair |-> rep]

\* One attachment, another in the same second, the first again, and a later edit;
\* the second account sees the channel too; an explicit read carries no pts.
ChannelMessages ==
    {Msg("a1", "live", 1, 1, "i1", FALSE), Msg("a2", "live", 1, 2, "i2", FALSE),
     Msg("a1", "live", 1, 3, "i1", FALSE), Msg("a2", "live", 2, 4, "i2", FALSE),
     Msg("a1", "url", 1, 0, "i1", TRUE)}

\* A message, its edit, and an explicit repair of either.
ClaimMessages ==
    {Msg("a1", "live", 1, 1, "i1", FALSE), Msg("a1", "live", 2, 2, "i2", FALSE),
     Msg("a1", "history", 1, 0, "i1", TRUE)}

AllMessages == ClaimMessages \cup ChannelMessages
VARIABLE scenario

scenarioVars == <<orderVars, scenario>>

ScenarioInit == OrderInit /\ scenario \in {"claims", "order"}

\* Without the pause flags, which only ever close the claim guard: PauseNext
\* covers them.
ClaimNext ==
    \/ \E w \in Workers : WorkerStep(w)
    \/ \E s \in signals : Signal(s)
    \/ \E k \in Keys : BackoffEnds(k) \/ CancelJob(k) \/ RetryJobs({k}) \/ DeleteFinished({k})
    \/ \E obs \in BOOLEAN : Start(obs)
    \/ Promote \/ StopObserving \/ Stop \/ Stopped
    \/ \E k \in Keys : Reassign(k, "a1")

ClaimStep ==
    /\ scenario = "claims"
    /\ Elsewise(ClaimNext) \/ \E k \in Keys, m \in ClaimMessages : Observe(k, m)
    /\ \A k \in Keys : rows'[k].gen <= 2

\* One worker at a time.
OrderStep ==
    /\ scenario = "order"
    /\ \/ \E k \in Keys, m \in ChannelMessages : Observe(k, m)
       \/ Elsewise(Work)
       \/ Elsewise(Start(TRUE) \/ Stop \/ Stopped)
       \/ Elsewise(\E k \in Keys, a \in Accounts : Reassign(k, a))
    /\ Cardinality({w \in Workers : worker'[w].phase # "idle"}) <= 1

ScenarioNext == (ClaimStep \/ OrderStep) /\ UNCHANGED scenario
ScenarioSpec == ScenarioInit /\ [][ScenarioNext]_scenarioVars

\* With pauses, for the properties about them.
PauseScenarioSpec == ScenarioInit /\ [][PauseNext /\ UNCHANGED scenario]_scenarioVars

WorkerSymmetry == Permutations(Workers)
=============================================================================
