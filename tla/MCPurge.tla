------------------------------ MODULE MCPurge ------------------------------
(* Instances of Purge for TLC. *)
EXTENDS Purge, TLC

SameChat == 1 :> "a" @@ 2 :> "a" @@ 3 :> "a"

\* The bounds are split over scenarios, chosen by the initial state: a scenario starts with
\* a part of its bounds used up, or with requests that were answered before.
CONSTANT Scenarios

\* Two requests for one chat, around a restart of the monitor.
TwoRequests ==
    /\ request = [j \in Jobs |-> IF j < 3 THEN "none" ELSE "answered"]
    /\ used = [starts |-> 0, stops |-> MaxStops, outages |-> MaxOutages,
               cancels |-> 0, saves |-> MaxSaveFailures,
               crashes |-> MaxCrashes, claims |-> MaxPurges,
               failures |-> MaxPurgeFailures]

\* One job, two starts, a stop, a crash and a purge.
OneJobStopped ==
    /\ request = [j \in Jobs |-> IF j = 1 THEN "none" ELSE "answered"]
    /\ used = [starts |-> 0, stops |-> 0, outages |-> MaxOutages, cancels |-> MaxCancels,
               saves |-> MaxSaveFailures, crashes |-> 0, claims |-> 1,
               failures |-> MaxPurgeFailures]

\* One job, one start, and everything that fails by itself.
OneJobFailing ==
    /\ request = [j \in Jobs |-> IF j = 3 THEN "none" ELSE "answered"]
    /\ used = [starts |-> 1, stops |-> MaxStops, outages |-> 0,
               cancels |-> MaxCancels, saves |-> 0, crashes |-> 0, claims |-> 0, failures |-> 0]

Scenario ==
    \/ "requests" \in Scenarios /\ TwoRequests
    \/ "stopped" \in Scenarios /\ OneJobStopped
    \/ "failing" \in Scenarios /\ OneJobFailing

MCInit ==
    /\ row = [j \in Jobs |-> NoRow]
    /\ memory = {} /\ held = {} /\ queue = {} /\ config = Groups
    /\ worker = [j \in Jobs |-> NoWorker]
    /\ gate = FALSE /\ saved = [autoStart |-> FALSE, paused |-> FALSE]
    /\ monitor = "stopped" /\ op = "free" /\ stopping = "none" /\ restart = FALSE
    /\ purge = [k \in Keys |-> NoPurge] /\ owed = FALSE
    /\ app = "up"
    /\ handled = [j \in Jobs |-> {}] /\ condemned = {} /\ overtaken = {} /\ stranded = FALSE
    /\ Scenario

MCSpec == MCInit /\ [][Next]_vars
MCFairSpec == MCSpec /\ Fairness
=============================================================================
