------------------------------- MODULE Dbscan -------------------------------
(***************************************************************************)
(* The clustering of faces (dbscan/dbscan.go): Labels with the region      *)
(* queries it answers ahead of their use, and the order of the groups that *)
(* Cluster makes of the labels.  Every graph of neighbours is an input;    *)
(* the distances it comes from are left out.  A step is one turn of the    *)
(* outer loop or one point popped from the expansion queue.                *)
(***************************************************************************)
EXTENDS Integers, Sequences, FiniteSets

LOCAL INSTANCE FiniteSetsExt

CONSTANTS
  N,          \* number of points
  MinPoints,  \* the values of minPts
  BatchSizes, \* the values of batchMax: 1, or 4 * workers
  \* Bound of the model only.
  MaxEdges    \* pairs of neighbours

ASSUME DbscanAssumption == {N, MaxEdges} \subseteq Nat /\ MinPoints \subseteq Nat \ {0, 1} /\ BatchSizes \subseteq Nat \ {0}

VARIABLES
  near,          \* point -> the other points within eps
  minPts, batchMax,
  labels,        \* point -> its cluster, Noise, Unvisited or Queued
  cluster,       \* the last cluster begun
  outer,         \* the point the outer loop is at
  queue, head,   \* the expansion queue and the position to pop
  cache,         \* points whose answer is computed and not used
  scanPos, qscan,\* the prefetch frontiers
  asked,         \* history: point -> the times its region was queried
  groups,        \* the clusters as Cluster returns them
  stage          \* "outer", "expand", "done" or "cancelled"

dbscanVars == <<near, minPts, batchMax, labels, cluster, outer, queue, head, cache, scanPos, qscan, asked, groups, stage>>
input == <<near, minPts, batchMax>>

Points == 0..(N - 1)
Unvisited == -2
Noise == -1
Queued == -3

Least(S) == CHOOSE x \in S : \A y \in S : x <= y
Greatest(S) == CHOOSE x \in S : \A y \in S : y <= x
Larger(x, y) == IF x < y THEN y ELSE x

\* The k smallest of S, and S as an ascending sequence.
FirstOf(S, k) == {x \in S : Cardinality({y \in S : y < x}) < k}
Ascending(S) == [k \in 1..Cardinality(S) |-> CHOOSE x \in S : Cardinality({y \in S : y < x}) = k - 1]

\* A clustering of one of the graphs.
DbscanBegins(graphs) ==
  /\ near \in {[p \in Points |-> {q \in Points : {p, q} \in edges}] : edges \in graphs}
  /\ minPts \in MinPoints /\ batchMax \in BatchSizes
  /\ labels = [p \in Points |-> Unvisited] /\ cluster = -1 /\ outer = 0
  /\ queue = <<>> /\ head = 1 /\ cache = {} /\ scanPos = 0 /\ qscan = 1
  /\ asked = [p \in Points |-> 0] /\ groups = <<>> /\ stage = "outer"

DbscanInit == DbscanBegins(UNION {kSubset(k, kSubset(2, Points)) : k \in 0..MaxEdges})

IsCore(p) == Cardinality(near[p]) + 1 >= minPts
-----------------------------------------------------------------------------
(* Region queries.                                                         *)

\* fill: p and the others of its batch are queried; the others are kept.
Fill(p, others) ==
  /\ asked' = [q \in Points |-> asked[q] + (IF q \in {p} \cup others THEN 1 ELSE 0)]
  /\ cache' = cache \cup others

TakeAnswer(p) == cache' = cache \ {p} /\ UNCHANGED asked

\* Where a frontier is left: behind the last position of a full batch, or at the end.
Frontier(from, ahead, end) ==
  IF batchMax = 1 THEN from
  ELSE IF Cardinality(ahead) = batchMax - 1 THEN Greatest(ahead) + 1 ELSE end

\* Mutant: points that have a label are prefetched as well.
AnyAhead(from) == {q \in Points : q >= from /\ q \notin cache}

\* The points of the outer loop that are worth a prefetch.
Ahead(from) == {q \in Points : q >= from /\ labels[q] = Unvisited /\ q \notin cache}

\* fetchOuter: with the next points nobody has visited.
FetchOuter(p) ==
  LET from == Larger(p + 1, scanPos)
      ahead == FirstOf(Ahead(from), batchMax - 1) IN
  IF p \in cache THEN TakeAnswer(p) /\ UNCHANGED scanPos
  ELSE Fill(p, ahead) /\ scanPos' = Frontier(from, ahead, N)

\* The positions of the queue that are worth a prefetch.
Behind(from) == {k \in from..Len(queue) : labels[queue[k]] = Queued /\ queue[k] \notin cache}

\* fetchQueued: with the points behind it in the queue.
FetchQueued(p) ==
  LET from == Larger(head + 1, qscan)
      ahead == FirstOf(Behind(from), batchMax - 1) IN
  IF p \in cache THEN TakeAnswer(p) /\ UNCHANGED qscan
  ELSE Fill(p, {queue[k] : k \in ahead}) /\ qscan' = Frontier(from, ahead, Len(queue) + 1)
-----------------------------------------------------------------------------
(* Labels.                                                                 *)

\* Mutant: a seed enqueues only the points that nobody has visited.
UnvisitedOnly(p) == {q \in near[p] : labels[q] = Unvisited}

\* What a seed enqueues: also noise, which becomes a border point.
Seeded(p) == near[p]

Visit ==
  LET p == outer IN
  /\ stage = "outer" /\ p < N
  /\ IF labels[p] # Unvisited
     THEN outer' = p + 1 /\ UNCHANGED <<labels, cluster, queue, head, cache, scanPos, qscan, asked, stage>>
     ELSE /\ FetchOuter(p)
          /\ IF IsCore(p)
             THEN /\ cluster' = cluster + 1 /\ queue' = Ascending(Seeded(p)) /\ head' = 1 /\ qscan' = 1
                  /\ labels' = [q \in Points |-> IF q = p THEN cluster + 1
                                  ELSE IF q \in near[p] /\ labels[q] = Unvisited THEN Queued ELSE labels[q]]
                  /\ stage' = "expand" /\ UNCHANGED outer
             ELSE /\ labels' = [labels EXCEPT ![p] = Noise] /\ outer' = p + 1
                  /\ UNCHANGED <<cluster, queue, head, qscan, stage>>
  /\ UNCHANGED <<input, groups>>

\* A point is popped: noise becomes a border point, a queued one is queried and expanded.
Pop ==
  LET p == queue[head]
      fresh == IF IsCore(p) THEN {q \in near[p] : labels[q] = Unvisited} ELSE {} IN
  /\ stage = "expand" /\ head <= Len(queue) /\ head' = head + 1
  /\ IF labels[p] = Queued
     THEN /\ FetchQueued(p)
          /\ queue' = queue \o Ascending(fresh)
          /\ labels' = [q \in Points |-> IF q = p THEN cluster ELSE IF q \in fresh THEN Queued ELSE labels[q]]
     ELSE /\ labels' = IF labels[p] = Noise THEN [labels EXCEPT ![p] = cluster] ELSE labels
          /\ UNCHANGED <<queue, qscan, cache, asked>>
  /\ UNCHANGED <<input, cluster, outer, scanPos, groups, stage>>

Expanded ==
  /\ stage = "expand" /\ head > Len(queue) /\ stage' = "outer" /\ outer' = outer + 1
  /\ UNCHANGED <<input, labels, cluster, queue, head, cache, scanPos, qscan, asked, groups>>
-----------------------------------------------------------------------------
(* Cluster.                                                                *)

Members(l) == {p \in Points : labels[p] = l}


\* The clusters in the order of their first points.
ByFirstPoint ==
  [k \in 1..(cluster + 1) |->
     CHOOSE l \in 0..cluster : Cardinality({m \in 0..cluster : Least(Members(m)) < Least(Members(l))}) = k - 1]

\* The stable sort by size, largest first.
Sorted(order) ==
  LET Size(k) == Cardinality(Members(order[k]))
      Place(k) == Cardinality({h \in DOMAIN order : Size(h) > Size(k) \/ (Size(h) = Size(k) /\ h <= k)}) IN
  [c \in DOMAIN order |-> Ascending(Members(order[CHOOSE k \in DOMAIN order : Place(k) = c]))]

Cluster ==
  /\ stage = "outer" /\ outer = N /\ stage' = "done" /\ groups' = Sorted(ByFirstPoint)
  /\ UNCHANGED <<input, labels, cluster, outer, queue, head, cache, scanPos, qscan, asked>>

\* The context ends before a query: no labels are returned.
CancelLabels ==
  /\ stage \in {"outer", "expand"} /\ stage' = "cancelled"
  /\ UNCHANGED <<input, labels, cluster, outer, queue, head, cache, scanPos, qscan, asked, groups>>

DbscanNext == Visit \/ Pop \/ Expanded \/ Cluster \/ CancelLabels

DbscanSpec == DbscanInit /\ [][DbscanNext]_dbscanVars
-----------------------------------------------------------------------------
(* What the labels are, from the graph alone.                              *)

Core == {p \in Points : IsCore(p)}

\* The core points a path of core points joins to p, k links away at most.
Joined(p) ==
  LET Within[k \in 0..N] == IF k = 0 THEN {p} ELSE Within[k - 1] \cup UNION {near[q] \cap Core : q \in Within[k - 1]} IN
  Within[N]

Seed(p) == Least(Joined(p))
Seeds == {Seed(p) : p \in Core}

\* The seed whose cluster a point belongs to, -1 for none.  A point that is no core is taken
\* by the first cluster with a neighbour of it whose seed is before it; when there is none it
\* was noise, and only a neighbour that is a seed takes it.
Owner(p) ==
  LET early == {s \in {Seed(q) : q \in near[p] \cap Core} : s < p}
      direct == near[p] \cap Seeds IN
  IF p \in Core THEN Seed(p)
  ELSE IF early # {} THEN Least(early) ELSE IF direct # {} THEN Least(direct) ELSE -1
-----------------------------------------------------------------------------
(* Properties.                                                             *)

\* "The labels do not depend on the number of workers": whatever is prefetched, each point
\* has the label of its owner, numbered in the order of the seeds.
LabelsAreOwners ==
  stage = "done" =>
    \A p \in Points : labels[p] = IF Owner(p) = -1 THEN Noise ELSE Cardinality({s \in Seeds : s < Owner(p)})

\* "Each point is queried exactly once, so every cached answer is consumed; at most two
\* prefetch batches are outstanding at a time."
EachIsAskedOnce ==
  /\ \A p \in Points : asked[p] <= 1
  /\ Cardinality(cache) <= 2 * (batchMax - 1)
  /\ stage = "done" => cache = {} /\ \A p \in Points : asked[p] = 1

\* "Ordered by size, largest first", and of one size by their first points, although a later
\* cluster can own a lower point.
GroupsAreOrdered ==
  \A g, h \in DOMAIN groups : g < h =>
    \/ Len(groups[g]) > Len(groups[h])
    \/ Len(groups[g]) = Len(groups[h]) /\ groups[g][1] < groups[h][1]

\* The clusters are those of the sequential scan, in the order the callers expect.
ClustersAreSequential == LabelsAreOwners /\ EachIsAskedOnce /\ GroupsAreOrdered
=============================================================================
