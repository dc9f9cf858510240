---------------------------- MODULE ClusterSweep ----------------------------
(***************************************************************************)
(* Duplicates between an instance and its peer: the sweep that lists them  *)
(* and the operator's resolve, which keeps one copy and deletes the others *)
(* (cluster/sweep.go, app/cluster_sweep.go).  Copies are rows of the       *)
(* instance itself ("self") or of the peer; the sweep knows the peer's     *)
(* only as the cached catalog, refreshed by the synchronisation            *)
(* (ClusterSync).  A conflict is named by the content its copies share.    *)
(***************************************************************************)
EXTENDS Naturals, FiniteSets

CONSTANTS
  RowIds,     \* row ids of either instance
  Hashes,     \* contents, by hash and size
  NoRow,
  Resolvers,  \* resolve requests in flight
  NoOne,
  \* Bounds of the model only.
  MaxEdits, MaxSweeps, MaxResolves, MaxUnreachable

ASSUME SweepAssumption ==
  /\ NoRow \notin Hashes /\ NoOne \notin Resolvers
  /\ {MaxEdits, MaxSweeps, MaxResolves, MaxUnreachable} \subseteq Nat

VARIABLES
  own,        \* downloads of the instance: id -> content
  theirs,     \* downloads of the peer
  known,      \* peer_downloads of the instance
  conflicts,  \* cluster_sweep_conflicts: [hash, owners, sweep]
  sweep,      \* the sweep running: [pc, found]
  resolver,   \* Resolver -> its request
  resolveLock,\* clusterSweep.resolveMu
  owed,       \* peer_delete_jobs, which nothing drains
  done,       \* history: [sweep, hash, keep] of finished resolves
  sweepSpent  \* bounds used

sweepVars == <<own, theirs, known, conflicts, sweep, resolver, resolveLock, owed, done,
               sweepSpent>>

NoRows == [i \in RowIds |-> NoRow]
NoConflict == [hash |-> NoRow, owners |-> {}, sweep |-> 0]
NoResolve == [pc |-> "off", hash |-> NoRow, keep |-> <<"self", 0>>, conflict |-> NoConflict,
              left |-> {}]

SweepInit ==
  /\ own \in [RowIds -> Hashes \cup {NoRow}] /\ theirs \in [RowIds -> Hashes \cup {NoRow}]
  /\ known = theirs
  /\ conflicts = {} /\ sweep = [pc |-> "off", found |-> {}]
  /\ resolver = [r \in Resolvers |-> NoResolve] /\ resolveLock = NoOne
  /\ owed = {} /\ done = {}
  /\ sweepSpent = [edits |-> 0, sweeps |-> 0, resolves |-> 0, unreachable |-> 0]

Copies(h) ==
  {<<"self", i>> : i \in {j \in RowIds : own[j] = h}}
    \cup {<<"peer", i>> : i \in {j \in RowIds : theirs[j] = h}}
-----------------------------------------------------------------------------
\* The owners of either library change it: a download, an edit, a deletion.
EditOwn(i, h) ==
  /\ own[i] # h /\ sweepSpent.edits < MaxEdits
  /\ own' = [own EXCEPT ![i] = h]
  /\ sweepSpent' = [sweepSpent EXCEPT !.edits = @ + 1]
  /\ UNCHANGED <<theirs, known, conflicts, sweep, resolver, resolveLock, owed, done>>

EditTheirs(i, h) ==
  /\ theirs[i] # h /\ sweepSpent.edits < MaxEdits
  /\ theirs' = [theirs EXCEPT ![i] = h]
  /\ sweepSpent' = [sweepSpent EXCEPT !.edits = @ + 1]
  /\ UNCHANGED <<own, known, conflicts, sweep, resolver, resolveLock, owed, done>>

\* A pass of the synchronisation.
RefreshKnown ==
  /\ known # theirs
  /\ known' = theirs
  /\ UNCHANGED <<own, theirs, conflicts, sweep, resolver, resolveLock, owed, done, sweepSpent>>
-----------------------------------------------------------------------------
(* The sweep: one at a time, reading and saving in two transactions.       *)

Known(h) ==
  {<<"self", i>> : i \in {j \in RowIds : own[j] = h}}
    \cup {<<"peer", i>> : i \in {j \in RowIds : known[j] = h}}

FindDuplicates ==
  /\ sweep.pc = "off" /\ sweepSpent.sweeps < MaxSweeps
  /\ sweepSpent' = [sweepSpent EXCEPT !.sweeps = @ + 1]
  /\ sweep' = [pc |-> "save",
               found |-> {[hash |-> h, owners |-> Known(h), sweep |-> sweepSpent.sweeps + 1] :
                            h \in {k \in Hashes : Cardinality(Known(k)) > 1}}]
  /\ UNCHANGED <<own, theirs, known, conflicts, resolver, resolveLock, owed, done>>

SaveSweep ==
  /\ sweep.pc = "save"
  /\ conflicts' = sweep.found
  /\ sweep' = [pc |-> "off", found |-> {}]
  /\ UNCHANGED <<own, theirs, known, resolver, resolveLock, owed, done, sweepSpent>>

\* A cancelled sweep keeps the previous list.
CancelSweep ==
  /\ sweep.pc = "save"
  /\ sweep' = [pc |-> "off", found |-> {}]
  /\ UNCHANGED <<own, theirs, known, conflicts, resolver, resolveLock, owed, done, sweepSpent>>
-----------------------------------------------------------------------------
(* The resolve request of an operator.                                     *)

AskResolve(r, c, keep) ==
  /\ resolver[r].pc = "off" /\ sweepSpent.resolves < MaxResolves
  /\ resolver' = [resolver EXCEPT ![r] = [NoResolve EXCEPT !.pc = "lock", !.hash = c.hash,
                                                           !.keep = keep]]
  /\ sweepSpent' = [sweepSpent EXCEPT !.resolves = @ + 1]
  /\ UNCHANGED <<own, theirs, known, conflicts, sweep, resolveLock, owed, done>>

\* Mutant: the list is read before the lock is waited for.
LockIgnored(r) == TRUE

LockFree(r) == resolveLock = NoOne

\* Under resolveMu the conflict has to be listed still, and the keeper to be one of its copies.
LockConflict(r) ==
  LET listed == {c \in conflicts : c.hash = resolver[r].hash /\ resolver[r].keep \in c.owners} IN
  /\ resolver[r].pc = "lock" /\ LockFree(r)
  /\ IF listed = {} THEN resolver' = [resolver EXCEPT ![r] = NoResolve] /\ UNCHANGED resolveLock
     ELSE \E c \in listed :
            /\ resolver' = [resolver EXCEPT ![r].pc = "local", ![r].conflict = c,
                                            ![r].left = c.owners \ {resolver[r].keep}]
            /\ resolveLock' = r
  /\ UNCHANGED <<own, theirs, known, conflicts, sweep, owed, done, sweepSpent>>

\* deleteByWhere: rows of the list that still have the conflict's hash and size.
DeleteLocal(r) ==
  LET losers == {i \in RowIds : <<"self", i>> \in resolver[r].left} IN
  /\ resolver[r].pc = "local"
  /\ own' = [i \in RowIds |-> IF i \in losers /\ own[i] = resolver[r].hash THEN NoRow ELSE own[i]]
  /\ resolver' = [resolver EXCEPT ![r].pc = "remote",
                                  ![r].left = {o \in @ : o[1] = "peer"}]
  /\ UNCHANGED <<theirs, known, conflicts, sweep, resolveLock, owed, done, sweepSpent>>

\* handlePeerFileDelete on the peer: by id, whatever the row holds now.
DeleteOnPeer(r, i) ==
  /\ resolver[r].pc = "remote" /\ <<"peer", i>> \in resolver[r].left
  /\ theirs[i] # NoRow
  /\ theirs' = [theirs EXCEPT ![i] = NoRow]
  /\ resolver' = [resolver EXCEPT ![r].left = @ \ {<<"peer", i>>}]
  /\ UNCHANGED <<own, known, conflicts, sweep, resolveLock, owed, done, sweepSpent>>

\* The peer refuses, or cannot be reached: the deletion is recorded.
EnqueuePeerDelete(r, i) ==
  /\ resolver[r].pc = "remote" /\ <<"peer", i>> \in resolver[r].left
  /\ theirs[i] = NoRow \/ sweepSpent.unreachable < MaxUnreachable
  /\ sweepSpent' = IF theirs[i] = NoRow THEN sweepSpent
                   ELSE [sweepSpent EXCEPT !.unreachable = @ + 1]
  /\ owed' = owed \cup {i}
  /\ resolver' = [resolver EXCEPT ![r].left = @ \ {<<"peer", i>>}]
  /\ UNCHANGED <<own, theirs, known, conflicts, sweep, resolveLock, done>>

\* Mutant: a resolved conflict stays listed until the next sweep.
KeptConflicts(r) == conflicts

\* DropConflict: by content, whichever sweep listed it.
RemainingConflicts(r) == {c \in conflicts : c.hash # resolver[r].hash}

DropConflict(r) ==
  /\ resolver[r].pc = "remote" /\ resolver[r].left = {}
  /\ conflicts' = RemainingConflicts(r)
  /\ done' = done \cup {[sweep |-> resolver[r].conflict.sweep, hash |-> resolver[r].hash,
                         keep |-> resolver[r].keep]}
  /\ resolver' = [resolver EXCEPT ![r] = NoResolve]
  /\ resolveLock' = NoOne
  /\ UNCHANGED <<own, theirs, known, sweep, owed, sweepSpent>>
-----------------------------------------------------------------------------
ResolveStep(r) ==
  \/ LockConflict(r) \/ DeleteLocal(r) \/ DropConflict(r)
  \/ \E i \in RowIds : DeleteOnPeer(r, i) \/ EnqueuePeerDelete(r, i)

SweepNext ==
  \/ \E i \in RowIds, h \in Hashes \cup {NoRow} : EditOwn(i, h) \/ EditTheirs(i, h)
  \/ RefreshKnown
  \/ FindDuplicates \/ SaveSweep \/ CancelSweep
  \/ \E r \in Resolvers, c \in conflicts : \E keep \in c.owners : AskResolve(r, c, keep)
  \/ \E r \in Resolvers : ResolveStep(r)

SweepSpec == SweepInit /\ [][SweepNext]_sweepVars
-----------------------------------------------------------------------------
(* Properties.                                                             *)

\* Shapes; the lock is held exactly by the resolve that deletes, and a conflict has two
\* copies at least.
SweepTypeOK ==
  /\ {own, theirs, known} \subseteq [RowIds -> Hashes \cup {NoRow}]
  /\ \A c \in conflicts : c.hash \in Hashes /\ Cardinality(c.owners) > 1
  /\ resolveLock \in Resolvers \cup {NoOne}
  /\ \A r \in Resolvers : resolver[r].pc \in {"local", "remote"} <=> resolveLock = r

\* One listing of a conflict is resolved with one keeper, whatever several operators choose:
\* the second one finds it gone, unless a sweep listed it again.
OneKeeperPerListing ==
  \A x, y \in done : x.sweep = y.sweep /\ x.hash = y.hash => x.keep = y.keep

\* "Refuse instead of deleting the last copy": a resolve leaves a copy of what it deletes.
LastCopyIsKept ==
  [][\A r \in Resolvers, h \in Hashes :
        /\ resolver[r].pc \in {"local", "remote"} /\ resolver[r].hash = h
        /\ resolver'[r].pc # "lock" /\ sweepSpent'.edits = sweepSpent.edits
        /\ Copies(h) # {}
        => (Copies(h) # {})']_sweepVars
=============================================================================
