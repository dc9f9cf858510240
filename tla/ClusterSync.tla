----------------------------- MODULE ClusterSync -----------------------------
(***************************************************************************)
(* The catalog one instance publishes to a paired one, and the copy the    *)
(* other keeps of it (cluster/changes.go, cluster/sync.go, Revoke of       *)
(* cluster/store.go, syncCluster of app/cluster_sync.go).                  *)
(*                                                                         *)
(* Triggers keep one entry per download id with the revision of its last   *)
(* change; a deletion leaves a tombstone.  The receiver asks for the pages *)
(* after its cursor and saves each page with the cursor in one             *)
(* transaction.  A row is abstracted to its content.                       *)
(***************************************************************************)
EXTENDS Naturals, FiniteSets, FiniteSetsExt

CONSTANTS
  DownloadIds,        \* ids of the source's downloads rows
  Contents,   \* what a row may hold
  Gone,       \* no row, or a row without a file
  PageSize,   \* entries of a page
  PassPages,  \* pages one peer is given per pass
  \* Bounds of the model only.
  MaxChanges, MaxSourceRestores, MaxSyncFailures, MaxPairings

ASSUME SyncAssumption ==
  /\ Gone \notin Contents /\ IsFiniteSet(DownloadIds)
  /\ {PageSize, PassPages, MaxPairings} \subseteq Nat \ {0}
  /\ {MaxChanges, MaxSourceRestores, MaxSyncFailures} \subseteq Nat

VARIABLES
  published,  \* the source's downloads: id -> content
  feed,       \* tgdl_cluster_catalog: id -> [rev, item], rev 0 without an entry
  head,       \* tgdl_cluster_revision
  epoch,      \* cluster_catalog_epoch
  archive,    \* a snapshot of the source's database
  pairing,    \* the secret both sides hold, 0 once the receiver revoked the peer
  cached,     \* the receiver's peer_downloads: id -> content
  cursor,     \* the receiver's cluster_sync_state: [epoch, rev]
  pass,       \* the receiver's SyncPeer
  syncSpent   \* bounds used

source == <<published, feed, head, epoch>>
receiver == <<cached, cursor>>
syncVars == <<published, feed, head, epoch, archive, pairing, cached, cursor, pass, syncSpent>>

NoCursor == [epoch |-> 0, rev |-> 0]
Nothing == [i \in DownloadIds |-> Gone]
NoPage == [epoch |-> 0, reset |-> FALSE, entries |-> {}, next |-> 0, head |-> 0]
NoPass == [pc |-> "idle", pairing |-> 0, at |-> NoCursor, page |-> NoPage, left |-> 0]

SyncInit ==
  /\ published = Nothing /\ feed = [i \in DownloadIds |-> [rev |-> 0, item |-> Gone]]
  /\ head = 0 /\ epoch = 1
  /\ archive = [published |-> published, feed |-> feed, head |-> head]
  /\ pairing = 1 /\ cached = Nothing /\ cursor = NoCursor
  /\ pass = NoPass
  /\ syncSpent = [changes |-> 0, restores |-> 0, failures |-> 0, pairings |-> 1]
-----------------------------------------------------------------------------
(* The source.                                                             *)

\* The triggers of downloads, in the transaction of the change itself.
Change(i, item) ==
  /\ published[i] # item /\ syncSpent.changes < MaxChanges
  /\ published' = [published EXCEPT ![i] = item]
  /\ head' = head + 1
  /\ feed' = [feed EXCEPT ![i] = [rev |-> head + 1, item |-> item]]
  /\ syncSpent' = [syncSpent EXCEPT !.changes = @ + 1]
  /\ UNCHANGED <<epoch, archive, pairing, receiver, pass>>

\* Mutant: the update trigger sees the new id only.
RekeyedOnce(i, j) == [feed EXCEPT ![j] = [rev |-> head + 2, item |-> published[i]]]

\* The new id is an update, the old one a tombstone.
Rekeyed(i, j) ==
  [feed EXCEPT ![j] = [rev |-> head + 1, item |-> published[i]],
               ![i] = [rev |-> head + 2, item |-> Gone]]

\* A row gets another id.
Rekey(i, j) ==
  /\ published[i] # Gone /\ published[j] = Gone /\ i # j /\ syncSpent.changes < MaxChanges
  /\ published' = [published EXCEPT ![j] = published[i], ![i] = Gone]
  /\ head' = head + 2
  /\ feed' = Rekeyed(i, j)
  /\ syncSpent' = [syncSpent EXCEPT !.changes = @ + 1]
  /\ UNCHANGED <<epoch, archive, pairing, receiver, pass>>

TakeSnapshot ==
  /\ syncSpent.restores < MaxSourceRestores
  /\ archive.head # head
  /\ archive' = [published |-> published, feed |-> feed, head |-> head]
  /\ UNCHANGED <<source, pairing, receiver, pass, syncSpent>>

\* Mutant: a restored database keeps its epoch.
EpochKept == epoch

\* RotateCatalogEpoch, before a restored database is published.
NextEpoch == epoch + 1

RestoreSource ==
  /\ syncSpent.restores < MaxSourceRestores
  /\ published' = archive.published /\ feed' = archive.feed /\ head' = archive.head
  /\ epoch' = NextEpoch
  /\ syncSpent' = [syncSpent EXCEPT !.restores = @ + 1]
  /\ UNCHANGED <<archive, pairing, receiver, pass>>

\* Changes: entries after the receiver's revision, or all of them when it read another history.
PageAfter(at) ==
  LET reset == at.epoch # epoch \/ at.rev > head
      after == IF reset THEN 0 ELSE at.rev
      later == {i \in DownloadIds : feed[i].rev > after}
      ids   == {i \in later : Cardinality({j \in later : feed[j].rev < feed[i].rev}) < PageSize}
  IN [epoch |-> epoch, reset |-> reset, head |-> head,
      entries |-> {[id |-> i, rev |-> feed[i].rev, item |-> feed[i].item] : i \in ids},
      next |-> Max({after} \cup {feed[i].rev : i \in ids})]
-----------------------------------------------------------------------------
(* The receiver: one pass at a time (clusterSyncMu), any number of rounds. *)

\* syncCluster reads the peers, SyncPeer then its cursor.
StartPass ==
  /\ pass.pc = "idle" /\ pairing # 0
  /\ pass' = [NoPass EXCEPT !.pc = "load", !.pairing = pairing, !.left = PassPages]
  /\ UNCHANGED <<source, archive, pairing, receiver, syncSpent>>

LoadCursor ==
  /\ pass.pc = "load"
  /\ pass' = [pass EXCEPT !.pc = "ask", !.at = cursor]
  /\ UNCHANGED <<source, archive, pairing, receiver, syncSpent>>

\* The source answers a request signed with the current secret, and refuses any other.
AskChanges ==
  /\ pass.pc = "ask"
  /\ pass' = IF pass.pairing = pairing
             THEN [pass EXCEPT !.pc = "save", !.page = PageAfter(pass.at)]
             ELSE NoPass
  /\ UNCHANGED <<source, archive, pairing, receiver, syncSpent>>

\* Mutant: the saved page is not checked against the registry.
AnyPeer == TRUE

\* checkPeer: the peer is registered as when the pass began.
SamePeer == pass.pairing = pairing

\* Mutant: a reset page is merged into what the cache holds.
MergedCache(page) == cached

\* A reset forgets the rows of the other history.
ResetCache(page) == IF page.reset THEN Nothing ELSE cached

AppliedPage(page) ==
  [i \in DownloadIds |->
     IF \E e \in page.entries : e.id = i
     THEN (CHOOSE e \in page.entries : e.id = i).item ELSE ResetCache(page)[i]]

\* SaveChanges: rows, reset and cursor in one transaction, if nothing moved meanwhile.
SaveChanges ==
  LET page == pass.page
      more == page.next < page.head IN
  /\ pass.pc = "save"
  /\ IF SamePeer /\ cursor = pass.at
     THEN /\ cached' = AppliedPage(page)
          /\ cursor' = [epoch |-> page.epoch, rev |-> page.next]
          /\ pass' = IF more /\ pass.left > 1
                     THEN [pass EXCEPT !.pc = "ask", !.at = cursor', !.page = NoPage,
                                       !.left = @ - 1]
                     ELSE NoPass
     ELSE pass' = NoPass /\ UNCHANGED receiver
  /\ UNCHANGED <<source, archive, pairing, syncSpent>>

\* An unreachable peer, a deadline, or the process ends: only what was committed stays.
PassFails ==
  /\ pass.pc # "idle" /\ syncSpent.failures < MaxSyncFailures
  /\ pass' = NoPass
  /\ syncSpent' = [syncSpent EXCEPT !.failures = @ + 1]
  /\ UNCHANGED <<source, archive, pairing, receiver>>

\* Revoke: the peer, its cached rows and its cursor in one transaction.
Revoke ==
  /\ pairing # 0
  /\ pairing' = 0 /\ cached' = Nothing /\ cursor' = NoCursor
  /\ UNCHANGED <<source, archive, pass, syncSpent>>

\* Pairing again installs a new secret; of a registered peer it keeps cache and cursor.
PairAgain ==
  /\ syncSpent.pairings < MaxPairings
  /\ pairing' = syncSpent.pairings + 1
  /\ syncSpent' = [syncSpent EXCEPT !.pairings = @ + 1]
  /\ UNCHANGED <<source, archive, receiver, pass>>
-----------------------------------------------------------------------------
PassStep == StartPass \/ LoadCursor \/ AskChanges \/ SaveChanges

SyncNext ==
  \/ \E i \in DownloadIds, item \in Contents \cup {Gone} : Change(i, item)
  \/ \E i, j \in DownloadIds : Rekey(i, j)
  \/ TakeSnapshot \/ RestoreSource
  \/ PassStep \/ PassFails
  \/ Revoke \/ PairAgain

\* A pass is started every 30 seconds (runClusterSync).
SyncSpec == SyncInit /\ [][SyncNext]_syncVars /\ WF_syncVars(PassStep)
-----------------------------------------------------------------------------
(* Properties.                                                             *)

\* Shapes of the source's and the receiver's state; the catalog describes the rows, at revisions the counter has reached.
SyncTypeOK ==
  /\ published \in [DownloadIds -> Contents \cup {Gone}] /\ cached \in [DownloadIds -> Contents \cup {Gone}]
  /\ feed \in [DownloadIds -> [rev : Nat, item : Contents \cup {Gone}]]
  /\ head \in Nat /\ epoch \in Nat \ {0} /\ pairing \in 0..MaxPairings
  /\ cursor \in [epoch : 0..epoch, rev : Nat]
  /\ pass.pc \in {"idle", "load", "ask", "save"} /\ pass.left \in 0..PassPages
  /\ \A i \in DownloadIds : feed[i].item = published[i] /\ feed[i].rev <= head

\* The copy agrees with every entry of the catalog up to the cursor, and has nothing the
\* catalog never had: no page is skipped, merged into another history or applied twice,
\* whatever the source, the registry and the pass do between two pages.
CachedAsOfCursor ==
  cursor.epoch = epoch =>
    \A i \in DownloadIds : feed[i].rev <= cursor.rev => cached[i] = feed[i].item

\* A revoked peer leaves no rows: a page that was on its way does not bring them back.
RevokedIsForgotten == pairing = 0 => cached = Nothing /\ cursor = NoCursor

\* Liveness: when the source and the registry come to rest, the copy becomes the catalog.
CatalogConverges == <>[](pairing # 0 => cached = published)

\* The copy is the catalog as of its cursor, and nothing of a revoked peer.
CopyFollowsCatalog == CachedAsOfCursor /\ RevokedIsForgotten
=============================================================================
