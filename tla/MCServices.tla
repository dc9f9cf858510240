----------------------------- MODULE MCServices -----------------------------
(***************************************************************************)
(* The services beside the download engine, for TLC.  The parts share no   *)
(* state: a behaviour is of the part its first state names, so that their  *)
(* state spaces add instead of multiplying.                                *)
(***************************************************************************)
EXTENDS ClusterSweep, ClusterPairing, McpControl, SpriteJobs, SpritePool, FaceScan, NsfwScan,
        Dbscan, Accounts, CloudUploads, FileUploads, Dialogs, LiveForward

CONSTANT Parts

VARIABLE part

servicesVars == <<sweepVars, pairingVars, mcpVars, spriteVars, poolVars, faceVars, nsfwVars, dbscanVars,
                  accountVars, cloudVars, putVars, dialogVars, liveVars, part>>

ServicesInit ==
  /\ part \in Parts
  /\ SweepInit /\ PairingInit /\ McpInit /\ SpriteInit /\ PoolInit /\ FaceInit /\ NsfwInit
  /\ AccountsInit /\ CloudInit /\ PutInit /\ DialogsInit /\ LiveInit
  /\ part # "sweep" => own = NoRows /\ theirs = NoRows
  /\ part # "live" => custom = {}
  /\ part # "cloud" => service = "drive"
  /\ part # "files" => store = "local" /\ canReplace
  /\ IF part = "dbscan" THEN DbscanInit
     ELSE DbscanBegins({{}}) /\ minPts = Least(MinPoints) /\ batchMax = Least(BatchSizes)

ServicesNext ==
  /\ UNCHANGED part
  /\ IF part = "sweep" THEN SweepNext ELSE UNCHANGED sweepVars
  /\ IF part = "pairing" THEN PairingNext ELSE UNCHANGED pairingVars
  /\ IF part = "mcp" THEN McpNext ELSE UNCHANGED mcpVars
  /\ IF part = "sprites" THEN SpriteNext ELSE UNCHANGED spriteVars
  /\ IF part = "pool" THEN PoolNext ELSE UNCHANGED poolVars
  /\ IF part = "faces" THEN FaceNext ELSE UNCHANGED faceVars
  /\ IF part = "nsfw" THEN NsfwNext ELSE UNCHANGED nsfwVars
  /\ IF part = "dbscan" THEN DbscanNext ELSE UNCHANGED dbscanVars
  /\ IF part = "accounts" THEN AccountsNext ELSE UNCHANGED accountVars
  /\ IF part = "cloud" THEN CloudNext ELSE UNCHANGED cloudVars
  /\ IF part = "files" THEN PutNext ELSE UNCHANGED putVars
  /\ IF part = "dialogs" THEN DialogsNext ELSE UNCHANGED dialogVars
  /\ IF part = "live" THEN LiveNext ELSE UNCHANGED liveVars

ServicesSpec == ServicesInit /\ [][ServicesNext]_servicesVars




=============================================================================
