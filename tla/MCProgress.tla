----------------------------- MODULE MCProgress -----------------------------
(***************************************************************************)
(* Work that must end, for TLC: forwards, sprites of the sidecar's pool,   *)
(* face scans and NSFW scans.  The parts share no state: a behaviour is of *)
(* the part its first state names, so that their state spaces add instead  *)
(* of multiplying.                                                         *)
(***************************************************************************)
EXTENDS ForwardQueue, SpritePool, FaceScan, NsfwScan, CloudUploads

CONSTANT Parts

VARIABLE part

progressVars == <<vars, poolVars, faceVars, nsfwVars, cloudVars, part>>

ProgressInit ==
  /\ part \in Parts /\ Init /\ PoolInit /\ FaceInit /\ NsfwInit /\ CloudInit
  /\ part # "cloud" => service = "drive"

ProgressNext ==
  /\ UNCHANGED part
  /\ IF part = "forward" THEN Next ELSE UNCHANGED vars
  /\ IF part = "pool" THEN PoolNext ELSE UNCHANGED poolVars
  /\ IF part = "faces" THEN FaceNext ELSE UNCHANGED faceVars
  /\ IF part = "nsfw" THEN NsfwNext ELSE UNCHANGED nsfwVars
  /\ IF part = "cloud" THEN CloudNext ELSE UNCHANGED cloudVars

\* The fairness of each part, for the behaviours of that part
ProgressFairness ==
  /\ \A w \in Workers : WF_vars(part = "forward" /\ WorkerStep(w))
  /\ \A j \in Jobs : WF_vars(part = "forward" /\ BackoffEnds(j))
  /\ WF_vars(part = "forward" /\ FloodEnds)
  /\ WF_poolVars(part = "pool" /\ PoolStep)
  /\ WF_faceVars(part = "faces" /\ ScanStep)
  /\ WF_nsfwVars(part = "nsfw" /\ SweepStep)
  /\ WF_cloudVars(part = "cloud" /\ CloudStep)

ProgressSpec == ProgressInit /\ [][ProgressNext]_progressVars /\ ProgressFairness

=============================================================================
