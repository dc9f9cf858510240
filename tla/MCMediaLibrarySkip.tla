------------------------- MODULE MCMediaLibrarySkip -------------------------
(***************************************************************************)
(* Ingestion without fault, and the monitor that feeds it, for TLC: they   *)
(* share no state, and a behaviour is of the part its first state names.   *)
(***************************************************************************)
EXTENDS MCMediaLibrary, MonitorControl

VARIABLE part

SkipInit ==
  /\ part \in {"library", "monitor"} /\ Init /\ MonitorInit
  /\ part # "monitor" => ~autoStart

SkipNext ==
  /\ UNCHANGED part
  /\ IF part = "library" THEN Next ELSE UNCHANGED vars
  /\ IF part = "monitor" THEN MonitorNext ELSE UNCHANGED monitorVars

SkipSpec ==
  /\ SkipInit /\ [][SkipNext]_<<vars, monitorVars, part>>
  /\ WF_vars(part = "library" /\ Recover)
  /\ \A w \in Workers : WF_vars(part = "library" /\ Work(w))
  /\ WF_monitorVars(part = "monitor" /\ \E x \in Actors : ActorStep(x))
  /\ WF_monitorVars(part = "monitor" /\ WatchdogTick)
  /\ WF_monitorVars(part = "monitor" /\ \E x \in Actors : TakeOp(x))
  /\ WF_monitorVars(part = "monitor" /\ closer > 0 /\ CloseStep)
=============================================================================
