----------------------------- MODULE MCWorkQueue -----------------------------
(***************************************************************************)
(* Finite instances of WorkQueue for TLC.                                  *)
(***************************************************************************)
EXTENDS WorkQueue

Msg(a, o, v, p, i, rep) ==
    [account |-> a, origin |-> o, version |-> v, pts |-> p, identity |-> i,
     ttl |-> FALSE, repair |-> rep]

\* One attachment seen live, edited, and asked for by an explicit request.
RestartMessages ==
    {Msg("a1", "live", 1, 1, "i1", FALSE), Msg("a1", "live", 2, 2, "i1", FALSE),
     Msg("a1", "url", 1, 0, "i1", TRUE)}

\* One attachment seen live, then asked for by URL.
ProgressMessages ==
    {Msg("a1", "live", 1, 1, "i1", FALSE), Msg("a1", "url", 1, 0, "i1", TRUE)}
=============================================================================
