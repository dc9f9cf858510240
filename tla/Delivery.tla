------------------------------ MODULE Delivery ------------------------------
(***************************************************************************)
(* What the forward queue promises for each letter, a message that is      *)
(* owed to one destination: it is on its way at most once at a time, what  *)
(* was accepted is never handed out again by itself, a letter of unknown   *)
(* fate waits for the operator, and a success is for ever.                 *)
(***************************************************************************)
EXTENDS Naturals

CONSTANT Letters

VARIABLES
  phase,   \* Letter -> "due", "sending", "accepted", "unknown" or "done"
  copies,  \* Letter -> messages Telegram accepted
  leave    \* Letter -> resends the operator confirmed

deliveryVars == <<phase, copies, leave>>

Phases == {"due", "sending", "accepted", "unknown", "done"}

DeliveryTypeOK ==
  /\ phase \in [Letters -> Phases]
  /\ copies \in [Letters -> Nat] /\ leave \in [Letters -> Nat]

DeliveryInit ==
  /\ phase = [l \in Letters |-> "due"]
  /\ copies = [l \in Letters |-> 0] /\ leave = [l \in Letters |-> 0]

Moves(l, from, to) == phase[l] \in from /\ phase'[l] = to
Same(l) == copies'[l] = copies[l] /\ leave'[l] = leave[l]

Keep(l)    == phase'[l] = phase[l] /\ Same(l)
Send(l)    == Moves(l, {"due"}, "sending") /\ Same(l)
Accept(l)  == Moves(l, {"sending"}, "accepted") /\ copies'[l] = copies[l] + 1 /\ leave'[l] = leave[l]
Return(l)  == Moves(l, {"sending"}, "due") /\ Same(l)
Record(l)  == Moves(l, {"accepted"}, "done") /\ Same(l)
\* The answer or the process was lost, possibly before anything was sent.
Doubt(l)   == Moves(l, {"due", "sending", "accepted"}, "unknown") /\ Same(l)
Confirm(l) == Moves(l, {"unknown"}, "done") /\ Same(l)
\* The word for one destination stands when the others of its job are settled too.
Resend(l)  ==
  /\ phase[l] \in {"unknown", "due"} /\ phase'[l] \in {"unknown", "due"}
  /\ copies'[l] = copies[l] /\ leave'[l] = leave[l] + 1

\* One step may move the letters of a job, or of all jobs, together.
Move(l) ==
  \/ Keep(l) \/ Send(l) \/ Accept(l) \/ Return(l) \/ Record(l)
  \/ Doubt(l) \/ Confirm(l) \/ Resend(l)

DeliveryNext == DeliveryTypeOK' /\ \A l \in Letters : Move(l)

DeliverySpec == DeliveryInit /\ [][DeliveryNext]_deliveryVars
-----------------------------------------------------------------------------
\* Telegram accepts a letter once, and once more for each resend the operator confirmed.
AcceptedByLeave == \A l \in Letters : copies[l] <= leave[l] + 1

\* What is free to be sent has arrived in no copy but those the operator asked for again.
DueIsUndelivered == \A l \in Letters : phase[l] \in {"due", "sending"} => copies[l] <= leave[l]
=============================================================================
