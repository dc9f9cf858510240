--------------------------- MODULE Delivery_proofs ---------------------------
(***************************************************************************)
(* The promise of Delivery bounds what is accepted, for any set of letters. *)
(***************************************************************************)
EXTENDS Delivery, TLAPS

DeliveryInv == DeliveryTypeOK /\ AcceptedByLeave /\ DueIsUndelivered

\* A move of one letter keeps what the invariant says of it.
LEMMA MoveKeepsLetter ==
  ASSUME NEW l \in Letters, Move(l), copies[l] \in Nat, leave[l] \in Nat,
         copies[l] <= leave[l] + 1, phase[l] \in {"due", "sending"} => copies[l] <= leave[l]
  PROVE  /\ copies'[l] <= leave'[l] + 1
         /\ phase'[l] \in {"due", "sending"} => copies'[l] <= leave'[l]
<1>1. CASE Keep(l) BY <1>1 DEF Keep, Same
<1>2. CASE Send(l) BY <1>2 DEF Send, Moves, Same
<1>3. CASE Accept(l) BY <1>3 DEF Accept, Moves
<1>4. CASE Return(l) BY <1>4 DEF Return, Moves, Same
<1>5. CASE Record(l) BY <1>5 DEF Record, Moves, Same
<1>6. CASE Doubt(l) BY <1>6 DEF Doubt, Moves, Same
<1>7. CASE Confirm(l) BY <1>7 DEF Confirm, Moves, Same
<1>8. CASE Resend(l) BY <1>8 DEF Resend
<1> QED BY <1>1, <1>2, <1>3, <1>4, <1>5, <1>6, <1>7, <1>8 DEF Move

\* Nothing is accepted beyond one message and the confirmed resends, and what may still be
\* sent has not arrived: whatever implements Delivery inherits both.
THEOREM AcceptedOnce == DeliverySpec => [](AcceptedByLeave /\ DueIsUndelivered)
<1>1. DeliveryInit => DeliveryInv
  BY DEF DeliveryInit, DeliveryInv, DeliveryTypeOK, AcceptedByLeave, DueIsUndelivered, Phases
<1>2. DeliveryInv /\ [DeliveryNext]_deliveryVars => DeliveryInv'
  <2> SUFFICES ASSUME DeliveryInv, [DeliveryNext]_deliveryVars PROVE DeliveryInv'
    OBVIOUS
  <2>1. CASE UNCHANGED deliveryVars
    BY <2>1 DEF DeliveryInv, DeliveryTypeOK, AcceptedByLeave, DueIsUndelivered, deliveryVars
  <2>2. CASE DeliveryNext
    <3>1. DeliveryTypeOK' BY <2>2 DEF DeliveryNext
    <3>2. ASSUME NEW l \in Letters
          PROVE  /\ copies'[l] <= leave'[l] + 1
                 /\ phase'[l] \in {"due", "sending"} => copies'[l] <= leave'[l]
      <4>1. Move(l) BY <2>2 DEF DeliveryNext
      <4>2. /\ copies[l] \in Nat /\ leave[l] \in Nat /\ copies[l] <= leave[l] + 1
            /\ phase[l] \in {"due", "sending"} => copies[l] <= leave[l]
        BY DEF DeliveryInv, DeliveryTypeOK, AcceptedByLeave, DueIsUndelivered
      <4> QED BY <4>1, <4>2, MoveKeepsLetter
    <3> QED BY <3>1, <3>2 DEF DeliveryInv, AcceptedByLeave, DueIsUndelivered
  <2> QED BY <2>1, <2>2 DEF DeliveryNext
<1>3. DeliveryInv => AcceptedByLeave /\ DueIsUndelivered BY DEF DeliveryInv
<1> QED BY <1>1, <1>2, <1>3, PTL DEF DeliverySpec
=============================================================================
