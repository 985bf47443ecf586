--------------------------- MODULE RecoveryPromise ---------------------------
(***************************************************************************)
(* What the recovery of one failed payment promises, with no pipeline, no  *)
(* agent and no policy engine in it: a case is open until it ends, once;   *)
(* while it is open it may be charged and its customer contacted, each     *)
(* within a budget; the money is booked when, and only when, a charge or a *)
(* contact brings it in, and then the case is over.                        *)
(***************************************************************************)
EXTENDS Integers

CONSTANTS ChargeBudget,   \* charges the case may ever see
          ContactBudget   \* messages the customer may ever see

VARIABLES stage, due, charged, contacted, booked

vars == <<stage, due, charged, contacted, booked>>

Endings == {"recovered", "unrecovered", "refused", "human", "failed"}

Init ==
  /\ stage = "open"
  /\ due \in Nat
  /\ charged \in 0..ChargeBudget
  /\ contacted = 0
  /\ booked = 0

\* The customer pays because of this attempt, or the case stays open.
Settle ==
  \/ stage' = "open" /\ booked' = booked
  \/ stage' = "recovered" /\ booked' = due

Charge ==
  /\ stage = "open"
  /\ charged < ChargeBudget
  /\ charged' = charged + 1
  /\ Settle
  /\ UNCHANGED <<due, contacted>>

Contact ==
  /\ stage = "open"
  /\ contacted < ContactBudget
  /\ contacted' = contacted + 1
  /\ \/ Settle
     \/ stage' = "failed" /\ booked' = booked
  /\ UNCHANGED <<due, charged>>

GiveUp ==
  /\ stage = "open"
  /\ stage' \in {"unrecovered", "refused", "human"}
  /\ UNCHANGED <<due, charged, contacted, booked>>

Next == Charge \/ Contact \/ GiveUp

Safe == Init /\ [][Next]_vars
=============================================================================
