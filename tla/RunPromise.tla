------------------------------ MODULE RunPromise ------------------------------
(***************************************************************************)
(* RecoveryPromise for many failed payments, one moving at a time.  Some   *)
(* are paid by their customers unprompted: those are neither charged nor   *)
(* reminded, and their money is booked as it comes.  Some may have ended   *)
(* before, and stay as they were left.                                     *)
(***************************************************************************)
EXTENDS Integers

CONSTANTS ChargeBudget, ContactBudget

VARIABLES unprompted,   \* the payments whose customers pay unprompted
          stage, due, charged, contacted, booked   \* as there, per payment

vars == <<unprompted, stage, due, charged, contacted, booked>>
Numbers == DOMAIN stage

Init ==
  /\ unprompted \subseteq Numbers
  /\ \A p \in Numbers :
       /\ due[p] \in Nat
       /\ charged[p] \in 0..ChargeBudget
       /\ contacted[p] \in 0..ContactBudget
       /\ stage[p] = "open" => contacted[p] = 0
       /\ p \in unprompted => stage[p] \in {"open", "recovered"} /\ contacted[p] = 0
       /\ booked[p] = IF stage[p] = "recovered" THEN due[p] ELSE 0

PaysUnprompted(p) ==
  /\ stage'[p] = "recovered"
  /\ booked'[p] = due[p]
  /\ UNCHANGED <<charged[p], contacted[p]>>

Settle(p) ==
  \/ stage'[p] = "open" /\ booked'[p] = booked[p]
  \/ stage'[p] = "recovered" /\ booked'[p] = due[p]

Charge(p) ==
  /\ charged[p] < ChargeBudget
  /\ charged'[p] = charged[p] + 1
  /\ Settle(p)
  /\ UNCHANGED contacted[p]

Contact(p) ==
  /\ contacted[p] < ContactBudget
  /\ contacted'[p] = contacted[p] + 1
  /\ \/ Settle(p)
     \/ stage'[p] = "failed" /\ booked'[p] = booked[p]
  /\ UNCHANGED charged[p]

GiveUp(p) ==
  /\ stage'[p] \in {"unrecovered", "refused", "human"}
  /\ UNCHANGED <<charged[p], contacted[p], booked[p]>>

Moves(p) ==
  /\ stage[p] = "open"
  /\ IF p \in unprompted THEN PaysUnprompted(p)
     ELSE Charge(p) \/ Contact(p) \/ GiveUp(p)

\* The others stay as they are.
Stays(q) == UNCHANGED <<stage[q], charged[q], contacted[q], booked[q]>>

Next ==
  \E p \in Numbers :
    /\ Moves(p)
    /\ \A q \in Numbers \ {p} : Stays(q)
    /\ UNCHANGED <<Numbers, unprompted, due>>

Safe == Init /\ [][Next]_vars
=============================================================================
