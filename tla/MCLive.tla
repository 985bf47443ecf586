------------------------------- MODULE MCLive -------------------------------
(***************************************************************************)
(* Finite instances of LiveRecovery.                                       *)
(***************************************************************************)
EXTENDS LiveRecovery, TLC
CONSTANTS p1, p2, w1, w2, h1, h2, c1
OneContact == [p \in Payments |-> c1]
NoContacts == [p \in Payments |-> NoContact]
Symmetry == Permutations({h1, h2})
=============================================================================
