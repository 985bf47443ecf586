------------------------------ MODULE MCLedger ------------------------------
(***************************************************************************)
(* Finite instances of CaseLedger.                                         *)
(***************************************************************************)
EXTENDS CaseLedger, TLC
CONSTANTS p1, p2, p3, r1, r2, w1, m1, m2
Symmetry == Permutations({r1, r2}) \cup Permutations({m1, m2})
=============================================================================
