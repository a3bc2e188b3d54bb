------------------------------ MODULE MCLocked ------------------------------
(***************************************************************************)
(* A small instance of Locked for TLC.                                     *)
(***************************************************************************)
EXTENDS Locked, TLC

CONSTANTS o, p, c1, c2, w1, w2, w3, v1, v2

Symmetry == Permutations({c1, c2}) \cup Permutations({w1, w2, w3})

=============================================================================
