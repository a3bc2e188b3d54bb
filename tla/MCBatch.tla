------------------------------ MODULE MCBatch -------------------------------
(***************************************************************************)
(* Small instances of Batch for TLC.                                       *)
(***************************************************************************)
EXTENDS Batch, TLC

CONSTANTS s1, s2, b1, b2, p1, p2, c1, c2

\* Both selections compete for one protocol.
SameProtocol == b1 :> p1 @@ b2 :> p1

OneSelection == b1 :> p1

=============================================================================
