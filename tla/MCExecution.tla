---------------------------- MODULE MCExecution -----------------------------
(***************************************************************************)
(* Small instances of Execution for TLC.                                   *)
(***************************************************************************)
EXTENDS Execution, TLC

CONSTANTS j1, j2, t1, t2, c1, c2, w1, w2

MCToken == {t1, t2}
MCController == {c1, c2}
MCWorker == {w1, w2}

Symmetry == Permutations(MCToken) \cup Permutations(MCController) \cup Permutations(MCWorker)

SymmetryJobs == Symmetry \cup Permutations({j1, j2})

=============================================================================
