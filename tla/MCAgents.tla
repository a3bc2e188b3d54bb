------------------------------ MODULE MCAgents ------------------------------
(***************************************************************************)
(* A small instance of Agents for TLC: two budgets of one call, one tree   *)
(* with room for two nodes.                                                *)
(***************************************************************************)
EXTENDS Agents, TLC

CONSTANTS b1, b2, t1, c1, c2

OneCallEach == b1 :> 1 @@ b2 :> 1

\* A clean proposal, and one whose file differs from the provider's message.
MCCompletion ==
    { [transport |-> "completed", sound |-> TRUE, answer |-> "proposed", same |-> TRUE],
      [transport |-> "completed", sound |-> TRUE, answer |-> "proposed", same |-> FALSE] }

Symmetry == Permutations({c1, c2}) \cup Permutations({b1, b2})

=============================================================================
