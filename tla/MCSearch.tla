------------------------------ MODULE MCSearch ------------------------------
(***************************************************************************)
(* Small instances of Search for TLC: one tree with room for more repairs  *)
(* than it may make, or two trees that share its protocols.                *)
(***************************************************************************)
EXTENDS Search, TLC

CONSTANTS t1, t2, t3, p1, p2

\* The second protocol amends the first.
Amendment == p1 :> None @@ p2 :> p1

RunLimits == p1 :> 1 @@ p2 :> 2

\* The deep tree can pay one attempt at either protocol, but not both at once; a
\* failed attempt may be debugged under the amendment and retried there.
UnequalPolicy ==
    LET deep == [budget |-> 5, max_nodes |-> 4, max_depth |-> 2, max_width |-> 2,
                 max_selections |-> 3, max_retries |-> 2, max_inflight |-> 2]
        flat == [deep EXCEPT !.max_nodes = 2, !.max_retries = 1]
    IN  t1 :> deep @@ t2 :> flat @@ t3 :> flat

UnevenCosts == p1 :> {5} @@ p2 :> {1}

\* The deep tree alone, or the other two.
OneOrTwo == { t1 :> 4 @@ t2 :> 0 @@ t3 :> 0, t1 :> 0 @@ t2 :> 1 @@ t3 :> 1 }

=============================================================================
