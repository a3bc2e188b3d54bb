------------------------------- MODULE Search -------------------------------
(***************************************************************************)
(* Bounded experiment search: src/episteme/search.py, with the runs of     *)
(* src/episteme/kernel.py that settle its selections.                      *)
(*                                                                         *)
(* A tree freezes a policy: a budget and bounds on nodes, depth, width,    *)
(* selections, open selections and technical retries.  A node proposes one *)
(* attempt at a protocol; selecting it reserves its estimated cost, and a  *)
(* terminal replaces the reservation by the real cost and, if the attempt  *)
(* was run, cites the run.  Nothing ties a run to a selection when it is   *)
(* started: whoever has the role may start runs of a protocol at any time, *)
(* and trees do not know of one another.                                   *)
(*                                                                         *)
(* Every command is one atomic step (EventStore.tla).  A node is selected  *)
(* at most once, so it stands for its selection too; decisions to wait or  *)
(* to stop change nothing here.  Scores rank the frontier and are left     *)
(* out: any eligible node may be chosen.  Selections that a batch settles  *)
(* are Batch.tla's.                                                        *)
(***************************************************************************)
EXTENDS Integers, Sequences, FiniteSets

CONSTANTS
    Tree,           \* registered search trees
    Policy,         \* per tree: the bounds that register_tree froze
    Protocol,       \* registered protocols
    Amends,         \* per protocol: the protocol it amends, or None
    RunLimit,       \* per protocol: the number of runs it admits
    Verdict,        \* how runs may end; bounded for TLC
    Estimate,       \* per protocol: what planners expect an attempt to cost
    Cost,           \* what attempts really cost; bounded for TLC
    MaxNodes,       \* bounds of the model: proposals per tree stay within one of them
    None            \* no parent, no run, no original, no amended protocol

ASSUME SearchAssumption ==
    /\ Policy \in [Tree -> [budget : Nat, max_nodes : Nat, max_depth : Nat, max_width : Nat,
                            max_selections : Nat, max_retries : Nat, max_inflight : Nat]]
    /\ Amends \in [Protocol -> Protocol \cup {None}]
    /\ RunLimit \in [Protocol -> Nat]
    /\ Verdict \subseteq {"completed", "failed", "cancelled"}
    /\ Estimate \in [Protocol -> SUBSET (Nat \ {0})]
    /\ Cost \subseteq Nat
    /\ MaxNodes \subseteq [Tree -> Nat]
    /\ None \notin Nat

VARIABLES
    nodes,      \* the proposals in the order of the log, each with its selection
    runs        \* the runs in the order of the log, each with its result

vars == <<nodes, runs>>

-----------------------------------------------------------------------------

\* "baseline" stands for every scientific action.
Action == {"baseline", "replicate", "debug", "retry"}

Technical == {"debug", "retry"}

Terminal == {"completed", "failed", "cancelled"}

Node == [tree : Tree, parent : Nat \cup {None}, protocol : Protocol, action : Action,
         depth : Nat, root : Nat, mode : {"primary", "replicate"}, eligible : BOOLEAN,
         estimate : Nat, state : {"pending", "selected"} \cup Terminal,
         since : Nat, run : Nat \cup {None}, cost : Cost \cup {0}]

Run == [protocol : Protocol, original : Nat \cup {None}, status : {"running"} \cup Terminal]

NodeId == DOMAIN nodes

RunId == DOMAIN runs

NodesOf(t) == {n \in NodeId : nodes[n].tree = t}

Selected(t) == {n \in NodesOf(t) : nodes[n].state = "selected"}

Settled(t) == {n \in NodesOf(t) : nodes[n].state \in Terminal}

RunsOf(p) == {r \in RunId : runs[r].protocol = p}

Primaries(p) == {r \in RunsOf(p) : runs[r].original = None /\ runs[r].status = "completed"}

\* _projection: exact sums over reservations and terminals, counted unit by unit.
Units(n, lo, hi) == {n} \X (lo .. hi)

ReservedUnits(t) == UNION {Units(n, 1, nodes[n].estimate) : n \in Selected(t)}

SpentUnits(t) == UNION {Units(n, 1, nodes[n].cost) : n \in Settled(t)}

OverrunUnits(t) == UNION {Units(n, nodes[n].estimate + 1, nodes[n].cost) : n \in Settled(t)}

Reserved(t) == Cardinality(ReservedUnits(t))

Spent(t) == Cardinality(SpentUnits(t))

Overrun(t) == Cardinality(OverrunUnits(t))

Remaining(t) == Policy[t].budget - Spent(t) - Reserved(t)

\* The technical nodes whose lineage starts at the node "root".
Repairs(root) == {n \in NodeId : nodes[n].action \in Technical /\ nodes[n].root = root}

Init == nodes = << >> /\ runs = << >>

-----------------------------------------------------------------------------
\* add_node

\* Mutant: the bound is on the length of the chain of retries.
RetryAllowedByDepth(t, parent) ==
    nodes[parent].depth - nodes[nodes[parent].root].depth < Policy[t].max_retries

\* Every repair ever proposed in the lineage counts, siblings included.
RetryAllowed(t, parent) == Cardinality(Repairs(nodes[parent].root)) < Policy[t].max_retries

\* What each action asks of its parent and its protocol.
Admissible(t, parent, p, action) ==
    CASE action \in Technical ->
           /\ parent # None
           /\ nodes[parent].state = "failed"
           /\ RetryAllowed(t, parent)
           /\ \/ p = nodes[parent].protocol
              \/ action = "debug" /\ Amends[p] = nodes[parent].protocol
      [] action = "replicate" -> Primaries(p) # {}
      [] action = "baseline" -> RunsOf(p) = {}

MayAdd(t, parent, p, action) ==
    /\ Cardinality(NodesOf(t)) < Policy[t].max_nodes
    /\ Cardinality({n \in NodesOf(t) : nodes[n].parent = parent}) < Policy[t].max_width
    /\ parent # None =>
         /\ parent \in Settled(t)
         /\ nodes[parent].depth + 1 =< Policy[t].max_depth
    /\ Admissible(t, parent, p, action)
    /\ \A n \in NodesOf(t) : nodes[n].protocol = p /\ nodes[n].action = action =>
         nodes[n].state \in Terminal

\* Mutant: a retry is evidence unless it is itself a debug attempt.
EvidenceOfAction(parent, action) == action # "debug"

\* Debug attempts are no evidence, and neither is a retry of one.
Evidence(parent, action) ==
    IF action = "retry" THEN nodes[parent].eligible ELSE action # "debug"

Mode(parent, action) ==
    CASE action = "retry" -> nodes[parent].mode
      [] action = "replicate" -> "replicate"
      [] OTHER -> "primary"

\* _technical_root: the attempt that a repair is meant to repair.
Root(parent, action) == IF action \in Technical THEN nodes[parent].root ELSE Len(nodes) + 1

AddNode(t, parent, p, action, estimate) ==
    /\ MayAdd(t, parent, p, action)
    /\ nodes' = Append(nodes,
         [tree |-> t, parent |-> parent, protocol |-> p, action |-> action,
          depth |-> IF parent = None THEN 0 ELSE nodes[parent].depth + 1,
          root |-> Root(parent, action), mode |-> Mode(parent, action),
          eligible |-> Evidence(parent, action), estimate |-> estimate,
          state |-> "pending", since |-> 0, run |-> None, cost |-> 0])
    /\ UNCHANGED runs

-----------------------------------------------------------------------------
\* select_next

\* Mutant: trees look at their own selections only.
UnreservedInTree(n) ==
    \A m \in NodesOf(nodes[n].tree) :
        nodes[m].state = "selected" => nodes[m].protocol # nodes[n].protocol

\* No open selection of any tree is for the protocol.
Unreserved(n) ==
    \A m \in NodeId : nodes[m].state = "selected" => nodes[m].protocol # nodes[n].protocol

\* _selection_eligibility: the facts of execution are rechecked.
Eligible(n) ==
    LET p == nodes[n].protocol
    IN  /\ nodes[n].action = "baseline" => RunsOf(p) = {}
        /\ Cardinality(RunsOf(p)) < RunLimit[p]
        /\ \A r \in RunsOf(p) : runs[r].status # "running"
        /\ Unreserved(n)
        /\ nodes[n].mode = "replicate" => Primaries(p) # {}

\* Mutant: what is reserved by open selections can be reserved again.
AffordableUnspent(n) ==
    nodes[n].estimate =< Policy[nodes[n].tree].budget - Spent(nodes[n].tree)

Affordable(n) == nodes[n].estimate =< Remaining(nodes[n].tree)

Select(n) ==
    LET t == nodes[n].tree
    IN  /\ nodes[n].state = "pending"
        /\ Cardinality(Selected(t)) < Policy[t].max_inflight
        /\ Cardinality(Selected(t)) + Cardinality(Settled(t)) < Policy[t].max_selections
        /\ Eligible(n) /\ Affordable(n)
        /\ nodes' = [nodes EXCEPT ![n] = [@ EXCEPT !.state = "selected", !.since = Len(runs)]]
        /\ UNCHANGED runs

-----------------------------------------------------------------------------
\* Runs of the kernel, outside batches.

StartRun(p, original) ==
    /\ Cardinality(RunsOf(p)) < RunLimit[p]
    /\ original # None => original \in Primaries(p)
    /\ runs' = Append(runs, [protocol |-> p, original |-> original, status |-> "running"])
    /\ UNCHANGED nodes

FinishRun(r, status) ==
    /\ runs[r].status = "running"
    /\ runs' = [runs EXCEPT ![r] = [@ EXCEPT !.status = status]]
    /\ UNCHANGED nodes

-----------------------------------------------------------------------------
\* finish_selection

\* The run that settles a selection was started for nothing else.
SettledBy(n, r, status) ==
    /\ r \in RunsOf(nodes[n].protocol)
    /\ r > nodes[n].since
    /\ runs[r].status = status
    /\ \A m \in NodeId : nodes[m].run # r
    /\ runs[r].original # None <=> nodes[n].mode = "replicate"

\* Only a selection that was never dispatched is released without a run.
Undispatched(n) == \A r \in RunsOf(nodes[n].protocol) : r =< nodes[n].since

Finish(n, status, r, cost) ==
    /\ nodes[n].state = "selected"
    /\ IF r = None THEN status = "cancelled" /\ Undispatched(n)
       ELSE SettledBy(n, r, status)
    /\ nodes' = [nodes EXCEPT ![n] = [@ EXCEPT !.state = status, !.run = r, !.cost = cost]]
    /\ UNCHANGED runs

-----------------------------------------------------------------------------

\* Only a bound for TLC.
Room(t) ==
    \E bound \in MaxNodes : /\ Cardinality(NodesOf(t)) < bound[t]
                            /\ \A u \in Tree : Cardinality(NodesOf(u)) =< bound[u]

Proposing(t) ==
    /\ Room(t)
    /\ \E parent \in NodesOf(t) \cup {None}, p \in Protocol, action \in Action :
        \E estimate \in Estimate[p] : AddNode(t, parent, p, action, estimate)

Running(p) == \E original \in RunsOf(p) \cup {None} : StartRun(p, original)

Finishing(n) ==
    \E status \in Terminal, r \in RunId \cup {None}, cost \in Cost :
        Finish(n, status, r, cost)

Next ==
    \/ \E t \in Tree : Proposing(t)
    \/ \E n \in NodeId : Select(n) \/ Finishing(n)
    \/ \E p \in Protocol : Running(p)
    \/ \E r \in RunId, status \in Verdict : FinishRun(r, status)

Spec == Init /\ [][Next]_vars

-----------------------------------------------------------------------------
\* Properties.

\* Proposals and runs have the shape of their event schemas, parents and roots
\* come earlier in the log, and a root is no repair itself.
TypeOK ==
    /\ nodes \in Seq(Node) /\ runs \in Seq(Run)
    /\ \A n \in NodeId :
         /\ nodes[n].parent # None => nodes[n].parent \in 1 .. n - 1
         /\ nodes[n].root \in 1 .. n
         /\ nodes[nodes[n].root].action \notin Technical
         /\ nodes[n].run # None => nodes[n].run \in RunId

\* Reservations and real costs together exceed the budget by recorded overruns
\* only, however selections and terminals are interleaved (the module's
\* docstring: "recorded real overruns stop new work").
BudgetHolds ==
    \A t \in Tree : Spent(t) + Reserved(t) =< Policy[t].budget + Overrun(t)

\* The retry bound counts every repair of a lineage: siblings, debug attempts
\* and cancelled proposals (the docstring of add_node).
RetriesBounded ==
    \A n \in NodeId : Cardinality(Repairs(n)) =< Policy[nodes[n].tree].max_retries

\* The repairs that lead from a node back to its scientific attempt, itself
\* included: the smallest set with the parent of each repair.
Unbroken(S) == \A n \in S : nodes[n].action \in Technical => nodes[n].parent \in S

Lineage(n) ==
    {m \in NodeId : \A S \in SUBSET NodeId : n \in S /\ Unbroken(S) => m \in S}

\* A scientific outcome never rests on a debug attempt, however many retries
\* lie between (the docstring of add_node).
NoDebugEvidence ==
    \A n \in NodeId : nodes[n].state = "completed" /\ nodes[n].eligible =>
        \A m \in Lineage(n) : nodes[m].action # "debug"

\* The run that a terminal cites was made under that selection and counts for
\* no other, although nothing ties a run to a selection when it starts: the
\* spans from selection to cited run never overlap within a protocol, and a
\* scientific attempt is the first execution of its protocol.
OwnRun ==
    \A n \in NodeId : nodes[n].run # None =>
        LET r == nodes[n].run
            p == nodes[n].protocol
        IN  /\ r \in RunsOf(p) /\ r > nodes[n].since /\ runs[r].status = nodes[n].state
            /\ nodes[n].action = "baseline" => \A q \in RunsOf(p) : q > nodes[n].since
            /\ \A m \in NodeId \ {n} : nodes[m].protocol = p =>
                 /\ nodes[m].state = "selected" => r =< nodes[m].since
                 /\ nodes[m].run # None =>
                      r =< nodes[m].since \/ nodes[m].run =< nodes[n].since

=============================================================================
