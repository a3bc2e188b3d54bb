---------------------------- MODULE SearchProofs ----------------------------
(***************************************************************************)
(* Search.tla for every number of trees, protocols, proposals and runs,    *)
(* every policy and every cost: its invariants.  Costs are counted unit by *)
(* unit, so the budget is an argument about cardinalities: a selection     *)
(* reserves what fits, and a terminal returns the reservation it replaces. *)
(* That a run belongs to one selection rests on two facts that no single   *)
(* check states: over all trees a protocol has one open selection, and     *)
(* when it is opened every earlier run of the protocol has been numbered.  *)
(***************************************************************************)
EXTENDS Search, TLAPS, FiniteSetTheorems

\* A repair stays in the tree of the attempt that it repairs.
RootOfTree == \A n \in NodeId : nodes[nodes[n].root].tree = nodes[n].tree

\* What is known of runs when a node is selected and until it is settled.
RunsKnown ==
    \A n \in NodeId :
        /\ nodes[n].since =< Len(runs)
        /\ nodes[n].state \in {"pending", "selected"} => nodes[n].run = None
        /\ nodes[n].action = "baseline" /\ nodes[n].state # "pending" =>
             \A q \in RunsOf(nodes[n].protocol) : q > nodes[n].since

\* One open selection per protocol, over all trees.
SelectedAlone ==
    \A m, n \in NodeId :
        /\ nodes[m].state = "selected" /\ nodes[n].state = "selected"
        /\ nodes[m].protocol = nodes[n].protocol
        => m = n

\* A repair that counts as evidence is a retry of what counts as evidence.
EligibleParents ==
    \A n \in NodeId : nodes[n].eligible =>
        /\ nodes[n].action # "debug"
        /\ nodes[n].action = "retry" =>
             nodes[n].parent \in NodeId /\ nodes[nodes[n].parent].eligible

\* Sums are over finitely many units.
UnitsFinite ==
    \A t \in Tree : /\ IsFiniteSet(ReservedUnits(t)) /\ IsFiniteSet(SpentUnits(t))
                    /\ IsFiniteSet(OverrunUnits(t))

IInv == /\ TypeOK /\ RootOfTree /\ RunsKnown /\ SelectedAlone /\ EligibleParents
        /\ OwnRun /\ RetriesBounded /\ UnitsFinite /\ BudgetHolds

-----------------------------------------------------------------------------
\* Steps.

NewNode(t, parent, p, action, estimate) ==
    [tree |-> t, parent |-> parent, protocol |-> p, action |-> action,
     depth |-> IF parent = None THEN 0 ELSE nodes[parent].depth + 1,
     root |-> Root(parent, action), mode |-> Mode(parent, action),
     eligible |-> Evidence(parent, action), estimate |-> estimate,
     state |-> "pending", since |-> 0, run |-> None, cost |-> 0]

\* A proposal is put at the end of the log and changes no other.
LEMMA Added ==
    ASSUME TypeOK, NEW t \in Tree, NEW parent \in NodesOf(t) \cup {None}, NEW p \in Protocol,
           NEW action \in Action, NEW estimate \in Estimate[p],
           AddNode(t, parent, p, action, estimate)
    PROVE  /\ Len(nodes) \in Nat /\ NodeId = 1 .. Len(nodes)
           /\ NodeId' = NodeId \cup {Len(nodes) + 1}
           /\ \A n \in NodeId : nodes'[n] = nodes[n]
           /\ nodes'[Len(nodes) + 1] = NewNode(t, parent, p, action, estimate)
           /\ NewNode(t, parent, p, action, estimate) \in Node
           /\ nodes' \in Seq(Node)
           /\ parent # None => parent \in NodeId /\ nodes[parent].tree = t
           /\ action \in Technical => parent # None
           /\ runs' = runs
  <1> DEFINE new == NewNode(t, parent, p, action, estimate)
  <1>1. nodes \in Seq(Node) /\ Len(nodes) \in Nat /\ NodeId = 1 .. Len(nodes)
    BY DEF TypeOK, NodeId
  <1>2. parent # None => parent \in NodeId /\ nodes[parent].tree = t
    BY DEF NodesOf
  <1>3. action \in Technical => parent # None
    BY DEF AddNode, MayAdd, Admissible, Technical
  <1>4. new \in Node
    <2>1. \A n \in NodeId : nodes[n] \in Node
      BY <1>1
    <2>2. parent \in Nat \cup {None}
      BY <1>1, <1>2
    <2>3. (IF parent = None THEN 0 ELSE nodes[parent].depth + 1) \in Nat
      BY <1>2, <2>1 DEF Node
    <2>4. Root(parent, action) \in Nat
      BY <1>1, <1>2, <1>3, <2>1 DEF Root, Node
    <2>5. Mode(parent, action) \in {"primary", "replicate"}
      BY <1>2, <1>3, <2>1 DEF Mode, Node, Technical, Action
    <2>6. Evidence(parent, action) \in BOOLEAN
      BY <1>2, <1>3, <2>1 DEF Evidence, Node, Technical
    <2>7. estimate \in Nat
      BY SearchAssumption
    <2> QED
      BY <2>2, <2>3, <2>4, <2>5, <2>6, <2>7 DEF NewNode, Node
  <1>5. nodes' = Append(nodes, new) /\ runs' = runs
    BY DEF AddNode, NewNode
  <1> HIDE DEF new
  <1>6. /\ NodeId' = NodeId \cup {Len(nodes) + 1}
        /\ \A n \in NodeId : nodes'[n] = nodes[n]
        /\ nodes'[Len(nodes) + 1] = new
        /\ nodes' \in Seq(Node)
    BY <1>1, <1>4, <1>5 DEF NodeId
  <1> QED
    BY <1>1, <1>2, <1>3, <1>4, <1>5, <1>6 DEF new

\* What a proposal says is never rewritten.
SameProposal(n) ==
    /\ nodes'[n].tree = nodes[n].tree /\ nodes'[n].parent = nodes[n].parent
    /\ nodes'[n].protocol = nodes[n].protocol /\ nodes'[n].action = nodes[n].action
    /\ nodes'[n].root = nodes[n].root /\ nodes'[n].mode = nodes[n].mode
    /\ nodes'[n].eligible = nodes[n].eligible /\ nodes'[n].estimate = nodes[n].estimate

\* A selection changes one node, and it changes its state and its watermark.
LEMMA Selects ==
    ASSUME TypeOK, NEW n \in NodeId, Select(n)
    PROVE  /\ NodeId' = NodeId /\ nodes' \in Seq(Node) /\ runs' = runs
           /\ \A m \in NodeId : m # n => nodes'[m] = nodes[m]
           /\ SameProposal(n) /\ nodes'[n].state = "selected" /\ nodes'[n].since = Len(runs)
           /\ nodes'[n].run = nodes[n].run /\ nodes'[n].cost = nodes[n].cost
  <1>1. nodes \in Seq(Node) /\ nodes[n] \in Node /\ Len(runs) \in Nat
    BY DEF TypeOK, NodeId
  <1>2. nodes' = [nodes EXCEPT ![n] = [nodes[n] EXCEPT !.state = "selected", !.since = Len(runs)]]
    BY DEF Select
  <1>3. [nodes[n] EXCEPT !.state = "selected", !.since = Len(runs)] \in Node
    BY <1>1 DEF Node
  <1>4. nodes'[n] = [nodes[n] EXCEPT !.state = "selected", !.since = Len(runs)]
    BY <1>1, <1>2 DEF NodeId
  <1>5. /\ SameProposal(n) /\ nodes'[n].state = "selected" /\ nodes'[n].since = Len(runs)
        /\ nodes'[n].run = nodes[n].run /\ nodes'[n].cost = nodes[n].cost
    BY <1>1, <1>4 DEF Node, SameProposal
  <1> QED
    BY <1>1, <1>2, <1>3, <1>5 DEF NodeId, Select

\* A terminal changes one node: its state, its run and its cost.
LEMMA Settles ==
    ASSUME TypeOK, NEW n \in NodeId, NEW status \in Terminal, NEW r \in RunId \cup {None},
           NEW cost \in Cost, Finish(n, status, r, cost)
    PROVE  /\ NodeId' = NodeId /\ nodes' \in Seq(Node) /\ runs' = runs
           /\ \A m \in NodeId : m # n => nodes'[m] = nodes[m]
           /\ SameProposal(n) /\ nodes'[n].state = status /\ nodes'[n].run = r
           /\ nodes'[n].cost = cost /\ nodes'[n].since = nodes[n].since
  <1>1. nodes \in Seq(Node) /\ nodes[n] \in Node /\ r \in Nat \cup {None}
    BY DEF TypeOK, NodeId, RunId
  <1>2. nodes' = [nodes EXCEPT ![n] = [nodes[n] EXCEPT !.state = status, !.run = r, !.cost = cost]]
    BY DEF Finish
  <1>3. [nodes[n] EXCEPT !.state = status, !.run = r, !.cost = cost] \in Node
    BY <1>1 DEF Node
  <1>4. nodes'[n] = [nodes[n] EXCEPT !.state = status, !.run = r, !.cost = cost]
    BY <1>1, <1>2 DEF NodeId
  <1>5. SameProposal(n) /\ nodes'[n].since = nodes[n].since
    BY <1>1, <1>4 DEF Node, SameProposal
  <1>6. nodes'[n].state = status /\ nodes'[n].run = r /\ nodes'[n].cost = cost
    BY <1>1, <1>4 DEF Node
  <1> QED
    BY <1>1, <1>2, <1>3, <1>5, <1>6 DEF NodeId, Finish

\* Runs are started at the end of the log.
LEMMA Starts ==
    ASSUME TypeOK, NEW p \in Protocol, NEW original \in RunsOf(p) \cup {None},
           StartRun(p, original)
    PROVE  /\ nodes' = nodes /\ runs' \in Seq(Run)
           /\ RunId = 1 .. Len(runs) /\ RunId' = 1 .. Len(runs) + 1
           /\ Len(runs) \in Nat /\ Len(runs') = Len(runs) + 1
           /\ \A r \in RunId : runs'[r] = runs[r]
           /\ runs'[Len(runs) + 1].protocol = p
  <1>1. runs \in Seq(Run) /\ original \in Nat \cup {None}
    BY DEF TypeOK, RunsOf, RunId
  <1>2. [protocol |-> p, original |-> original, status |-> "running"] \in Run
    BY <1>1 DEF Run
  <1> QED
    BY <1>1, <1>2 DEF StartRun, RunId

\* A run that ends keeps its protocol, and only a running one ends.
LEMMA Ends ==
    ASSUME TypeOK, NEW r \in RunId, NEW status \in Verdict, FinishRun(r, status)
    PROVE  /\ nodes' = nodes /\ runs' \in Seq(Run) /\ RunId' = RunId /\ Len(runs') = Len(runs)
           /\ \A q \in RunId : q # r => runs'[q] = runs[q]
           /\ \A q \in RunId : runs'[q].protocol = runs[q].protocol
           /\ runs[r].status = "running"
  <1>1. runs \in Seq(Run) /\ runs[r] \in Run
    BY DEF TypeOK, RunId
  <1>2. [runs[r] EXCEPT !.status = status] \in Run
    BY <1>1, SearchAssumption DEF Run, Terminal
  <1>3. runs' = [runs EXCEPT ![r] = [runs[r] EXCEPT !.status = status]]
    BY DEF FinishRun
  <1> QED
    BY <1>1, <1>2, <1>3 DEF FinishRun, RunId, Run

\* The steps, by what they change.
LEMMA Steps ==
    ASSUME [Next]_vars
    PROVE  \/ UNCHANGED vars
           \/ \E t \in Tree, p \in Protocol, action \in Action :
               \E parent \in NodesOf(t) \cup {None}, estimate \in Estimate[p] :
                 AddNode(t, parent, p, action, estimate)
           \/ \E n \in NodeId : Select(n)
           \/ \E n \in NodeId, status \in Terminal, r \in RunId \cup {None}, cost \in Cost :
                Finish(n, status, r, cost)
           \/ \E p \in Protocol : \E original \in RunsOf(p) \cup {None} : StartRun(p, original)
           \/ \E r \in RunId, status \in Verdict : FinishRun(r, status)
  BY DEF Next, Proposing, Running, Finishing

\* Log positions of proposals and of runs stay valid.
LEMMA ProposalsStay ==
    ASSUME TypeOK, [Next]_vars
    PROVE  \A n \in NodeId : n \in NodeId' /\ SameProposal(n)
  <1>0. CASE UNCHANGED nodes
    BY <1>0 DEF NodeId, SameProposal
  <1>1. ASSUME NEW t \in Tree, NEW p \in Protocol, NEW action \in Action,
               NEW parent \in NodesOf(t) \cup {None}, NEW estimate \in Estimate[p],
               AddNode(t, parent, p, action, estimate)
        PROVE  \A n \in NodeId : n \in NodeId' /\ SameProposal(n)
    BY <1>1, Added DEF SameProposal
  <1>2. ASSUME NEW n \in NodeId, Select(n)
        PROVE  \A m \in NodeId : m \in NodeId' /\ SameProposal(m)
    BY <1>2, Selects DEF SameProposal
  <1>3. ASSUME NEW n \in NodeId, NEW status \in Terminal, NEW r \in RunId \cup {None},
               NEW cost \in Cost, Finish(n, status, r, cost)
        PROVE  \A m \in NodeId : m \in NodeId' /\ SameProposal(m)
    <2>1. NodeId' = NodeId /\ \A m \in NodeId : m # n => nodes'[m] = nodes[m]
      BY <1>3, Settles
    <2>2. SameProposal(n)
      BY <1>3, Settles
    <2> QED
      BY <2>1, <2>2 DEF SameProposal
  <1> QED
    BY <1>0, <1>1, <1>2, <1>3, Steps DEF vars, StartRun, FinishRun

LEMMA RunsStay ==
    ASSUME TypeOK, [Next]_vars
    PROVE  /\ runs' \in Seq(Run) /\ Len(runs) =< Len(runs') /\ RunId \subseteq RunId'
           /\ \A r \in RunId : /\ runs'[r].protocol = runs[r].protocol
                               /\ runs[r].status # "running" => runs'[r] = runs[r]
  <1>0. CASE UNCHANGED runs
    BY <1>0 DEF TypeOK, RunId
  <1>1. ASSUME NEW p \in Protocol, NEW original \in RunsOf(p) \cup {None}, StartRun(p, original)
        PROVE  /\ runs' \in Seq(Run) /\ Len(runs) =< Len(runs') /\ RunId \subseteq RunId'
               /\ \A r \in RunId : /\ runs'[r].protocol = runs[r].protocol
                                   /\ runs[r].status # "running" => runs'[r] = runs[r]
    BY <1>1, Starts
  <1>2. ASSUME NEW r \in RunId, NEW status \in Verdict, FinishRun(r, status)
        PROVE  /\ runs' \in Seq(Run) /\ Len(runs) =< Len(runs') /\ RunId \subseteq RunId'
               /\ \A q \in RunId : /\ runs'[q].protocol = runs[q].protocol
                                   /\ runs[q].status # "running" => runs'[q] = runs[q]
    BY <1>2, Ends DEF TypeOK
  <1> QED
    BY <1>0, <1>1, <1>2, Steps DEF vars, AddNode, Select, Finish

\* The proposals that a step adds: none, or one at the end of the log.
LEMMA NodesGrow ==
    ASSUME TypeOK, [Next]_vars
    PROVE  /\ nodes' \in Seq(Node)
           /\ \/ NodeId' = NodeId
              \/ \E t \in Tree, p \in Protocol, action \in Action :
                  \E parent \in NodesOf(t) \cup {None}, estimate \in Estimate[p] :
                    AddNode(t, parent, p, action, estimate)
  <1>0. CASE UNCHANGED nodes
    BY <1>0 DEF NodeId, TypeOK
  <1>1. ASSUME NEW n \in NodeId, Select(n)
        PROVE  NodeId' = NodeId /\ nodes' \in Seq(Node)
    BY <1>1, Selects
  <1>2. ASSUME NEW n \in NodeId, NEW status \in Terminal, NEW r \in RunId \cup {None},
               NEW cost \in Cost, Finish(n, status, r, cost)
        PROVE  NodeId' = NodeId /\ nodes' \in Seq(Node)
    BY <1>2, Settles
  <1>3. ASSUME NEW t \in Tree, NEW p \in Protocol, NEW action \in Action,
               NEW parent \in NodesOf(t) \cup {None}, NEW estimate \in Estimate[p],
               AddNode(t, parent, p, action, estimate)
        PROVE  nodes' \in Seq(Node)
    BY <1>3, Added
  <1> QED
    BY <1>0, <1>1, <1>2, <1>3, Steps DEF vars, StartRun, FinishRun

-----------------------------------------------------------------------------
\* Types, trees and evidence: what proposals say.

LEMMA InitIInv == Init => IInv
  <1> SUFFICES ASSUME Init PROVE IInv
    OBVIOUS
  <1>1. nodes \in Seq(Node) /\ runs \in Seq(Run) /\ NodeId = {}
    BY DEF Init, NodeId
  <1>2. \A t \in Tree : ReservedUnits(t) = {} /\ SpentUnits(t) = {} /\ OverrunUnits(t) = {}
    BY <1>1 DEF ReservedUnits, SpentUnits, OverrunUnits, Selected, Settled, NodesOf
  <1>3. UnitsFinite
    BY <1>2, FS_EmptySet DEF UnitsFinite
  <1>4. BudgetHolds
    <2>1. \A t \in Tree : Reserved(t) = 0 /\ Spent(t) = 0 /\ Overrun(t) = 0
      BY <1>2, FS_EmptySet DEF Reserved, Spent, Overrun
    <2>2. \A t \in Tree : Policy[t].budget \in Nat
      BY SearchAssumption
    <2> QED
      BY <2>1, <2>2 DEF BudgetHolds
  <1> QED
    BY <1>1, <1>3, <1>4 DEF IInv, TypeOK, RootOfTree, RunsKnown, SelectedAlone, EligibleParents,
       OwnRun, RetriesBounded

\* A node cites no run, the run it cited, or one that is in the log.
LEMMA CitesRun ==
    ASSUME TypeOK, [Next]_vars
    PROVE  \A n \in NodeId : nodes'[n].run = nodes[n].run \/ nodes'[n].run \in RunId \cup {None}
  <1>0. CASE UNCHANGED nodes
    BY <1>0
  <1>1. ASSUME NEW t \in Tree, NEW p \in Protocol, NEW action \in Action,
               NEW parent \in NodesOf(t) \cup {None}, NEW estimate \in Estimate[p],
               AddNode(t, parent, p, action, estimate)
        PROVE  \A n \in NodeId : nodes'[n].run = nodes[n].run
    BY <1>1, Added
  <1>2. ASSUME NEW n \in NodeId, Select(n)
        PROVE  \A m \in NodeId : nodes'[m].run = nodes[m].run
    BY <1>2, Selects
  <1>3. ASSUME NEW n \in NodeId, NEW status \in Terminal, NEW r \in RunId \cup {None},
               NEW cost \in Cost, Finish(n, status, r, cost)
        PROVE  \A m \in NodeId : nodes'[m].run = nodes[m].run \/ nodes'[m].run = r
    BY <1>3, Settles
  <1> QED
    BY <1>0, <1>1, <1>2, <1>3, Steps DEF vars, StartRun, FinishRun

LEMMA NextTyped ==
    ASSUME IInv, [Next]_vars
    PROVE  TypeOK'
  <1> USE DEF IInv
  <1>1. nodes' \in Seq(Node) /\ runs' \in Seq(Run)
    BY NodesGrow, RunsStay
  <1>2. ASSUME NEW n \in NodeId
        PROVE  /\ nodes'[n].parent # None => nodes'[n].parent \in 1 .. n - 1
               /\ nodes'[n].root \in 1 .. n
               /\ nodes'[nodes'[n].root].action \notin Technical
               /\ nodes'[n].run # None => nodes'[n].run \in RunId'
    <2>1. /\ nodes[n].parent # None => nodes[n].parent \in 1 .. n - 1
          /\ nodes[n].root \in 1 .. n
          /\ nodes[nodes[n].root].action \notin Technical
          /\ nodes[n].run # None => nodes[n].run \in RunId
      BY DEF TypeOK
    <2>2. nodes[n].root \in NodeId
      BY <2>1 DEF TypeOK, NodeId
    <2>3. SameProposal(n) /\ SameProposal(nodes[n].root)
      BY <2>2, ProposalsStay
    <2>4. nodes'[n].run # None => nodes'[n].run \in RunId'
      BY <2>1, CitesRun, RunsStay
    <2> QED
      BY <2>1, <2>3, <2>4 DEF SameProposal
  <1>3. CASE NodeId' = NodeId
    BY <1>1, <1>2, <1>3 DEF TypeOK
  <1>4. ASSUME NEW t \in Tree, NEW p \in Protocol, NEW action \in Action,
               NEW parent \in NodesOf(t) \cup {None}, NEW estimate \in Estimate[p],
               AddNode(t, parent, p, action, estimate)
        PROVE  TypeOK'
    <2> DEFINE n == Len(nodes) + 1
    <2>1. /\ Len(nodes) \in Nat /\ NodeId = 1 .. Len(nodes) /\ NodeId' = NodeId \cup {n}
          /\ nodes'[n] = NewNode(t, parent, p, action, estimate)
          /\ \A m \in NodeId : nodes'[m] = nodes[m]
          /\ parent # None => parent \in NodeId
          /\ action \in Technical => parent # None
      BY <1>4, Added
    <2> HIDE DEF n
    <2>2. /\ nodes'[n].parent = parent /\ nodes'[n].root = Root(parent, action)
          /\ nodes'[n].run = None /\ nodes'[n].action = action
      BY <2>1 DEF NewNode
    <2>3. parent # None => parent \in 1 .. n - 1
      BY <2>1 DEF n
    <2>4. CASE action \in Technical
      <3>1. Root(parent, action) = nodes[parent].root /\ parent \in NodeId
        BY <2>1, <2>4 DEF Root
      <3>2. /\ nodes[parent].root \in 1 .. parent
            /\ nodes[nodes[parent].root].action \notin Technical
        BY <3>1 DEF TypeOK
      <3>3. nodes[parent].root \in NodeId /\ nodes[parent].root \in 1 .. n
        BY <2>1, <3>1, <3>2 DEF n
      <3> QED
        BY <1>1, <1>2, <2>1, <2>2, <2>3, <3>1, <3>2, <3>3 DEF TypeOK
    <2>5. CASE action \notin Technical
      <3>1. Root(parent, action) = n /\ n \in 1 .. n
        BY <2>1, <2>5 DEF Root, n
      <3> QED
        BY <1>1, <1>2, <2>1, <2>2, <2>3, <2>5, <3>1 DEF TypeOK
    <2> QED
      BY <2>4, <2>5
  <1> QED
    BY <1>3, <1>4, NodesGrow

\* The root of a lineage is in the tree of its repairs.
LEMMA NextRootOfTree ==
    ASSUME IInv, [Next]_vars
    PROVE  RootOfTree'
  <1> USE DEF IInv
  <1>1. \A n \in NodeId : nodes'[nodes'[n].root].tree = nodes'[n].tree
    <2> SUFFICES ASSUME NEW n \in NodeId PROVE nodes'[nodes'[n].root].tree = nodes'[n].tree
      OBVIOUS
    <2>1. nodes[n].root \in NodeId /\ nodes[nodes[n].root].tree = nodes[n].tree
      BY DEF TypeOK, NodeId, RootOfTree
    <2>2. SameProposal(n) /\ SameProposal(nodes[n].root)
      BY <2>1, ProposalsStay
    <2> QED
      BY <2>1, <2>2 DEF SameProposal
  <1>2. CASE NodeId' = NodeId
    BY <1>1, <1>2 DEF RootOfTree
  <1>3. ASSUME NEW t \in Tree, NEW p \in Protocol, NEW action \in Action,
               NEW parent \in NodesOf(t) \cup {None}, NEW estimate \in Estimate[p],
               AddNode(t, parent, p, action, estimate)
        PROVE  RootOfTree'
    <2> DEFINE n == Len(nodes) + 1
    <2>1. /\ NodeId' = NodeId \cup {n}
          /\ nodes'[n] = NewNode(t, parent, p, action, estimate)
          /\ \A m \in NodeId : nodes'[m] = nodes[m]
          /\ parent # None => parent \in NodeId /\ nodes[parent].tree = t
          /\ action \in Technical => parent # None
      BY <1>3, Added
    <2>2. nodes'[n].tree = t /\ nodes'[n].root = Root(parent, action)
      BY <2>1 DEF NewNode
    <2>3. nodes'[nodes'[n].root].tree = nodes'[n].tree
      <3>1. CASE action \in Technical
        <4>1. Root(parent, action) = nodes[parent].root /\ parent \in NodeId
          BY <2>1, <3>1 DEF Root
        <4>2. nodes[parent].root \in NodeId
          BY <4>1 DEF TypeOK, NodeId
        <4>3. nodes[nodes[parent].root].tree = t
          BY <2>1, <3>1, <4>1 DEF RootOfTree
        <4>4. nodes'[nodes[parent].root].tree = t
          BY <2>1, <4>2, <4>3
        <4> QED
          BY <2>2, <4>1, <4>4
      <3>2. CASE action \notin Technical
        BY <2>2, <3>2 DEF Root
      <3> QED
        BY <3>1, <3>2
    <2> HIDE DEF n
    <2> QED
      BY <1>1, <2>1, <2>3 DEF RootOfTree
  <1> QED
    BY <1>2, <1>3, NodesGrow

LEMMA NextEligibleParents ==
    ASSUME IInv, [Next]_vars
    PROVE  EligibleParents'
  <1> USE DEF IInv
  <1>1. ASSUME NEW n \in NodeId, nodes'[n].eligible
        PROVE  /\ nodes'[n].action # "debug"
               /\ nodes'[n].action = "retry" =>
                    nodes'[n].parent \in NodeId /\ nodes'[nodes'[n].parent].eligible
    <2>1. SameProposal(n) /\ \A m \in NodeId : SameProposal(m)
      BY ProposalsStay
    <2>2. /\ nodes[n].action # "debug"
          /\ nodes[n].action = "retry" =>
               nodes[n].parent \in NodeId /\ nodes[nodes[n].parent].eligible
      BY <1>1, <2>1 DEF SameProposal, EligibleParents
    <2> QED
      BY <2>1, <2>2 DEF SameProposal
  <1>2. CASE NodeId' = NodeId
    BY <1>1, <1>2 DEF EligibleParents
  <1>3. ASSUME NEW t \in Tree, NEW p \in Protocol, NEW action \in Action,
               NEW parent \in NodesOf(t) \cup {None}, NEW estimate \in Estimate[p],
               AddNode(t, parent, p, action, estimate)
        PROVE  EligibleParents'
    <2> DEFINE n == Len(nodes) + 1
    <2>1. /\ NodeId' = NodeId \cup {n}
          /\ nodes'[n] = NewNode(t, parent, p, action, estimate)
          /\ \A m \in NodeId : nodes'[m] = nodes[m]
          /\ parent # None => parent \in NodeId
          /\ action \in Technical => parent # None
      BY <1>3, Added
    <2>2. nodes'[n].action = action /\ nodes'[n].parent = parent
      BY <2>1 DEF NewNode
    <2>3. nodes'[n].eligible = Evidence(parent, action)
      BY <2>1 DEF NewNode
    <2>4. nodes'[n].eligible =>
            /\ action # "debug"
            /\ action = "retry" => parent \in NodeId /\ nodes'[parent].eligible
      BY <2>1, <2>3 DEF Evidence, Technical
    <2> HIDE DEF n
    <2> QED
      BY <1>1, <2>1, <2>2, <2>4 DEF EligibleParents
  <1> QED
    BY <1>2, <1>3, NodesGrow

-----------------------------------------------------------------------------
\* Selections and runs.

LEMMA NextRunsKnown ==
    ASSUME IInv, [Next]_vars
    PROVE  RunsKnown'
  <1> USE DEF IInv
  <1> DEFINE Known(n) ==
        /\ nodes'[n].since =< Len(runs')
        /\ nodes'[n].state \in {"pending", "selected"} => nodes'[n].run = None
        /\ nodes'[n].action = "baseline" /\ nodes'[n].state # "pending" =>
             \A q \in RunId' : runs'[q].protocol = nodes'[n].protocol => q > nodes'[n].since
  <1> SUFFICES ASSUME NEW n \in NodeId' PROVE Known(n)
    BY DEF RunsKnown, RunsOf
  <1>0. runs \in Seq(Run) /\ Len(runs) \in Nat /\ nodes \in Seq(Node)
    BY DEF TypeOK
  <1>1. \A m \in NodeId :
          /\ nodes[m].since \in Nat /\ nodes[m].since =< Len(runs)
          /\ nodes[m].state \in {"pending", "selected"} => nodes[m].run = None
          /\ nodes[m].action = "baseline" /\ nodes[m].state # "pending" =>
               \A q \in RunId : runs[q].protocol = nodes[m].protocol => q > nodes[m].since
    <2>1. \A m \in NodeId : nodes[m] \in Node
      BY <1>0 DEF NodeId
    <2> QED
      BY <2>1 DEF RunsKnown, RunsOf, Node
  <1>2. CASE UNCHANGED vars
    BY <1>1, <1>2 DEF vars, NodeId, RunId
  <1>3. ASSUME NEW t \in Tree, NEW p \in Protocol, NEW action \in Action,
               NEW parent \in NodesOf(t) \cup {None}, NEW estimate \in Estimate[p],
               AddNode(t, parent, p, action, estimate)
        PROVE  Known(n)
    <2>1. /\ NodeId' = NodeId \cup {Len(nodes) + 1} /\ runs' = runs /\ RunId' = RunId
          /\ nodes'[Len(nodes) + 1] = NewNode(t, parent, p, action, estimate)
          /\ \A m \in NodeId : nodes'[m] = nodes[m]
      BY <1>3, Added DEF RunId
    <2>2. CASE n \in NodeId
      BY <1>1, <2>1, <2>2
    <2>3. CASE n = Len(nodes) + 1
      <3>1. nodes'[n].since = 0 /\ nodes'[n].state = "pending" /\ nodes'[n].run = None
        BY <2>1, <2>3 DEF NewNode
      <3> QED
        BY <1>0, <2>1, <3>1
    <2> QED
      BY <2>1, <2>2, <2>3
  <1>4. ASSUME NEW m \in NodeId, Select(m)
        PROVE  Known(n)
    <2>1. /\ NodeId' = NodeId /\ runs' = runs /\ RunId' = RunId
          /\ \A k \in NodeId : k # m => nodes'[k] = nodes[k]
      BY <1>4, Selects DEF RunId
    <2>2. CASE n # m
      BY <1>1, <2>1, <2>2
    <2>3. CASE n = m
      <3>1. /\ SameProposal(m) /\ nodes'[m].state = "selected" /\ nodes'[m].since = Len(runs)
            /\ nodes'[m].run = nodes[m].run /\ nodes[m].state = "pending"
        BY <1>4, Selects DEF Select
      <3>2. nodes[m].action = "baseline" => \A q \in RunId : runs[q].protocol # nodes[m].protocol
        BY <1>4 DEF Select, Eligible, RunsOf
      <3> QED
        BY <1>0, <1>1, <2>1, <2>3, <3>1, <3>2 DEF SameProposal
    <2> QED
      BY <2>2, <2>3
  <1>5. ASSUME NEW m \in NodeId, NEW status \in Terminal, NEW r \in RunId \cup {None},
               NEW cost \in Cost, Finish(m, status, r, cost)
        PROVE  Known(n)
    <2>1. /\ NodeId' = NodeId /\ runs' = runs /\ RunId' = RunId
          /\ \A k \in NodeId : k # m => nodes'[k] = nodes[k]
      BY <1>5, Settles DEF RunId
    <2>2. CASE n # m
      BY <1>1, <2>1, <2>2
    <2>3. CASE n = m
      <3>1. /\ SameProposal(m) /\ nodes'[m].state = status
            /\ nodes'[m].since = nodes[m].since /\ nodes[m].state = "selected"
        BY <1>5, Settles DEF Finish
      <3> QED
        BY <1>1, <2>1, <2>3, <3>1 DEF SameProposal, Terminal
    <2> QED
      BY <2>2, <2>3
  <1>6. ASSUME NEW p \in Protocol, NEW original \in RunsOf(p) \cup {None}, StartRun(p, original)
        PROVE  Known(n)
    <2>1. /\ nodes' = nodes /\ NodeId' = NodeId /\ RunId' = RunId \cup {Len(runs) + 1}
          /\ Len(runs') = Len(runs) + 1
          /\ \A r \in RunId : runs'[r] = runs[r]
      BY <1>6, Starts DEF NodeId
    <2> QED
      BY <1>0, <1>1, <2>1
  <1>7. ASSUME NEW r \in RunId, NEW status \in Verdict, FinishRun(r, status)
        PROVE  Known(n)
    <2>1. /\ nodes' = nodes /\ NodeId' = NodeId /\ RunId' = RunId /\ Len(runs') = Len(runs)
          /\ \A q \in RunId : runs'[q].protocol = runs[q].protocol
      BY <1>7, Ends DEF NodeId
    <2> QED
      BY <1>1, <2>1
  <1> HIDE DEF Known
  <1> QED
    BY <1>2, <1>3, <1>4, <1>5, <1>6, <1>7, Steps

LEMMA NextSelectedAlone ==
    ASSUME IInv, [Next]_vars
    PROVE  SelectedAlone'
  <1> USE DEF IInv
  <1>1. CASE UNCHANGED nodes
    BY <1>1 DEF SelectedAlone, NodeId
  <1>2. ASSUME NEW t \in Tree, NEW p \in Protocol, NEW action \in Action,
               NEW parent \in NodesOf(t) \cup {None}, NEW estimate \in Estimate[p],
               AddNode(t, parent, p, action, estimate)
        PROVE  SelectedAlone'
    <2>1. /\ NodeId' = NodeId \cup {Len(nodes) + 1}
          /\ nodes'[Len(nodes) + 1] = NewNode(t, parent, p, action, estimate)
          /\ \A m \in NodeId : nodes'[m] = nodes[m]
      BY <1>2, Added
    <2>2. nodes'[Len(nodes) + 1].state = "pending"
      BY <2>1 DEF NewNode
    <2> QED
      BY <2>1, <2>2 DEF SelectedAlone
  <1>3. ASSUME NEW n \in NodeId, Select(n)
        PROVE  SelectedAlone'
    <2>1. /\ NodeId' = NodeId /\ \A m \in NodeId : m # n => nodes'[m] = nodes[m]
          /\ nodes'[n].protocol = nodes[n].protocol
      BY <1>3, Selects DEF SameProposal
    <2>2. \A m \in NodeId : nodes[m].state = "selected" => nodes[m].protocol # nodes[n].protocol
      BY <1>3 DEF Select, Eligible, Unreserved
    <2> QED
      BY <2>1, <2>2 DEF SelectedAlone
  <1>4. ASSUME NEW n \in NodeId, NEW status \in Terminal, NEW r \in RunId \cup {None},
               NEW cost \in Cost, Finish(n, status, r, cost)
        PROVE  SelectedAlone'
    <2>1. /\ NodeId' = NodeId /\ \A m \in NodeId : m # n => nodes'[m] = nodes[m]
          /\ nodes'[n].state = status
      BY <1>4, Settles
    <2> QED
      BY <2>1 DEF SelectedAlone, Terminal
  <1> QED
    BY <1>1, <1>2, <1>3, <1>4, Steps DEF vars, StartRun, FinishRun

LEMMA NextOwnRun ==
    ASSUME IInv, [Next]_vars
    PROVE  OwnRun'
  <1> USE DEF IInv
  <1> DEFINE
        Cited(n) ==
          LET r == nodes'[n].run
          IN  /\ r \in RunId' /\ runs'[r].protocol = nodes'[n].protocol /\ r > nodes'[n].since
              /\ runs'[r].status = nodes'[n].state
        Apart(n, m) ==
          /\ nodes'[m].state = "selected" => nodes'[n].run =< nodes'[m].since
          /\ nodes'[m].run # None =>
               nodes'[n].run =< nodes'[m].since \/ nodes'[m].run =< nodes'[n].since
  <1> SUFFICES ASSUME NEW n \in NodeId', nodes'[n].run # None
               PROVE  /\ Cited(n)
                      /\ \A m \in NodeId' \ {n} :
                           nodes'[m].protocol = nodes'[n].protocol => Apart(n, m)
    <2>1. \A k \in NodeId' :
            /\ nodes'[k].state \in {"pending", "selected"} => nodes'[k].run = None
            /\ nodes'[k].action = "baseline" /\ nodes'[k].state # "pending" =>
                 \A q \in RunId' : runs'[q].protocol = nodes'[k].protocol => q > nodes'[k].since
      BY NextRunsKnown DEF RunsKnown, RunsOf
    <2> QED
      BY <2>1 DEF OwnRun, RunsOf
  <1>0. runs \in Seq(Run) /\ Len(runs) \in Nat /\ RunId = 1 .. Len(runs) /\ nodes \in Seq(Node)
    BY DEF TypeOK, RunId
  <1>1. \A m \in NodeId : nodes[m].since \in Nat /\ nodes[m].run \in RunId \cup {None}
    <2>1. \A m \in NodeId : nodes[m] \in Node
      BY <1>0 DEF NodeId
    <2> QED
      BY <2>1 DEF TypeOK, Node
  <1>2. \A k \in NodeId : nodes[k].run # None =>
          /\ nodes[k].run \in RunId /\ runs[nodes[k].run].protocol = nodes[k].protocol
          /\ nodes[k].run > nodes[k].since /\ runs[nodes[k].run].status = nodes[k].state
          /\ nodes[k].state \notin {"pending", "selected", "running"}
    <2>1. \A m \in NodeId : nodes[m] \in Node
      BY <1>0 DEF NodeId
    <2>2. \A m \in NodeId : nodes[m].state # "running"
      BY <2>1 DEF Node, Terminal
    <2> QED
      BY <2>2 DEF OwnRun, RunsOf, RunsKnown
  <1>3. \A k \in NodeId : \A m \in NodeId \ {k} :
          nodes[k].run # None /\ nodes[m].protocol = nodes[k].protocol =>
            /\ nodes[m].state = "selected" => nodes[k].run =< nodes[m].since
            /\ nodes[m].run # None =>
                 nodes[k].run =< nodes[m].since \/ nodes[m].run =< nodes[k].since
    BY DEF OwnRun
  <1>4. CASE UNCHANGED vars
    BY <1>2, <1>3, <1>4 DEF vars, NodeId, RunId
  <1>5. ASSUME NEW t \in Tree, NEW p \in Protocol, NEW action \in Action,
               NEW parent \in NodesOf(t) \cup {None}, NEW estimate \in Estimate[p],
               AddNode(t, parent, p, action, estimate)
        PROVE  Cited(n) /\ \A m \in NodeId' \ {n} :
                             nodes'[m].protocol = nodes'[n].protocol => Apart(n, m)
    <2>1. /\ NodeId' = NodeId \cup {Len(nodes) + 1} /\ runs' = runs /\ RunId' = RunId
          /\ nodes'[Len(nodes) + 1] = NewNode(t, parent, p, action, estimate)
          /\ \A m \in NodeId : nodes'[m] = nodes[m]
      BY <1>5, Added DEF RunId
    <2>2. nodes'[Len(nodes) + 1].run = None /\ nodes'[Len(nodes) + 1].state = "pending"
      BY <2>1 DEF NewNode
    <2>3. n \in NodeId
      BY <2>1, <2>2
    <2>4. Cited(n)
      BY <1>2, <2>1, <2>3
    <2>5. ASSUME NEW m \in NodeId' \ {n}, nodes'[m].protocol = nodes'[n].protocol
          PROVE  Apart(n, m)
      <3>1. CASE m \in NodeId
        BY <1>3, <2>1, <2>3, <2>5, <3>1
      <3>2. CASE m = Len(nodes) + 1
        BY <2>2, <3>2
      <3> QED
        BY <2>1, <3>1, <3>2
    <2> QED
      BY <2>4, <2>5
  <1>6. ASSUME NEW s \in NodeId, Select(s)
        PROVE  Cited(n) /\ \A m \in NodeId' \ {n} :
                             nodes'[m].protocol = nodes'[n].protocol => Apart(n, m)
    <2>1. /\ NodeId' = NodeId /\ runs' = runs /\ RunId' = RunId
          /\ \A m \in NodeId : m # s => nodes'[m] = nodes[m]
          /\ nodes'[s].since = Len(runs) /\ nodes'[s].run = nodes[s].run
          /\ nodes[s].state = "pending"
      BY <1>6, Selects DEF RunId, Select
    <2>2. nodes'[s].run = None
      BY <1>2, <2>1
    <2>3. n # s
      BY <2>2
    <2>4. Cited(n)
      BY <1>2, <2>1, <2>3
    <2>5. ASSUME NEW m \in NodeId' \ {n}, nodes'[m].protocol = nodes'[n].protocol
          PROVE  Apart(n, m)
      <3>1. CASE m # s
        BY <1>3, <2>1, <2>3, <2>5, <3>1
      <3>2. CASE m = s
        <4>1. nodes'[n].run \in RunId
          BY <2>4, <2>1
        <4> QED
          BY <1>0, <2>1, <2>2, <3>2, <4>1
      <3> QED
        BY <3>1, <3>2
    <2> QED
      BY <2>4, <2>5
  <1>7. ASSUME NEW s \in NodeId, NEW status \in Terminal, NEW r \in RunId \cup {None},
               NEW cost \in Cost, Finish(s, status, r, cost)
        PROVE  Cited(n) /\ \A m \in NodeId' \ {n} :
                             nodes'[m].protocol = nodes'[n].protocol => Apart(n, m)
    <2>1. /\ NodeId' = NodeId /\ runs' = runs /\ RunId' = RunId
          /\ \A m \in NodeId : m # s => nodes'[m] = nodes[m]
      BY <1>7, Settles DEF RunId
    <2>2. /\ nodes'[s].protocol = nodes[s].protocol /\ nodes'[s].state = status
          /\ nodes'[s].run = r /\ nodes'[s].since = nodes[s].since
          /\ nodes[s].state = "selected"
      BY <1>7, Settles DEF SameProposal, Finish
    <2>3. r # None => /\ r \in RunId /\ runs[r].protocol = nodes[s].protocol
                      /\ r > nodes[s].since /\ runs[r].status = status
      BY <1>7 DEF Finish, SettledBy, RunsOf
    <2>4. Cited(n)
      <3>1. CASE n # s
        BY <1>2, <2>1, <3>1
      <3>2. CASE n = s
        BY <2>1, <2>2, <2>3, <3>2
      <3> QED
        BY <3>1, <3>2
    <2>5. ASSUME NEW m \in NodeId' \ {n}, nodes'[m].protocol = nodes'[n].protocol
          PROVE  Apart(n, m)
      <3>1. CASE n # s /\ m # s
        BY <1>3, <2>1, <2>5, <3>1
      <3>2. CASE n # s /\ m = s
        <4>1. nodes[n].run =< nodes[s].since
          BY <1>3, <2>1, <2>2, <2>5, <3>2
        <4> QED
          BY <2>1, <2>2, <3>2, <4>1 DEF Terminal
      <3>3. CASE n = s
        <4>1. m \in NodeId /\ nodes'[m] = nodes[m] /\ nodes[m].protocol = nodes[s].protocol
          BY <2>1, <2>2, <2>5, <3>3
        <4>2. nodes[m].state # "selected"
          BY <2>2, <2>5, <3>3, <4>1 DEF SelectedAlone
        <4>3. nodes[m].run # None => nodes[m].run =< nodes[s].since
          BY <1>3, <2>2, <2>5, <3>3, <4>1
        <4> QED
          BY <2>2, <3>3, <4>1, <4>2, <4>3
      <3> QED
        BY <3>1, <3>2, <3>3
    <2> QED
      BY <2>4, <2>5
  <1>8. ASSUME NEW p \in Protocol, NEW original \in RunsOf(p) \cup {None}, StartRun(p, original)
        PROVE  Cited(n) /\ \A m \in NodeId' \ {n} :
                             nodes'[m].protocol = nodes'[n].protocol => Apart(n, m)
    <2>1. /\ nodes' = nodes /\ NodeId' = NodeId /\ RunId \subseteq RunId'
          /\ \A q \in RunId : runs'[q] = runs[q]
      BY <1>8, Starts DEF NodeId
    <2> QED
      BY <1>2, <1>3, <2>1
  <1>9. ASSUME NEW q \in RunId, NEW status \in Verdict, FinishRun(q, status)
        PROVE  Cited(n) /\ \A m \in NodeId' \ {n} :
                             nodes'[m].protocol = nodes'[n].protocol => Apart(n, m)
    <2>1. /\ nodes' = nodes /\ NodeId' = NodeId /\ RunId' = RunId
          /\ \A k \in RunId : k # q => runs'[k] = runs[k]
          /\ runs[q].status = "running"
      BY <1>9, Ends DEF NodeId
    <2>2. nodes[n].run \in RunId /\ nodes[n].run # q
      BY <1>2, <2>1
    <2> QED
      BY <1>2, <1>3, <2>1, <2>2
  <1> HIDE DEF Cited, Apart
  <1> QED
    BY <1>4, <1>5, <1>6, <1>7, <1>8, <1>9, Steps

-----------------------------------------------------------------------------
\* Bounds.

LEMMA RepairsFinite ==
    ASSUME TypeOK, NEW n \in NodeId
    PROVE  IsFiniteSet(Repairs(n)) /\ Cardinality(Repairs(n)) \in Nat
  <1>1. NodeId = 1 .. Len(nodes) /\ Len(nodes) \in Nat
    BY DEF TypeOK, NodeId
  <1>2. IsFiniteSet(NodeId)
    BY <1>1, FS_Interval
  <1>3. Repairs(n) \in SUBSET NodeId
    BY DEF Repairs
  <1>4. IsFiniteSet(Repairs(n))
    BY <1>2, <1>3, FS_Subset
  <1> QED
    BY <1>4, FS_CardinalityType

LEMMA NextRetriesBounded ==
    ASSUME IInv, [Next]_vars
    PROVE  RetriesBounded'
  <1> USE DEF IInv
  <1>1. \A n \in NodeId : nodes'[n].tree = nodes[n].tree
    BY ProposalsStay DEF SameProposal
  <1>2. CASE NodeId' = NodeId
    <2>1. \A n \in NodeId : Repairs(n)' = Repairs(n)
      BY <1>2, ProposalsStay DEF SameProposal, Repairs
    <2> QED
      BY <1>1, <1>2, <2>1 DEF RetriesBounded
  <1>3. ASSUME NEW t \in Tree, NEW p \in Protocol, NEW action \in Action,
               NEW parent \in NodesOf(t) \cup {None}, NEW estimate \in Estimate[p],
               AddNode(t, parent, p, action, estimate)
        PROVE  RetriesBounded'
    <2>0. PICK new : new = Len(nodes) + 1
      OBVIOUS
    <2>1. /\ NodeId = 1 .. Len(nodes) /\ Len(nodes) \in Nat
          /\ NodeId' = NodeId \cup {new}
          /\ \A m \in NodeId : nodes'[m] = nodes[m]
          /\ nodes'[new] = NewNode(t, parent, p, action, estimate)
          /\ parent # None => parent \in NodeId /\ nodes[parent].tree = t
          /\ action \in Technical => parent # None
      BY <1>3, <2>0, Added
    <2>2. /\ nodes'[new].tree = t /\ nodes'[new].action = action
          /\ nodes'[new].root = Root(parent, action)
      BY <2>1 DEF NewNode
    <2>3. new \notin NodeId
      BY <2>0, <2>1
    <2>4. \A u \in Tree : Policy[u].max_retries \in Nat
      BY SearchAssumption
    <2>5. Cardinality(Repairs(new)') =< Policy[nodes'[new].tree].max_retries
      <3>1. \A m \in NodeId : nodes[m].root # new
        BY <2>1, <2>3 DEF TypeOK, NodeId
      <3>2. action \in Technical => nodes'[new].root # new
        <4>1. action \in Technical => Root(parent, action) = nodes[parent].root
          BY DEF Root
        <4> QED
          BY <2>1, <2>2, <3>1, <4>1
      <3>3. Repairs(new)' = {}
        BY <2>1, <2>2, <3>1, <3>2 DEF Repairs
      <3> QED
        BY <2>2, <2>4, <3>3, FS_EmptySet
    <2>6. ASSUME NEW n \in NodeId
          PROVE  Cardinality(Repairs(n)') =< Policy[nodes'[n].tree].max_retries
      <3>1. CASE action \in Technical /\ n = Root(parent, action)
        <4>1. Repairs(n)' = Repairs(n) \cup {new}
          BY <2>1, <2>2, <2>3, <3>1 DEF Repairs
        <4>2. n = nodes[parent].root /\ nodes[n].tree = t
          BY <2>1, <3>1 DEF Root, RootOfTree
        <4>3. Cardinality(Repairs(n)) < Policy[t].max_retries
          <5>1. RetryAllowed(t, parent)
            BY <1>3, <3>1 DEF AddNode, MayAdd, Admissible, Technical
          <5> QED
            BY <4>2, <5>1 DEF RetryAllowed
        <4>4. Cardinality(Repairs(n)') =< Cardinality(Repairs(n)) + 1
              /\ Cardinality(Repairs(n)) \in Nat /\ Cardinality(Repairs(n)') \in Nat
          <5>1. IsFiniteSet(Repairs(n)) /\ Cardinality(Repairs(n)) \in Nat
            BY RepairsFinite
          <5>2. Cardinality(Repairs(n) \cup {new}) =
                  IF new \in Repairs(n) THEN Cardinality(Repairs(n))
                  ELSE Cardinality(Repairs(n)) + 1
            BY <5>1, FS_AddElement
          <5> HIDE DEF Repairs
          <5> QED
            BY <4>1, <5>1, <5>2
        <4> QED
          BY <1>1, <2>4, <4>2, <4>3, <4>4
      <3>2. CASE ~(action \in Technical /\ n = Root(parent, action))
        <4>1. Repairs(n)' = Repairs(n)
          BY <2>1, <2>2, <2>3, <3>2 DEF Repairs
        <4> QED
          BY <1>1, <4>1 DEF RetriesBounded
      <3> QED
        BY <3>1, <3>2
    <2> QED
      BY <2>1, <2>5, <2>6 DEF RetriesBounded
  <1> QED
    BY <1>2, <1>3, NodesGrow

\* What one node adds to a sum.
LEMMA CountUnits ==
    ASSUME NEW n, NEW lo \in Nat, NEW hi \in Nat
    PROVE  /\ IsFiniteSet(Units(n, lo, hi))
           /\ Cardinality(Units(n, lo, hi)) = IF lo > hi THEN 0 ELSE hi - lo + 1
           /\ lo = 1 => Cardinality(Units(n, lo, hi)) = hi
  <1>1. /\ IsFiniteSet(lo .. hi)
        /\ Cardinality(lo .. hi) = IF lo > hi THEN 0 ELSE hi - lo + 1
    BY FS_Interval
  <1>2. IsFiniteSet({n}) /\ Cardinality({n}) = 1
    BY FS_Singleton
  <1>3. /\ IsFiniteSet(Units(n, lo, hi))
        /\ Cardinality(Units(n, lo, hi)) = 1 * Cardinality(lo .. hi)
    BY <1>1, <1>2, FS_Product DEF Units
  <1>4. Cardinality(lo .. hi) \in Nat
    BY <1>1, FS_CardinalityType
  <1> QED
    BY <1>1, <1>3, <1>4

LEMMA CountDisjoint ==
    ASSUME NEW A, IsFiniteSet(A), NEW B, IsFiniteSet(B), A \cap B = {}
    PROVE  /\ IsFiniteSet(A \cup B) /\ Cardinality(A) \in Nat
           /\ Cardinality(A \cup B) = Cardinality(A) + Cardinality(B)
  <1>1. /\ IsFiniteSet(A \cup B)
        /\ Cardinality(A \cup B) = Cardinality(A) + Cardinality(B) - Cardinality(A \cap B)
    BY FS_Union
  <1>2. Cardinality(A) \in Nat /\ Cardinality(B) \in Nat /\ Cardinality(A \cap B) = 0
    BY FS_CardinalityType, FS_EmptySet
  <1> QED
    BY <1>1, <1>2

\* A step about one node n changes the sums of its tree by what n adds or no
\* longer adds, and those of no other tree.
LEMMA SumsByNode ==
    ASSUME NodeId' = NodeId, NEW n \in NodeId, nodes'[n].tree = nodes[n].tree,
           \A m \in NodeId : m # n => nodes'[m] = nodes[m],
           NEW t \in Tree
    PROVE  /\ n \notin Selected(t) /\ n \notin Selected(t)' =>
                ReservedUnits(t)' = ReservedUnits(t)
           /\ n \notin Selected(t) /\ n \in Selected(t)' =>
                ReservedUnits(t)' = ReservedUnits(t) \cup Units(n, 1, nodes'[n].estimate)
           /\ n \in Selected(t) /\ n \notin Selected(t)' =>
                ReservedUnits(t) = ReservedUnits(t)' \cup Units(n, 1, nodes[n].estimate)
           /\ n \notin Settled(t) /\ n \notin Settled(t)' =>
                SpentUnits(t)' = SpentUnits(t) /\ OverrunUnits(t)' = OverrunUnits(t)
           /\ n \notin Settled(t) /\ n \in Settled(t)' =>
                /\ SpentUnits(t)' = SpentUnits(t) \cup Units(n, 1, nodes'[n].cost)
                /\ OverrunUnits(t)' =
                     OverrunUnits(t) \cup Units(n, nodes'[n].estimate + 1, nodes'[n].cost)
  <1>1. \A m \in NodeId \ {n} : /\ m \in Selected(t)' <=> m \in Selected(t)
                                /\ m \in Settled(t)' <=> m \in Settled(t)
    BY DEF Selected, Settled, NodesOf
  <1>2. /\ Selected(t) \subseteq NodeId /\ Selected(t)' \subseteq NodeId
        /\ Settled(t) \subseteq NodeId /\ Settled(t)' \subseteq NodeId
    BY DEF Selected, Settled, NodesOf
  <1> HIDE DEF Selected, Settled, NodesOf, NodeId
  <1>3. ASSUME n \notin Selected(t), n \notin Selected(t)'
        PROVE  ReservedUnits(t)' = ReservedUnits(t)
    <2>1. Selected(t)' = Selected(t) /\ \A m \in Selected(t) : nodes'[m] = nodes[m]
      BY <1>1, <1>2, <1>3
    <2> QED
      BY <2>1 DEF ReservedUnits
  <1>4. ASSUME n \notin Selected(t), n \in Selected(t)'
        PROVE  ReservedUnits(t)' = ReservedUnits(t) \cup Units(n, 1, nodes'[n].estimate)
    <2>1. Selected(t)' = Selected(t) \cup {n} /\ \A m \in Selected(t) : nodes'[m] = nodes[m]
      BY <1>1, <1>2, <1>4
    <2> QED
      BY <2>1 DEF ReservedUnits
  <1>5. ASSUME n \in Selected(t), n \notin Selected(t)'
        PROVE  ReservedUnits(t) = ReservedUnits(t)' \cup Units(n, 1, nodes[n].estimate)
    <2>1. Selected(t) = Selected(t)' \cup {n} /\ \A m \in Selected(t)' : nodes'[m] = nodes[m]
      BY <1>1, <1>2, <1>5
    <2> QED
      BY <2>1 DEF ReservedUnits
  <1>6. ASSUME n \notin Settled(t), n \notin Settled(t)'
        PROVE  SpentUnits(t)' = SpentUnits(t) /\ OverrunUnits(t)' = OverrunUnits(t)
    <2>1. Settled(t)' = Settled(t) /\ \A m \in Settled(t) : nodes'[m] = nodes[m]
      BY <1>1, <1>2, <1>6
    <2> QED
      BY <2>1 DEF SpentUnits, OverrunUnits
  <1>7. ASSUME n \notin Settled(t), n \in Settled(t)'
        PROVE  /\ SpentUnits(t)' = SpentUnits(t) \cup Units(n, 1, nodes'[n].cost)
               /\ OverrunUnits(t)' =
                    OverrunUnits(t) \cup Units(n, nodes'[n].estimate + 1, nodes'[n].cost)
    <2>1. Settled(t)' = Settled(t) \cup {n} /\ \A m \in Settled(t) : nodes'[m] = nodes[m]
      BY <1>1, <1>2, <1>7
    <2>2. SpentUnits(t)' = SpentUnits(t) \cup Units(n, 1, nodes'[n].cost)
      BY <2>1 DEF SpentUnits
    <2>3. OverrunUnits(t)' =
            OverrunUnits(t) \cup Units(n, nodes'[n].estimate + 1, nodes'[n].cost)
      BY <2>1 DEF OverrunUnits
    <2> QED
      BY <2>2, <2>3
  <1> QED
    BY <1>3, <1>4, <1>5, <1>6, <1>7

LEMMA SameNodesSameSums ==
    ASSUME NEW t \in Tree, Selected(t)' = Selected(t), Settled(t)' = Settled(t),
           \A m \in Selected(t) \cup Settled(t) : nodes'[m] = nodes[m]
    PROVE  /\ ReservedUnits(t)' = ReservedUnits(t) /\ SpentUnits(t)' = SpentUnits(t)
           /\ OverrunUnits(t)' = OverrunUnits(t)
  <1> HIDE DEF Selected, Settled
  <1>1. ReservedUnits(t)' = ReservedUnits(t)
    BY DEF ReservedUnits
  <1>2. SpentUnits(t)' = SpentUnits(t)
    BY DEF SpentUnits
  <1>3. OverrunUnits(t)' = OverrunUnits(t)
    BY DEF OverrunUnits
  <1> QED
    BY <1>1, <1>2, <1>3

\* A selection reserves what is affordable.
LEMMA SelectKeepsBudget ==
    ASSUME IInv, NEW n \in NodeId, Select(n), NEW t \in Tree, t = nodes[n].tree
    PROVE  /\ IsFiniteSet(ReservedUnits(t)') /\ SpentUnits(t)' = SpentUnits(t)
           /\ OverrunUnits(t)' = OverrunUnits(t)
           /\ (Spent(t) + Reserved(t))' =< Policy[t].budget + Overrun(t)'
  <1> USE DEF IInv
  <1>1. /\ NodeId' = NodeId /\ \A m \in NodeId : m # n => nodes'[m] = nodes[m]
        /\ nodes'[n].tree = nodes[n].tree /\ nodes'[n].estimate = nodes[n].estimate
        /\ nodes'[n].state = "selected" /\ nodes[n].state = "pending"
    BY Selects DEF SameProposal, Select
  <1>2. nodes[n].estimate \in Nat
    <2>1. nodes[n] \in Node
      BY DEF TypeOK, NodeId
    <2> QED
      BY <2>1 DEF Node
  <1>3. n \notin Selected(t) /\ n \in Selected(t)' /\ n \notin Settled(t) /\ n \notin Settled(t)'
    BY <1>1 DEF Selected, Settled, NodesOf, Terminal
  <1>4. /\ ReservedUnits(t)' = ReservedUnits(t) \cup Units(n, 1, nodes[n].estimate)
        /\ SpentUnits(t)' = SpentUnits(t) /\ OverrunUnits(t)' = OverrunUnits(t)
    BY <1>1, <1>3, SumsByNode
  <1>5. ReservedUnits(t) \cap Units(n, 1, nodes[n].estimate) = {}
    BY <1>3 DEF ReservedUnits, Units
  <1>6. /\ IsFiniteSet(ReservedUnits(t)) /\ IsFiniteSet(SpentUnits(t))
        /\ IsFiniteSet(OverrunUnits(t))
    BY DEF UnitsFinite
  <1>7. /\ IsFiniteSet(ReservedUnits(t)')
        /\ Cardinality(ReservedUnits(t)') = Reserved(t) + nodes[n].estimate
    <2>1. /\ IsFiniteSet(Units(n, 1, nodes[n].estimate))
          /\ Cardinality(Units(n, 1, nodes[n].estimate)) = nodes[n].estimate
      BY <1>2, CountUnits
    <2>2. LET sum == ReservedUnits(t) \cup Units(n, 1, nodes[n].estimate)
          IN  IsFiniteSet(sum) /\ Cardinality(sum) = Reserved(t) + nodes[n].estimate
      BY <1>5, <1>6, <2>1, CountDisjoint DEF Reserved
    <2> QED
      BY <1>4, <2>2
  <1>8. Reserved(t) \in Nat /\ Spent(t) \in Nat /\ Overrun(t) \in Nat
    BY <1>6, FS_CardinalityType DEF Reserved, Spent, Overrun
  <1>9. nodes[n].estimate =< Policy[t].budget - Spent(t) - Reserved(t)
    BY DEF Select, Affordable, Remaining
  <1>10. Policy[t].budget \in Nat
    BY SearchAssumption
  <1>11. /\ Reserved(t)' = Reserved(t) + nodes[n].estimate /\ Spent(t)' = Spent(t)
         /\ Overrun(t)' = Overrun(t)
    BY <1>4, <1>7 DEF Reserved, Spent, Overrun
  <1> QED
    BY <1>2, <1>4, <1>7, <1>8, <1>9, <1>10, <1>11

\* A terminal gives back the reservation and pays the cost.
LEMMA FinishKeepsBudget ==
    ASSUME IInv, NEW n \in NodeId, NEW status \in Terminal, NEW r \in RunId \cup {None},
           NEW cost \in Cost, Finish(n, status, r, cost), NEW t \in Tree, t = nodes[n].tree
    PROVE  /\ IsFiniteSet(ReservedUnits(t)') /\ IsFiniteSet(SpentUnits(t)')
           /\ IsFiniteSet(OverrunUnits(t)')
           /\ (Spent(t) + Reserved(t))' =< Policy[t].budget + Overrun(t)'
  <1> USE DEF IInv
  <1>1. /\ NodeId' = NodeId /\ \A m \in NodeId : m # n => nodes'[m] = nodes[m]
        /\ nodes'[n].tree = nodes[n].tree /\ nodes'[n].estimate = nodes[n].estimate
        /\ nodes'[n].state = status /\ nodes'[n].cost = cost /\ nodes[n].state = "selected"
    BY Settles DEF SameProposal, Finish
  <1>2. nodes[n].estimate \in Nat /\ cost \in Nat
    <2>1. nodes[n] \in Node
      BY DEF TypeOK, NodeId
    <2>2. cost \in Nat
      BY SearchAssumption
    <2> QED
      BY <2>1, <2>2 DEF Node
  <1>3. n \in Selected(t) /\ n \notin Selected(t)' /\ n \notin Settled(t) /\ n \in Settled(t)'
    BY <1>1 DEF Selected, Settled, NodesOf, Terminal
  <1>4. /\ ReservedUnits(t) = ReservedUnits(t)' \cup Units(n, 1, nodes[n].estimate)
        /\ SpentUnits(t)' = SpentUnits(t) \cup Units(n, 1, cost)
        /\ OverrunUnits(t)' = OverrunUnits(t) \cup Units(n, nodes[n].estimate + 1, cost)
    BY <1>1, <1>3, SumsByNode
  <1>5. /\ ReservedUnits(t)' \cap Units(n, 1, nodes[n].estimate) = {}
        /\ SpentUnits(t) \cap Units(n, 1, cost) = {}
        /\ OverrunUnits(t) \cap Units(n, nodes[n].estimate + 1, cost) = {}
    BY <1>3 DEF ReservedUnits, SpentUnits, OverrunUnits, Units
  <1>6. /\ IsFiniteSet(ReservedUnits(t)) /\ IsFiniteSet(SpentUnits(t))
        /\ IsFiniteSet(OverrunUnits(t))
    BY DEF UnitsFinite
  <1>7. IsFiniteSet(ReservedUnits(t)')
    BY <1>4, <1>6, FS_Subset
  <1>8. /\ Reserved(t) = Cardinality(ReservedUnits(t)') + nodes[n].estimate
        /\ Cardinality(ReservedUnits(t)') \in Nat
    <2>1. /\ IsFiniteSet(Units(n, 1, nodes[n].estimate))
          /\ Cardinality(Units(n, 1, nodes[n].estimate)) = nodes[n].estimate
      BY <1>2, CountUnits
    <2> QED
      BY <1>4, <1>5, <1>7, <2>1, CountDisjoint DEF Reserved
  <1>9. /\ IsFiniteSet(SpentUnits(t)')
        /\ Cardinality(SpentUnits(t)') = Spent(t) + cost /\ Spent(t) \in Nat
    <2>1. IsFiniteSet(Units(n, 1, cost)) /\ Cardinality(Units(n, 1, cost)) = cost
      BY <1>2, CountUnits
    <2>2. LET sum == SpentUnits(t) \cup Units(n, 1, cost)
          IN  IsFiniteSet(sum) /\ Cardinality(sum) = Spent(t) + cost /\ Spent(t) \in Nat
      BY <1>5, <1>6, <2>1, CountDisjoint DEF Spent
    <2> QED
      BY <1>4, <2>2
  <1>10. /\ IsFiniteSet(OverrunUnits(t)') /\ Overrun(t) \in Nat
         /\ Cardinality(OverrunUnits(t)') = Overrun(t) +
              (IF nodes[n].estimate + 1 > cost THEN 0 ELSE cost - (nodes[n].estimate + 1) + 1)
    <2>1. nodes[n].estimate + 1 \in Nat
      BY <1>2
    <2>2. /\ IsFiniteSet(Units(n, nodes[n].estimate + 1, cost))
          /\ Cardinality(Units(n, nodes[n].estimate + 1, cost)) =
               IF nodes[n].estimate + 1 > cost THEN 0 ELSE cost - (nodes[n].estimate + 1) + 1
      BY <1>2, <2>1, CountUnits
    <2> QED
      BY <1>4, <1>5, <1>6, <2>2, CountDisjoint DEF Overrun
  <1>11. Spent(t) + Reserved(t) =< Policy[t].budget + Overrun(t)
    BY DEF BudgetHolds
  <1>12. Policy[t].budget \in Nat
    BY SearchAssumption
  <1>13. /\ Reserved(t)' = Cardinality(ReservedUnits(t)')
         /\ Spent(t)' = Cardinality(SpentUnits(t)')
         /\ Overrun(t)' = Cardinality(OverrunUnits(t)')
    BY DEF Reserved, Spent, Overrun
  <1> HIDE DEF Reserved, Spent, Overrun, ReservedUnits, SpentUnits, OverrunUnits
  <1>14. /\ Reserved(t)' = Reserved(t) - nodes[n].estimate
         /\ Spent(t)' = Spent(t) + cost
         /\ Overrun(t)' >= Overrun(t)
         /\ Overrun(t)' >= Overrun(t) + cost - nodes[n].estimate
         /\ Reserved(t) \in Nat /\ Overrun(t)' \in Nat
    BY <1>2, <1>8, <1>9, <1>10, <1>13
  <1>15. (Spent(t) + Reserved(t))' = Spent(t)' + Reserved(t)'
    OBVIOUS
  <1> QED
    BY <1>2, <1>7, <1>9, <1>10, <1>11, <1>12, <1>14, <1>15

LEMMA NextBudget ==
    ASSUME IInv, [Next]_vars
    PROVE  UnitsFinite' /\ BudgetHolds'
  <1> USE DEF IInv
  <1> SUFFICES ASSUME NEW t \in Tree
               PROVE  /\ IsFiniteSet(ReservedUnits(t)') /\ IsFiniteSet(SpentUnits(t)')
                      /\ IsFiniteSet(OverrunUnits(t)')
                      /\ (Spent(t) + Reserved(t))' =< Policy[t].budget + Overrun(t)'
    BY DEF UnitsFinite, BudgetHolds
  <1>1. /\ IsFiniteSet(ReservedUnits(t)) /\ IsFiniteSet(SpentUnits(t))
        /\ IsFiniteSet(OverrunUnits(t)) /\ Spent(t) + Reserved(t) =< Policy[t].budget + Overrun(t)
    BY DEF UnitsFinite, BudgetHolds
  <1>2. ASSUME /\ ReservedUnits(t)' = ReservedUnits(t) /\ SpentUnits(t)' = SpentUnits(t)
               /\ OverrunUnits(t)' = OverrunUnits(t)
        PROVE  /\ IsFiniteSet(ReservedUnits(t)') /\ IsFiniteSet(SpentUnits(t)')
               /\ IsFiniteSet(OverrunUnits(t)')
               /\ (Spent(t) + Reserved(t))' =< Policy[t].budget + Overrun(t)'
    BY <1>1, <1>2 DEF Spent, Reserved, Overrun
  <1>3. CASE UNCHANGED nodes
    <2>1. Selected(t)' = Selected(t) /\ Settled(t)' = Settled(t)
      BY <1>3 DEF Selected, Settled, NodesOf, NodeId
    <2> QED
      BY <1>2, <1>3, <2>1, SameNodesSameSums
  <1>4. ASSUME NEW u \in Tree, NEW p \in Protocol, NEW action \in Action,
               NEW parent \in NodesOf(u) \cup {None}, NEW estimate \in Estimate[p],
               AddNode(u, parent, p, action, estimate)
        PROVE  /\ ReservedUnits(t)' = ReservedUnits(t) /\ SpentUnits(t)' = SpentUnits(t)
               /\ OverrunUnits(t)' = OverrunUnits(t)
    <2>1. /\ NodeId' = NodeId \cup {Len(nodes) + 1}
          /\ nodes'[Len(nodes) + 1] = NewNode(u, parent, p, action, estimate)
          /\ \A m \in NodeId : nodes'[m] = nodes[m]
      BY <1>4, Added
    <2>2. nodes'[Len(nodes) + 1].state = "pending"
      BY <2>1 DEF NewNode
    <2>3. /\ Selected(t)' = Selected(t) /\ Settled(t)' = Settled(t)
          /\ Selected(t) \subseteq NodeId /\ Settled(t) \subseteq NodeId
      BY <2>1, <2>2 DEF Selected, Settled, NodesOf, Terminal
    <2> QED
      BY <2>1, <2>3, SameNodesSameSums
  <1>5. ASSUME NEW n \in NodeId, NodeId' = NodeId, nodes'[n].tree = nodes[n].tree,
               \A m \in NodeId : m # n => nodes'[m] = nodes[m],
               t # nodes[n].tree
        PROVE  /\ ReservedUnits(t)' = ReservedUnits(t) /\ SpentUnits(t)' = SpentUnits(t)
               /\ OverrunUnits(t)' = OverrunUnits(t)
    <2>1. /\ n \notin Selected(t) /\ n \notin Selected(t)'
          /\ n \notin Settled(t) /\ n \notin Settled(t)'
      BY <1>5 DEF Selected, Settled, NodesOf
    <2> QED
      BY <1>5, <2>1, SumsByNode
  <1>6. ASSUME NEW n \in NodeId, Select(n)
        PROVE  /\ IsFiniteSet(ReservedUnits(t)') /\ IsFiniteSet(SpentUnits(t)')
               /\ IsFiniteSet(OverrunUnits(t)')
               /\ (Spent(t) + Reserved(t))' =< Policy[t].budget + Overrun(t)'
    <2>1. /\ NodeId' = NodeId /\ nodes'[n].tree = nodes[n].tree
          /\ \A m \in NodeId : m # n => nodes'[m] = nodes[m]
      BY <1>6, Selects DEF SameProposal
    <2>2. CASE t = nodes[n].tree
      BY <1>1, <1>6, <2>2, SelectKeepsBudget
    <2>3. CASE t # nodes[n].tree
      BY <1>2, <1>5, <2>1, <2>3
    <2> QED
      BY <2>2, <2>3
  <1>7. ASSUME NEW n \in NodeId, NEW status \in Terminal, NEW r \in RunId \cup {None},
               NEW cost \in Cost, Finish(n, status, r, cost)
        PROVE  /\ IsFiniteSet(ReservedUnits(t)') /\ IsFiniteSet(SpentUnits(t)')
               /\ IsFiniteSet(OverrunUnits(t)')
               /\ (Spent(t) + Reserved(t))' =< Policy[t].budget + Overrun(t)'
    <2>1. /\ NodeId' = NodeId /\ nodes'[n].tree = nodes[n].tree
          /\ \A m \in NodeId : m # n => nodes'[m] = nodes[m]
      BY <1>7, Settles DEF SameProposal
    <2>2. CASE t = nodes[n].tree
      BY <1>7, <2>2, FinishKeepsBudget
    <2>3. CASE t # nodes[n].tree
      BY <1>2, <1>5, <2>1, <2>3
    <2> QED
      BY <2>2, <2>3
  <1> QED
    BY <1>2, <1>3, <1>4, <1>6, <1>7, Steps DEF vars, StartRun, FinishRun

-----------------------------------------------------------------------------

\* The invariant that the others follow from holds in every state.
THEOREM SearchInvariant == Spec => []IInv
  <1>1. Init => IInv
    BY InitIInv
  <1>2. IInv /\ [Next]_vars => IInv'
    <2> SUFFICES ASSUME IInv, [Next]_vars PROVE IInv'
      OBVIOUS
    <2> QED
      BY NextTyped, NextRootOfTree, NextRunsKnown, NextSelectedAlone, NextEligibleParents,
         NextOwnRun, NextRetriesBounded, NextBudget DEF IInv
  <1> QED
    BY <1>1, <1>2, PTL DEF Spec

\* Proposals and runs have the shape of their event schemas (search.py, kernel.py).
THEOREM SearchTyped == Spec => []TypeOK
  <1>1. IInv => TypeOK
    BY DEF IInv
  <1> QED
    BY <1>1, SearchInvariant, PTL

\* Spending and reservations of a tree exceed its budget by recorded overruns
\* only, for every policy, estimate and cost (_projection, select_next).
THEOREM BudgetIsKept == Spec => []BudgetHolds
  <1>1. IInv => BudgetHolds
    BY DEF IInv
  <1> QED
    BY <1>1, SearchInvariant, PTL

\* The repairs of a lineage never exceed max_technical_retries (add_node).
THEOREM RetriesStayBounded == Spec => []RetriesBounded
  <1>1. IInv => RetriesBounded
    BY DEF IInv
  <1> QED
    BY <1>1, SearchInvariant, PTL

\* No two selections are settled by one run, and no selection by a run that was
\* not made under it (finish_selection).
THEOREM RunsAreOwn == Spec => []OwnRun
  <1>1. IInv => OwnRun
    BY DEF IInv
  <1> QED
    BY <1>1, SearchInvariant, PTL

\* Nothing between an outcome that counts and its scientific attempt is a debug
\* attempt: the eligible nodes alone lead back to it (add_node).
THEOREM EvidenceIsScientific == Spec => []NoDebugEvidence
  <1>1. IInv => NoDebugEvidence
    <2> SUFFICES ASSUME IInv, NEW n \in NodeId, nodes[n].eligible, NEW m \in Lineage(n)
                 PROVE  nodes[m].action # "debug"
      BY DEF NoDebugEvidence
    <2> DEFINE S == {k \in NodeId : nodes[k].eligible}
    <2>1. Unbroken(S)
      BY DEF IInv, EligibleParents, Unbroken, Technical
    <2>2. n \in S /\ S \in SUBSET NodeId
      OBVIOUS
    <2>3. m \in S
      BY <2>1, <2>2 DEF Lineage
    <2> QED
      BY <2>3 DEF IInv, EligibleParents
  <1> QED
    BY <1>1, SearchInvariant, PTL

=============================================================================
