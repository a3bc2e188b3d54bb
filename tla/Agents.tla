------------------------------- MODULE Agents -------------------------------
(***************************************************************************)
(* Model proposals: src/episteme/agents.py, agent_controller.py,           *)
(* pack_proposals.py, and the questions and explanation sets of            *)
(* planning.py that they are asked about.                                  *)
(*                                                                         *)
(* A planner asks a model, within a budget of calls, for hypotheses about  *)
(* a question or for one experiment in a search tree.  The request freezes *)
(* the context the model will see.  A controller dispatches the request    *)
(* once, starts one worker that calls the provider, imports what the       *)
(* worker captured, and applies a valid proposal: hypotheses with a new    *)
(* explanation set, or a protocol with a node of the tree.  Questions,     *)
(* sets and trees go on changing meanwhile.                                *)
(*                                                                         *)
(* As in the code the log is the only shared state; everything else is     *)
(* computed from it, and an event is named by its rank.  A command is one  *)
(* step; a controller's command fails unless the log is as long as when it *)
(* was read.  Studies, roles and hashes of immutable records are left out; *)
(* the protocol and the binding that precede a node are part of the node.  *)
(***************************************************************************)
EXTENDS Integers, Sequences, FiniteSets

CONSTANTS
    Budget,         \* registered call budgets
    MaxCalls,       \* per budget: the calls it admits
    Tree,           \* search trees
    TreeBudget,     \* attempts a tree may spend
    MaxNodes,       \* nodes of a tree
    Attempts,       \* attempts that one proposed experiment reserves
    Completion,     \* what a worker may capture; see CompletionShape
    Controller,
    MaxOthers,      \* events others write on questions, sets and trees; a bound for TLC
    None

\* "sound": the stream is one provider turn without tools; "answer": the
\* captured proposal file; "same": the stream's last message is that file.
CompletionShape == [transport : {"completed", "failed", "unknown"}, sound : BOOLEAN,
                    answer : {"proposed", "abstained", "malformed"}, same : BOOLEAN]

ASSUME AgentsAssumption ==
    /\ MaxCalls \in [Budget -> Nat]
    /\ TreeBudget \in Nat /\ MaxNodes \in Nat /\ Attempts \in Nat
    /\ Completion \subseteq CompletionShape
    /\ None \notin Nat \cup Tree

VARIABLES
    log,        \* the events of planning, proposals and the trees they concern
    ctl,        \* per controller: what it is doing
    fresh,      \* controllers that read the log since its last event
    worker,     \* per dispatch (its rank): the worker of its workspace
    captured,   \* per dispatch: the worker's completion file
    calls       \* per dispatch: calls made to the provider (history)

vars == <<log, ctl, fresh, worker, captured, calls>>

-----------------------------------------------------------------------------
\* Reading a history h.

Of(h, kind) == {i \in DOMAIN h : h[i].kind = kind}

\* A question or set that has a revision is no head.
Revised(h, i) == \E j \in Of(h, h[i].kind) : h[j].parent = i

\* The first record of the lineage of i.
Root(h, i) ==
    LET root[j \in DOMAIN h] == IF h[j].parent = None THEN j ELSE root[h[j].parent]
    IN  root[i]

\* binding_for: a set and its question, both still heads.
CurrentBinding(h, s) == /\ s \in Of(h, "set")
                        /\ ~Revised(h, s)
                        /\ ~Revised(h, h[s].question)

\* Events that no request wrote; the first two are there from the start.
Others(h) == {i \in Of(h, "question") \cup Of(h, "set") \cup Of(h, "node") \cup Of(h, "evidence") :
                h[i].by = None /\ i > 2}

\* What a request about the tree t sees of it: nodes, runs, results, claims,
\* links, reviews, exposures, batches and selections.
Seen(h, t) == {i \in Of(h, "node") \cup Of(h, "evidence") : h[i].tree = t}

NodesOf(h, t) == {i \in Of(h, "node") : h[i].tree = t}

Remaining(h, t) ==
    TreeBudget - Attempts * Cardinality({i \in Of(h, "evidence") : h[i].tree = t /\ h[i].spends})

RoomIn(h, t) ==
    /\ Remaining(h, t) >= Attempts
    /\ Cardinality(NodesOf(h, t)) < MaxNodes

\* The context that is frozen for the model, as far as it can change.
Context(h, q) ==
    IF q.task = "hypotheses" THEN {q.question} ELSE {q.question, q.set} \cup Seen(h, q.tree)

\* Whether a context can be formed from h at all.
Askable(h, q) ==
    IF q.task = "hypotheses" THEN ~Revised(h, q.question)
    ELSE CurrentBinding(h, q.set) /\ h[q.set].question = q.question /\ RoomIn(h, q.tree)

RequestsOf(h, b) == {i \in Of(h, "request") : h[i].budget = b}

\* Dispatch, response and application of the request r: at most one each.
Steps(h, kind, r) == {i \in Of(h, kind) : h[i].request = r}

Reached(h, kind, r) == Steps(h, kind, r) # {}

ResponseOf(h, r) == h[CHOOSE i \in Steps(h, "response", r) : TRUE]

DispatchOf(h, r) == CHOOSE i \in Steps(h, "dispatch", r) : TRUE

\* agent_state
Status(h, r) == IF Reached(h, "application", r) THEN "applied"
                ELSE IF Reached(h, "response", r) THEN ResponseOf(h, r).status
                ELSE IF Reached(h, "dispatch", r) THEN "unknown"
                ELSE "queued"

\* Mutant: an answer counts although the turn that gave it was not clean.
AssessmentOfAnswer(task, c) ==
    IF c.transport # "completed" THEN "failed"
    ELSE IF c.answer = "malformed" THEN "invalid"
    ELSE c.answer

\* _stream and _completion: what the captured bytes amount to.  Only an
\* experiment's file is compared with the stream (request schemas 2 and 3);
\* hypotheses (schema 1) are taken from the file alone.
Assessment(task, c) ==
    IF c.transport # "completed" THEN "failed"
    ELSE IF ~c.sound \/ c.answer = "malformed" \/ (task = "experiment" /\ ~c.same) THEN "invalid"
    ELSE c.answer

-----------------------------------------------------------------------------
\* Questions and explanation sets (planning.py), and the trees' own life.

ValidQuestion(h, parent) == parent # None => parent \in Of(h, "question") /\ ~Revised(h, parent)

ValidSet(h, question, parent) ==
    /\ question \in Of(h, "question") /\ ~Revised(h, question)
    /\ parent # None =>
         /\ parent \in Of(h, "set") /\ ~Revised(h, parent)
         /\ Root(h, h[parent].question) = Root(h, question)

\* A controller's command expects the revision it read, so it conflicts with
\* every event since.
Write(events) == log' = log \o events /\ fresh' = {}

Idle == [at |-> "idle", request |-> None]

Init == /\ log = << [kind |-> "question", parent |-> None, by |-> None],
                    [kind |-> "set", question |-> 1, parent |-> None, by |-> None] >>
        /\ ctl = [c \in Controller |-> Idle]
        /\ fresh = {}
        /\ worker = << >> /\ captured = << >> /\ calls = << >>

Question(parent) ==
    /\ ValidQuestion(log, parent)
    /\ Cardinality(Others(log)) < MaxOthers
    /\ Write(<< [kind |-> "question", parent |-> parent, by |-> None] >>)
    /\ UNCHANGED <<ctl, worker, captured, calls>>

ExplanationSet(question, parent) ==
    /\ ValidSet(log, question, parent)
    /\ Cardinality(Others(log)) < MaxOthers
    /\ Write(<< [kind |-> "set", question |-> question, parent |-> parent, by |-> None] >>)
    /\ UNCHANGED <<ctl, worker, captured, calls>>

\* Another planner adds a node, or the selections, attempts, runs and claims of
\* the nodes go on.
TreeEvent(e) ==
    /\ Cardinality(Others(log)) < MaxOthers
    /\ IF e.kind = "node" THEN Cardinality(NodesOf(log, e.tree)) < MaxNodes
       ELSE NodesOf(log, e.tree) # {} /\ (e.spends => Remaining(log, e.tree) >= Attempts)
    /\ Write(<<e>>)
    /\ UNCHANGED <<ctl, worker, captured, calls>>

-----------------------------------------------------------------------------
\* Commands about a request.

\* Mutant: calls that were answered free their place in the budget.
WithinOpenCalls(h, b) ==
    Cardinality({r \in RequestsOf(h, b) : ~Reached(h, "response", r)}) < MaxCalls[b]

\* Every request counts, whatever became of it.
WithinBudget(h, b) == Cardinality(RequestsOf(h, b)) < MaxCalls[b]

\* request_hypotheses, request_experiment, request_pack_experiment.
Request(q) ==
    /\ WithinBudget(log, q.budget)
    /\ Askable(log, q)
    /\ Write(<< [q EXCEPT !.context = Context(log, q)] >>)
    /\ UNCHANGED <<ctl, worker, captured, calls>>

\* Mutant: the planning records and the tree's room are checked again, what
\* the tree has seen since is not.
StillAskable(h, r) == Askable(h, h[r])

\* _experiment_current and pack_proposals.context: the frozen context is what
\* a request would freeze now.
Unchanged(h, r) == Askable(h, h[r]) /\ Context(h, h[r]) = h[r].context

\* Mutant: the model is asked without another look at its context.
MayDispatchOnce(r) == ~Reached(log, "dispatch", r)

MayDispatch(r) ==
    /\ ~Reached(log, "dispatch", r)
    /\ Unchanged(log, r)

MayFinalize(r) ==
    /\ Reached(log, "dispatch", r) /\ ~Reached(log, "response", r)

MayApply(r) ==
    /\ Status(log, r) = "proposed"
    /\ Unchanged(log, r)

\* What an application creates before its own record.
Created(r) ==
    IF log[r].task = "hypotheses"
    THEN [kind |-> "set", question |-> log[r].question, parent |-> None, by |-> r]
    ELSE [kind |-> "node", tree |-> log[r].tree, by |-> r]

-----------------------------------------------------------------------------
\* Controllers (agent_controller.py).

Ends(c) == ctl' = [ctl EXCEPT ![c] = Idle] /\ fresh' = fresh \ {c}

\* _snapshot: the state of the request, and the revision of that reading.
Reads(c, at, r) == /\ ctl' = [ctl EXCEPT ![c] = [at |-> at, request |-> r]]
                   /\ fresh' = fresh \cup {c}

HasEvidence(r) ==
    /\ Reached(log, "dispatch", r) /\ ~Reached(log, "response", r)
    /\ LET d == DispatchOf(log, r)
       IN  d \in DOMAIN captured /\ captured[d] # None /\ captured[d].transport # "unknown"

\* advance_agent, work_agent and reconcile_agent: a request that was dispatched
\* is reconciled, never sent again; a captured answer is finalized, a proposed
\* one applied.  Nothing else happens on such a reading; a controller that
\* waited for its worker or has finalized starts over from a new one.
Work(c, r) ==
    /\ ctl[c].at = "idle"
    /\ \/ ~Reached(log, "dispatch", r) /\ Reads(c, "dispatching", r)
       \/ HasEvidence(r) /\ Reads(c, "finalizing", r)
       \/ Status(log, r) = "proposed" /\ Reads(c, "applying", r)
    /\ UNCHANGED <<log, worker, captured, calls>>

Dispatch(c) ==
    LET r == ctl[c].request
    IN  /\ ctl[c].at = "dispatching"
        /\ c \in fresh /\ MayDispatch(r)
        /\ Write(<< [kind |-> "dispatch", request |-> r] >>)
        /\ ctl' = [ctl EXCEPT ![c] = [@ EXCEPT !.at = "dispatched"]]
        /\ UNCHANGED <<worker, captured, calls>>

\* ConflictError ends the call with the state; a stale context raises.
DispatchRefused(c) ==
    /\ ctl[c].at = "dispatching"
    /\ ~(c \in fresh /\ MayDispatch(ctl[c].request))
    /\ Ends(c)
    /\ UNCHANGED <<log, worker, captured, calls>>

\* The workspace of the dispatch is created and filled, and its worker calls
\* the provider.  A controller or worker that stops before the call leaves a
\* dispatch for which nothing else happens.
Launch(c) ==
    LET d == DispatchOf(log, ctl[c].request)
        With(f, value) == [i \in DOMAIN f \cup {d} |-> IF i = d THEN value ELSE f[i]]
    IN  /\ ctl[c].at = "dispatched"
        /\ worker' = With(worker, "calling")
        /\ captured' = With(captured, None)
        /\ calls' = With(calls, IF d \in DOMAIN calls THEN calls[d] + 1 ELSE 1)
        /\ ctl' = [ctl EXCEPT ![c] = Idle]
        /\ UNCHANGED <<log, fresh>>

Capture(d, completion) ==
    /\ worker[d] = "calling"
    /\ worker' = [worker EXCEPT ![d] = "gone"]
    /\ captured' = [captured EXCEPT ![d] = completion]
    /\ UNCHANGED <<log, ctl, fresh, calls>>

WorkerDies(d) ==
    /\ worker[d] = "calling"
    /\ worker' = [worker EXCEPT ![d] = "gone"]
    /\ UNCHANGED <<log, ctl, fresh, captured, calls>>

Finalize(c) ==
    LET r == ctl[c].request
    IN  /\ ctl[c].at = "finalizing"
        /\ c \in fresh /\ MayFinalize(r)
        /\ Write(<< [kind |-> "response", request |-> r,
                     status |-> Assessment(log[r].task, captured[DispatchOf(log, r)])] >>)
        /\ ctl' = [ctl EXCEPT ![c] = Idle]
        /\ UNCHANGED <<worker, captured, calls>>

\* The capture stays for a later reconciliation.
FinalizeConflicts(c) ==
    /\ ctl[c].at = "finalizing"
    /\ c \notin fresh
    /\ Ends(c)
    /\ UNCHANGED <<log, worker, captured, calls>>

Apply(c) ==
    LET r == ctl[c].request
    IN  /\ ctl[c].at = "applying"
        /\ c \in fresh /\ MayApply(r)
        /\ Write(<< Created(r), [kind |-> "application", request |-> r] >>)
        /\ ctl' = [ctl EXCEPT ![c] = Idle]
        /\ UNCHANGED <<worker, captured, calls>>

ApplyRefused(c) ==
    /\ ctl[c].at = "applying"
    /\ ~(c \in fresh /\ MayApply(ctl[c].request))
    /\ Ends(c)
    /\ UNCHANGED <<log, worker, captured, calls>>

Crash(c) == /\ ctl[c].at # "idle"
            /\ Ends(c)
            /\ UNCHANGED <<log, worker, captured, calls>>

-----------------------------------------------------------------------------

Requested == [kind : {"request"}, task : {"hypotheses", "experiment"}, budget : Budget,
              question : Of(log, "question"), set : Of(log, "set") \cup {None},
              tree : Tree \cup {None}, context : {{}}]

\* A request for hypotheses names a question only; one for an experiment its
\* set, with the question that set was made for, and a tree.
WellFormed(q) ==
    IF q.task = "hypotheses" THEN q.set = None /\ q.tree = None
    ELSE /\ q.set # None /\ q.tree # None
         /\ q.question = log[q.set].question

TreeEvents == [kind : {"node"}, tree : Tree, by : {None}]
              \cup [kind : {"evidence"}, tree : Tree, spends : BOOLEAN, by : {None}]

Planner ==
    \/ \E parent \in Of(log, "question") \cup {None} : Question(parent)
    \/ \E question \in Of(log, "question"), parent \in Of(log, "set") \cup {None} :
         ExplanationSet(question, parent)
    \/ \E e \in TreeEvents : TreeEvent(e)
    \/ \E q \in Requested : WellFormed(q) /\ Request(q)

ControllerStep(c) ==
    \/ Dispatch(c) \/ DispatchRefused(c) \/ Launch(c)
    \/ Finalize(c) \/ FinalizeConflicts(c) \/ Apply(c) \/ ApplyRefused(c)

Next ==
    \/ Planner
    \/ \E c \in Controller : ControllerStep(c) \/ Crash(c)
    \/ \E c \in Controller, r \in Of(log, "request") : Work(c, r)
    \/ \E d \in DOMAIN worker : \/ WorkerDies(d)
                                \/ \E completion \in Completion : Capture(d, completion)

Spec == Init /\ [][Next]_vars

-----------------------------------------------------------------------------
\* Properties.

TypeOK ==
    /\ \A i \in DOMAIN log :
         log[i].kind \in {"question", "set", "node", "evidence", "request", "dispatch",
                          "response", "application"}
    /\ ctl \in [Controller ->
         [at : {"idle", "dispatching", "dispatched", "finalizing", "applying"},
          request : Of(log, "request") \cup {None}]]
    /\ fresh \subseteq Controller
    /\ DOMAIN worker \subseteq Of(log, "dispatch")
    /\ worker \in [DOMAIN worker -> {"calling", "gone"}]
    /\ captured \in [DOMAIN worker -> Completion \cup {None}]
    /\ calls \in [DOMAIN worker -> Nat]

\* The records just before an application are those its proposal asks for.
MadeFor(made, h, r) ==
    /\ made.by = r
    /\ IF h[r].task = "hypotheses"
       THEN made.kind = "set" /\ made.question = h[r].question /\ made.parent = None
       ELSE made.kind = "node" /\ made.tree = h[r].tree

\* _index, written for one event after the history h: what every later reader
\* of the log insists on.
Accepts(h, e) ==
    CASE e.kind = "question" -> ValidQuestion(h, e.parent)
      [] e.kind = "set" -> ValidSet(h, e.question, e.parent)
      [] e.kind = "request" -> /\ WithinBudget(h, e.budget)
                               /\ Askable(h, e) /\ e.context = Context(h, e)
      [] e.kind = "dispatch" -> /\ e.request \in Of(h, "request")
                                /\ ~Reached(h, "dispatch", e.request)
                                /\ Unchanged(h, e.request)
      [] e.kind = "response" -> /\ Reached(h, "dispatch", e.request)
                                /\ ~Reached(h, "response", e.request)
      [] e.kind = "application" ->
           /\ Status(SubSeq(h, 1, Len(h) - 1), e.request) = "proposed"
           /\ Unchanged(SubSeq(h, 1, Len(h) - 1), e.request)
           /\ MadeFor(h[Len(h)], h, e.request)
      [] OTHER -> TRUE

\* No sequence of accepted commands writes a log that the replay of agents.py
\* and planning.py refuses: such a log would block every later command.
ReplayAccepts == \A i \in DOMAIN log : Accepts(SubSeq(log, 1, i - 1), log[i])

\* The provider is called at most once for a request, through crashes,
\* retries and racing controllers, and never more often than the budget of the
\* request admits, whatever became of the calls (work_agent: "Fresh intent may
\* launch once, outside SQL; never replay a model call").
CallsWithinBudget ==
    \A b \in Budget :
        LET called == {d \in DOMAIN calls : calls[d] > 0 /\ log[log[d].request].budget = b}
        IN  /\ Cardinality(called) =< MaxCalls[b]
            /\ \A d, e \in called : /\ calls[d] = 1
                                    /\ log[d].request = log[e].request => d = e

\* Between the request and the application of a proposal nothing happened to
\* what the model was shown: its question and set were not revised, its tree
\* saw no other event, so no two applied proposals of one tree overlap.
AppliedToUnchanged ==
    \A a \in Of(log, "application") :
        LET r == log[a].request
            between == {i \in DOMAIN log : r < i /\ i < a - 1}
        IN  /\ \A i \in between \cap (Of(log, "question") \cup Of(log, "set")) :
                 log[i].parent \notin {log[r].question} \cup
                     (IF log[r].task = "experiment" THEN {log[r].set} ELSE {})
            /\ log[r].task = "experiment" =>
                 \A i \in between : i \notin Seen(log, log[r].tree)

\* An applied proposal is the file that the worker of the request's own
\* dispatch captured in its one call, from a clean stream; an experiment's file
\* is moreover what the provider said last.
AppliedIsCaptured ==
    \A a \in Of(log, "application") :
        LET d == DispatchOf(log, log[a].request)
        IN  /\ d \in DOMAIN calls /\ calls[d] = 1
            /\ captured[d].transport = "completed" /\ captured[d].sound
            /\ captured[d].answer = "proposed"
            /\ log[log[a].request].task = "experiment" => captured[d].same

=============================================================================
