------------------------------ MODULE Analysis ------------------------------
(***************************************************************************)
(* From a batch to a claim under review: src/episteme/domain_packs.py,     *)
(* domain_binding.py, batch_analysis.py and analysis_controller.py.        *)
(*                                                                         *)
(* A recipe is bound to a protocol before its batch is planned: by a pack, *)
(* by hand, or by applying a model's proposal.  When the batch is settled, *)
(* one analysis turns its roster into a claim and a planner assigns the    *)
(* reviewer the analysis names.  A pack's hooks run in a child process on  *)
(* exactly the files that were hashed, before the command takes the write  *)
(* lock, and the command reads the files again under it; an adapter of the *)
(* older kind runs inside the command, as it was imported, while its       *)
(* recorded digest is read from the disk.  Somebody may edit the code on   *)
(* the disk at any time.                                                   *)
(*                                                                         *)
(* A command commits only at the revision its caller read, which is        *)
(* "current" while nothing else was committed.  One protocol stands for    *)
(* each batch, and amendments are left out, so a pack's lineage is the     *)
(* protocol itself.  Slots have Batch.tla's life, reviews are Review.tla's:*)
(* here they move in one step each, at the hands of others, "spare" times. *)
(***************************************************************************)
EXTENDS Naturals, Sequences, FiniteSets

CONSTANTS
    Batch,          \* batches, each with its protocol
    Version,        \* contents the code on the disk may have
    Analyser,       \* callers of advance_batch_analysis or advance_pack_analysis
    Reviewer,       \* reviewer identities
    Names,          \* per caller: the reviewer it declares, or None
    Start,          \* histories to start from; bounded for TLC
    MaxAnalyses,    \* bound of the model: analyses of one batch
    None            \* no recipe, no plan, no settlement, no reviewer, no draft

ASSUME AnalysisAssumption ==
    /\ MaxAnalyses \in Nat
    /\ None \notin Reviewer \cup Version
    /\ \A a \in Analyser : Names[a] \in Reviewer

VARIABLES
    code,       \* what the disk holds now
    imported,   \* the versions that some process may still have in memory
    binding,    \* per batch: its protocol's recipe [route, version, compiled], or None
    asked,      \* per batch: the model's request for its recipe [pin, stage], or None
    jobs,       \* per batch: its plan's attempts [Slot -> state], or None
    settled,    \* per batch: None, "completed" or "failed"
    analyses,   \* per batch: admitted analyses in the order of the log
    broken,     \* batches whose protocol had another run after the settlement
    report,     \* what the pinned code says of a batch; fixed per history
    planned,    \* what the protocols preregister [mode, interval]; fixed per history
    spare,      \* what others may still do
    crew,       \* who works in this history
    draft       \* per analyser: the command it has prepared, or None

recipes == <<binding, asked>>

record == <<recipes, jobs, settled, analyses, broken>>

disk == <<code, imported>>

fixed == <<report, planned, crew>>

-----------------------------------------------------------------------------
\* The ceiling on what a report may claim.

Mode == {"descriptive", "exploratory", "confirmatory"}

Rank == [m \in Mode |-> CASE m = "descriptive" -> 0 [] m = "exploratory" -> 1
                          [] m = "confirmatory" -> 2]

\* The fields that a pack may leave out with a reason.
Field == {"estimand", "uncertainty", "confidence_interval", "effect_size", "assumptions",
          "multiple_testing", "stopping_rule", "sensitivity_analysis", "deviations"}

\* A report: the state of each field, the fields whose content differs from
\* the preregistration, those it lists as deviations, whether every assumption
\* holds, and the claim it proposes.
Report == [status : [Field -> {"supplied", "not_supplied", "not_applicable"}],
           differs : SUBSET {"estimand", "uncertainty", "stopping_rule", "sample_size"},
           listed : SUBSET (Field \cup {"sample_size"}), holds : BOOLEAN,
           mode : Mode, outcome : {"supports", "refutes", "inconclusive"}]

\* What a protocol preregisters.
Design == [mode : Mode, interval : BOOLEAN]

Supplied(rep, f) == f \in {"sample_size"} \/ rep.status[f] = "supplied"

\* not_applicable_permitted, for designs that correct for multiple testing
NotApplicable(design) ==
    (IF design.interval THEN {} ELSE {"uncertainty", "confidence_interval"})
    \cup (IF design.mode = "descriptive" THEN {"effect_size"} ELSE {})

WellFormed(rep, design) ==
    {f \in Field : rep.status[f] = "not_applicable"} \subseteq NotApplicable(design)

\* What the kernel finds itself; a field that is left out shows nothing.
Detected(rep) == {f \in rep.differs : Supplied(rep, f)}

Listed(rep) == IF Supplied(rep, "deviations") THEN rep.listed ELSE {}

Estimated(rep) == Supplied(rep, "confidence_interval") /\ Supplied(rep, "effect_size")

\* Conclusions about the analysed units only.
UnitsOnly(design) == design.mode = "descriptive" /\ ~design.interval

Complete(rep) ==
    /\ \A f \in Field : rep.status[f] # "not_supplied"
    /\ Supplied(rep, "deviations") /\ Supplied(rep, "assumptions") /\ rep.holds
    /\ "sample_size" \notin rep.differs

Lower(m, n) == IF Rank[m] <= Rank[n] THEN m ELSE n

\* Mutant: a report that says nothing of deviations is not capped for it.
CapWithoutSilence(rep, design) ==
    IF Listed(rep) # {} THEN Lower(design.mode, "exploratory") ELSE design.mode

Cap(rep, design) ==
    IF \/ Listed(rep) # {} \/ ~Supplied(rep, "deviations")
       \/ design.mode = "confirmatory" /\ ~Complete(rep)
    THEN Lower(design.mode, "exploratory")
    ELSE design.mode

WithinCeiling(rep, design) ==
    /\ WellFormed(rep, design)
    /\ Detected(rep) \subseteq Listed(rep)
    /\ Rank[rep.mode] <= Rank[Cap(rep, design)]
    /\ rep.outcome # "inconclusive" /\ ~Estimated(rep) =>
         UnitsOnly(design) /\ rep.mode = "descriptive"

\* The same report with one field more, which is no deviation.
FilledIn(rep, f) == [rep EXCEPT !.status = [@ EXCEPT ![f] = "supplied"], !.listed = @ \ {f}]

-----------------------------------------------------------------------------
\* What the log says of a batch.

Slot == {"primary", "reanalysis"}

Terminal == {"completed", "failed", "blocked_dependency"}

Planned(b) == jobs[b] # None

Status(b, s) ==
    IF jobs[b][s] # "none" THEN jobs[b][s]
    ELSE IF s = "primary" \/ jobs[b]["primary"] = "completed" THEN "pending"
    ELSE IF jobs[b]["primary"] = "failed" THEN "blocked_dependency"
    ELSE "waiting_primary"

Open(b) == Planned(b) /\ settled[b] = None

\* pack_lineage
IsPack(b) == binding[b] # None /\ binding[b].route = "pack"

Recipes == [route : {"pack", "manual", "model"}, version : Version \cup {None},
            compiled : Version \cup {None}]

Recipe(route, version, compiled) == [route |-> route, version |-> version, compiled |-> compiled]

\* A task is the batch, its settlement, the pinned or recorded code, and the
\* report itself.
Task(entry) == <<entry.source, entry.computed>>

Reviewed(entry) == entry.opinion # None

\* analysis_state
Progress(b) ==
    CASE settled[b] = None -> "awaiting_settlement"
      [] settled[b] = "failed" -> "repair_evidence"
      [] settled[b] = "completed" ->
           IF analyses[b] = << >> THEN "awaiting_analysis"
           ELSE IF b \in broken THEN "stale_evidence"
           ELSE IF \E i \in DOMAIN analyses[b] : analyses[b][i].assigned = 0
                THEN "awaiting_assignment"
           ELSE IF \E i \in DOMAIN analyses[b] : ~Reviewed(analyses[b][i])
                THEN "awaiting_review"
           ELSE "review_recorded"

-----------------------------------------------------------------------------
\* Handlers: when a command is admitted, and what it leaves in the log.

\* The states of attempts that a plan records, and what a workspace may hold.
Outcome == {"completed", "failed", None}

Plans == [Slot -> {"none", "queued", "unknown"} \cup Outcome]

\* Histories to start from are such that the handlers lead to: a recipe precedes
\* the plan, the plan its settlement, and a pack's pin is what compiled it.
ASSUME StartAssumption ==
    /\ None \notin Recipes \cup Plans \cup {"completed", "failed"}
    /\ \A h \in Start :
        /\ h.code \in Version /\ h.report \in Report /\ h.design \in Design
        /\ h.binding \in [Batch -> Recipes \cup {None}]
        /\ h.jobs \in [Batch -> Plans \cup {None}]
        /\ h.settled \in [Batch -> {"completed", "failed", None}]
        /\ \A b \in Batch :
             /\ h.jobs[b] # None => h.binding[b] # None
             /\ h.settled[b] # None => h.jobs[b] # None
             /\ h.binding[b] # None /\ h.binding[b].route = "pack" =>
                  h.binding[b].version \in Version /\ h.binding[b].compiled = h.binding[b].version

\* A recipe precedes every plan, and there is one.
MayBind(b) == binding[b] = None /\ ~Planned(b)

MayPlan(b) == binding[b] # None /\ ~Planned(b)

NewPlan == [s \in Slot |-> "none"]

\* require_hook_snapshot and the adapter's digest: what the command names is
\* on the disk when it has the lock.
OnDisk(entry) == code = entry.source

\* _origin: a binding by hand pins the adapter's source, a model's
\* application only names the adapter.
PinnedSource(b, source) == binding[b].route = "manual" => source = binding[b].version

\* Mutant: nobody asks whether the task was applied before.
AnyTask(b, entry) == TRUE

NewTask(b, entry) == \A i \in DOMAIN analyses[b] : Task(analyses[b][i]) # Task(entry)

\* The settled batch of an analysis.
Settled(b) == settled[b] = "completed" /\ b \notin broken /\ Len(analyses[b]) < MaxAnalyses

\* pack.analyse: _admission and PackAnalysis.analyse
MayAnalysePack(b, entry) == entry.source = binding[b].version /\ WithinCeiling(report, planned)

\* analysis.apply: _context and BatchAnalysis.apply
MayAnalyseBatch(b, entry) == PinnedSource(b, entry.source)

MayAnalyse(b, entry) ==
    /\ Settled(b)
    /\ OnDisk(entry)
    /\ NewTask(b, entry)
    /\ IF IsPack(b) THEN MayAnalysePack(b, entry) ELSE MayAnalyseBatch(b, entry)

\* A pack is loaded from the disk, an adapter may have been imported at any
\* earlier time.
Loaded == {code}

\* The child process computes with the bytes it is sent and with nothing else.
Hooks(memory) == memory

Memory(b) == IF IsPack(b) THEN Loaded ELSE imported

\* What a caller prepares: a pack's analysis names the pin, another one the
\* source on the disk, whatever the process has in memory to compute with.
Entry(b, memory, reviewer) ==
    [source |-> IF IsPack(b) THEN binding[b].version ELSE code,
     computed |-> IF IsPack(b) THEN Hooks(memory) ELSE memory,
     reviewer |-> reviewer, assigned |-> 0, opinion |-> None]

\* The claim and its provenance are appended together.
Analysed(b, entry) == analyses' = [analyses EXCEPT ![b] = Append(@, entry)]

\* A second assignment for one basis is refused only after a submission.
MayAssign(b, i) ==
    /\ b \notin broken
    /\ ~Reviewed(analyses[b][i])
    /\ analyses[b][i].assigned < 2

Annotated(b, i, entry) == analyses' = [analyses EXCEPT ![b] = [@ EXCEPT ![i] = entry]]

Assigned(b, i) ==
    Annotated(b, i, [analyses[b][i] EXCEPT !.assigned = @ + 1])

-----------------------------------------------------------------------------
\* What others do.  Each costs one of "spare".

Spend == spare > 0 /\ spare' = spare - 1

Edit ==
    /\ Spend
    /\ code' \in Version \ {code}
    /\ imported' = imported \cup {code'}
    /\ UNCHANGED <<record, fixed>>

\* domain.bind pins the source its caller names, and the application of a
\* model's proposal pins none.
Pinnable(route) == IF route = "manual" THEN Version ELSE {None}

Bind(b, route, version) ==
    /\ Spend
    /\ MayBind(b)
    /\ version \in Pinnable(route)
    /\ binding' = [binding EXCEPT ![b] = Recipe(route, version, None)]
    /\ UNCHANGED <<asked, jobs, settled, analyses, broken, disk, fixed>>

Plan(b) ==
    /\ Spend
    /\ MayPlan(b) /\ ~IsPack(b)
    /\ jobs' = [jobs EXCEPT ![b] = NewPlan]
    /\ UNCHANGED <<recipes, settled, analyses, broken, disk, fixed>>

\* A run outside the batch, which the claim's evidence does not list.
RunAfterwards(b) ==
    /\ Spend
    /\ settled[b] # None
    /\ b \notin broken
    /\ broken' = broken \cup {b}
    /\ UNCHANGED <<recipes, jobs, settled, analyses, disk, fixed>>

\* The model's answer comes in; no hook runs.
Respond(b) ==
    /\ asked[b] # None /\ asked[b].stage = "dispatched"
    /\ asked' = [asked EXCEPT ![b] = [@ EXCEPT !.stage = "answered"]]
    /\ UNCHANGED <<binding, jobs, settled, analyses, broken, disk, fixed, spare>>

Opinion(b, i, verdict) ==
    /\ Spend
    /\ analyses[b][i].assigned > 0
    /\ ~Reviewed(analyses[b][i])
    /\ verdict = "approved" => b \notin broken
    /\ Annotated(b, i, [analyses[b][i] EXCEPT !.opinion = verdict])
    /\ UNCHANGED <<recipes, jobs, settled, broken, disk, fixed>>

-----------------------------------------------------------------------------
\* Commands in two steps: what is read and computed, then the command under
\* the lock.  The hooks run on what is loaded in between; where they run once
\* more as the command prepares, one of the two stands for both.

Draft(kind, b, entry) == [kind |-> kind, batch |-> b, entry |-> entry, revision |-> "current"]

Prepare(a, kind, b, entry) == draft' = [draft EXCEPT ![a] = Draft(kind, b, entry)]

\* require_pin.  Mutant: what was loaded is not compared with the pin.
PinsAnything(pin, memory) == TRUE

Pins(pin, memory) == memory = pin

Prepares(b, memory) == IsPack(b) => Pins(binding[b].version, memory)

\* pack.preregister: the caller names a pin, the hooks compile.
Compile(a, b) ==
    /\ Spend
    /\ MayBind(b)
    /\ \E version \in Version : \E memory \in Loaded :
         /\ Pins(version, memory)
         /\ Prepare(a, "preregister", b, [source |-> version, computed |-> Hooks(memory)])

\* freeze_proposal_binding at any earlier time, and then the request.
Ask(a, b) ==
    /\ Spend
    /\ MayBind(b) /\ asked[b] = None
    /\ \E version \in imported : \E memory \in Loaded :
         /\ Pins(version, memory)
         /\ Prepare(a, "request", b, [source |-> version, computed |-> Hooks(memory)])

\* agent.dispatch and agent.apply_experiment: the pack that was frozen.
OnProposal(a, kind, b) ==
    /\ UNCHANGED spare
    /\ asked[b] # None
    /\ asked[b].stage = (IF kind = "dispatch" THEN "requested" ELSE "answered")
    /\ \E memory \in Loaded :
         /\ Pins(asked[b].pin, memory)
         /\ Prepare(a, kind, b, [source |-> asked[b].pin, computed |-> Hooks(memory)])

DispatchProposal(a, b) == OnProposal(a, "dispatch", b)

ApplyProposal(a, b) == MayBind(b) /\ OnProposal(a, "apply", b)

\* batch.plan of a pack's protocol: the hooks validate the protocol.
Validate(a, b) ==
    /\ Spend
    /\ IsPack(b) /\ MayPlan(b)
    /\ \E memory \in Loaded :
         /\ Pins(binding[b].version, memory)
         /\ Prepare(a, "plan", b, [source |-> binding[b].version, computed |-> Hooks(memory)])

\* advance_batch_analysis and advance_pack_analysis: one reading, at most one
\* command, and again.  They refuse a batch with several analyses or
\* assignments, or with another reviewer.
Analyse(a, b) ==
    /\ UNCHANGED spare
    /\ Progress(b) = "awaiting_analysis"
    /\ \E memory \in Memory(b) :
         /\ Prepares(b, memory)
         /\ Prepare(a, "admit", b, Entry(b, memory, Names[a]))

NameReviewer(a, b) ==
    /\ UNCHANGED spare
    /\ Progress(b) = "awaiting_assignment"
    /\ Len(analyses[b]) = 1
    /\ analyses[b][1].reviewer = Names[a]
    /\ Prepare(a, "assign", b, None)

Read(a, b) ==
    /\ a \in crew
    /\ draft[a] = None
    /\ \/ Compile(a, b) \/ Validate(a, b)
       \/ Ask(a, b) \/ DispatchProposal(a, b) \/ ApplyProposal(a, b)
       \/ Analyse(a, b) \/ NameReviewer(a, b)
    /\ UNCHANGED <<record, disk, fixed>>

Drop(a) ==
    /\ draft[a] # None
    /\ draft' = [draft EXCEPT ![a] = None]
    /\ UNCHANGED <<record, disk, fixed, spare>>

\* What the prepared command finds when it has the lock.
Sendable(d) ==
    /\ d.revision = "current"
    /\ CASE d.kind \in {"preregister", "apply"} -> OnDisk(d.entry) /\ MayBind(d.batch)
         [] d.kind \in {"request", "dispatch"} -> OnDisk(d.entry)
         [] d.kind = "plan" -> OnDisk(d.entry) /\ MayPlan(d.batch)
         [] d.kind = "admit" -> MayAnalyse(d.batch, d.entry)
         [] d.kind = "assign" -> MayAssign(d.batch, 1)

\* admit_binding: the protocol and the pin of the code that compiled it.
Bound(b, entry) ==
    binding' = [binding EXCEPT ![b] = Recipe("pack", entry.source, entry.computed)]

Reached(b, stage) == asked' = [asked EXCEPT ![b] = [@ EXCEPT !.stage = stage]]

Send(a) ==
    LET d == draft[a]
    IN  /\ d # None
        /\ Sendable(d)
        /\ \/ /\ d.kind = "preregister" /\ Bound(d.batch, d.entry)
              /\ UNCHANGED <<asked, jobs, analyses>>
           \/ /\ d.kind = "apply" /\ Bound(d.batch, d.entry) /\ Reached(d.batch, "applied")
              /\ UNCHANGED <<jobs, analyses>>
           \/ /\ d.kind = "request"
              /\ asked' = [asked EXCEPT ![d.batch] = [pin |-> d.entry.source, stage |-> "requested"]]
              /\ UNCHANGED <<binding, jobs, analyses>>
           \/ /\ d.kind = "dispatch" /\ Reached(d.batch, "dispatched")
              /\ UNCHANGED <<binding, jobs, analyses>>
           \/ /\ d.kind = "plan" /\ jobs' = [jobs EXCEPT ![d.batch] = NewPlan]
              /\ UNCHANGED <<recipes, analyses>>
           \/ /\ d.kind = "admit" /\ Analysed(d.batch, d.entry)
              /\ UNCHANGED <<recipes, jobs>>
           \/ /\ d.kind = "assign" /\ Assigned(d.batch, 1)
              /\ UNCHANGED <<recipes, jobs>>
        /\ UNCHANGED <<settled, broken, disk, fixed, spare>>

\* A commit makes every prepared command outdated.
Outdated == [a \in Analyser |-> IF draft[a] = None THEN None
                                ELSE [draft[a] EXCEPT !.revision = "passed"]]

-----------------------------------------------------------------------------
\* Verification and replay.

\* domain_packs.verify and batch_analysis.verify: the code on the disk is the
\* recorded one, and it gives the recorded protocol or result.
Recompiles(b) == code = binding[b].version => binding[b].compiled = code

Matches(b, entry) == code = entry.source => entry.computed = code

\* What the replay demands of the log.
AcceptsBinding(b) == binding[b] # None /\ (IsPack(b) => binding[b].version \in Version)

AcceptsProposal(b) ==
    asked[b] # None /\ asked[b].stage = "applied" =>
        IsPack(b) /\ binding[b].version = asked[b].pin

AcceptsPack(b) ==
    \A i \in DOMAIN analyses[b] :
        analyses[b][i].source = binding[b].version /\ WithinCeiling(report, planned)

AcceptsBatch(b) == \A i \in DOMAIN analyses[b] : PinnedSource(b, analyses[b][i].source)

OneTaskEach(b) ==
    \A i, j \in DOMAIN analyses[b] : Task(analyses[b][i]) = Task(analyses[b][j]) => i = j

Accepts(b) ==
    /\ AcceptsProposal(b)
    /\ analyses[b] # << >> =>
         /\ AcceptsBinding(b)
         /\ settled[b] = "completed"
         /\ OneTaskEach(b)
         /\ IF IsPack(b) THEN AcceptsPack(b) ELSE AcceptsBatch(b)

=============================================================================
