# EpistemeOS in TLA+

EpistemeOS is a local research-state kernel.  Several processes on one machine
(planners, executors, analysts, reviewers, and controllers that act for them)
share one *state root*: an SQLite database with an append-only event log and
the receipts of admitted commands, a content-addressed artifact directory, and
workspaces in which research code runs.  Nothing else coordinates them.  Every
change of research state is a command that is admitted in one transaction at
an expected revision of the log; everything with an effect outside the
database (running research code, calling a model or a reviewer, copying a
root) happens between commands and can be interrupted there.

This directory holds TLA+ specifications of that system, TLC configurations
that check them on small instances, and proofs for the TLAPS proof system.
Paths below are relative to `src/src/episteme/`.

## 1. Inventory

| component | state | operations | what makes it correct |
|---|---|---|---|
| **Event store** `store.py` | events, receipts, artifacts; per process a verified copy of both tables with a fingerprint; the open command | `command`, `append`, `put`/`read`, `events`, `receipts`, `snapshot`, `external_checkpoint` | a command takes effect once, under a receipt that verifies; a retry gets the first answer; history only grows; caches show what the database shows |
| **Command admission** `commands.py` | none of its own | `execute` | one handler per transaction; an identifier is bound to one request |
| **Managed execution** `execution.py`, `runner_backend.py` | jobs, dispatches, results in the log; workspace, lock and completion files; processes | `enqueue`, `dispatch`, `finalize`, `work_job`, `reconcile_job`, the worker | research code starts at most once per job, a result is evidence of its own stopped execution, unknown is never guessed |
| **Profile v2, reproduction** `execution_locked.py`, `runner_locked.py`, `environment_closure.py`, `reproduction.py` | environments, job directories, reproduction dispatches | the same with a locked environment; replay of a finished run | as above; a replay never changes the result it replays |
| **Batches** `batch.py`, `batch_controller.py`, `execution_authority.py` | plan, slot bindings, settlement; the authority marker file | `plan`, `enqueue_slot`, `settle`, `advance_batch`, `establish_authority`, `require_authority` | the batch owns its protocol, reanalyses follow completed primaries, the settlement is exact, copies of a root never launch twice |
| **Search** `search.py` | trees with budgets, nodes, selections, terminals; tournaments and ballots | `register_tree`, `add_node`, `select_next`, `finish_selection`, `ballot` | reservations plus spending stay within the budget up to recorded overruns, retries are bounded, one open selection per protocol |
| **Research kernel** `kernel.py`, `protocols.py`, `claims.py`, `claim_context.py` | hypotheses, protocols, exposures, runs, results, claims, links, reviews | `preregister`, `expose_data`, `start_run`, `finish_run`, `claim`, `link_claims`, `review`, `gate` | a confirmatory protocol uses unseen data; a basis changes whenever its evidence does |
| **Planning** `planning.py` | revisions of questions and explanation sets | `question`, `explanation_set` | lineages do not fork; new work binds to heads |
| **Model proposals** `agents.py`, `agent_controller.py`, provider and profile modules | call budgets, requests, dispatches, responses, applications | `register_budget`, `request_*`, `dispatch`, `finalize`, `apply_*`, `advance_agent` | the budget bounds calls, a call is made once, a proposal applies once and only to the state it was made for |
| **Review delivery** `review_assignment.py`, `reviewer_controller.py`, `review_submission.py` | assignments, deliveries, responses, submissions | `assign`, `advance`, `reconcile`, `submit` | a provider is called once per assignment, a verdict binds the evidence that was assigned |
| **Review admission** `review_admission.py` | derived: families, vetoes, approvals | read only | no approval outvotes an open veto; families only merge |
| **Obligations** `replanning.py`, `followup.py`, `resolution.py`, `followup_execution.py`, `proposal_execution.py` | obligations, follow-ups, resolutions, prepared batches | `record_review`, `apply`, `resolve_obligation`, `prepare_next` | one follow-up per obligation, resolution by fresh evidence only, execution while the source is current |
| **Batch analysis** `batch_analysis.py`, `analysis_controller.py`, `domain_binding.py` | analyses | `apply`, `advance_batch_analysis` | one admitted analysis per task, resumable |
| **Domain packs** `domain_packs.py`, `pack_proposals.py`, `hook_worker.py`, `domains/` | bindings and pack analyses; a hook snapshot between hook and command | `preregister`, `analyse`, hooks in a subprocess | a hook's result is used only for the log it was computed from |
| **Cycle controller** `cycle.py` | none of its own | `cycle_step` | at most one command per call, within the attempts budget |
| **State copies** `recovery.py` | staging and target directories | `backup`, `restore` | a copy is complete or not there; it carries no authority to run |
| **Readers** `reporting.py`, `package.py`, `graph.py`, `literature.py` | none | exports, papers, packages | read one snapshot |
| **Other** `cli.py`, `role_profile.py`, `demo.py`, `domains/*` examples | none | parsing, containers, example statistics | no state of the kind modelled here |

**Interactions.**  All components write through `CommandService.execute`, which
calls a handler inside `Store.command`.  Handlers call each other (a batch slot
starts a run and a job; a settlement closes a selection; a follow-up registers
a protocol and a node) and thereby share one transaction and one receipt.
Controllers (`work_job`, `advance_batch`, `advance_agent`,
`ReviewerController.advance`, `cycle_step`) read the log, decide, act outside
and send commands; between any two of these steps others may act.  Processes
meet in three more places: the workspace files of a worker, the authority
marker, and the artifact directory.

**Hard behaviours.**  Retries of committed commands, identifiers used twice,
handlers that fail halfway, caches that are believed without reading, decisions
that are stale when sent, controllers that die between an effect and its
record, workers that are started twice or cannot be stopped, copies of a root
that both think they own its work.  `PROJECT.json` lists each of them under
`hazards`, at the line where it bites, with the properties that cover it or the
reason why none does.

## 2. Modules

```
LedgerData ── Ledger
     │            ▲ implements
     └─────── EventStore ──── EventStoreProofs          MCEventStore

              JobLifecycle
                ▲       ▲ implement
          Execution     Batch                           MCExecution, MCBatch
              │           └── BatchProofs
              └────────────── ExecutionProofs

              Locked ──────── LockedProofs              MCLocked
              Search ──────── SearchProofs              MCSearch
              Agents ──────── AgentsProofs              MCAgents
              Review ──────── ReviewProofs              MCReview

              Analysis ── extended by ── Cycle          MCCycle
                                           └── CycleProofs
```

The modules divide the system along what one command touches.  Execution,
Locked, Batch, Search, Agents, Review and Analysis each have the whole log of
their own components and what reads it; where two of them need the same event,
the second keeps only what it reads of it.  Jobs are JobLifecycle's in Batch,
slots are Batch's in Analysis, reviews are Review's in Analysis.  Review and
Agents take the log itself as their state, name an event by its rank and
compute everything else from it, as the code does.

**LedgerData** — events, receipts, envelopes and answers, reduced to what the
properties tell apart: who acted, which artifact an event names, which request
an identifier was used for, the revision and cause it carried.

**Ledger** — the promise of the store to its callers: three actions, no
transactions, no caches, no crashes.

**EventStore** — `store.py` under `CommandService.execute`.  `log`, `receipts`
and `blobs` are the committed database and the artifact directory; `owner`,
`env`, `rows`, `held`, `poisoned` and `saved` are the open command
(`_command_context`, inserted rows, `_command_rollback_only`, the checkpoint);
`cache`, `rcache` and `fresh` are `_events`, `_receipts` and whether their
fingerprints still hold, per process.  `snap` is an open read transaction and
`reply` an answer on its way.  A command is `Replay`, `Refuse` or `Begin`, then
any sequence of `HandlerPut`, `HandlerAppend`, `HandlerFault`, `HandlerRead`,
then `Commit` or `HandlerRaise`; `Crash` may come at any point.

**JobLifecycle** — what `job_state` reports of one job and how often its
research code has begun.

**Execution** — controllers (`ctl`), workspaces, locks and completion files,
workers and payload processes.  Commands are single steps here, with the two
checks they really have: the expected revision and the handler's own reading of
the log.  `Decide` and `PrepareDispatch` are the two separate readings of
`work_job`.  What is left out: contents of files, environment fingerprints
(`PreflightFails` stands for every failed check) and the heartbeat.

**Batch** — selections, plans, slots, settlement, direct runs, follow-up
fences, `advance_batch`, the marker file, and copies of the root.  A job is
what JobLifecycle says of it.  The roster has for each seed a primary and a
reanalysis; `SlotStatus` is `_cells`.  A *site* is a state root; `Restore` is a
backup followed by a restore and copies the log without the marker.  `Outdate`
stands for whatever makes a follow-up's source stale, without its cause.
The equality of the frozen recipe with domain and pack bindings, the separation
of executor and replicator and the rule that pack-bound protocols run only in
batches are checks of data against frozen data and left out.

**Search** — proposals, selections and terminals of search trees, with the
runs of `kernel.py` that settle them.  `nodes` and `runs` are the log's events
of these kinds in order, so that "started after the selection" is a comparison
of positions (`since`).  A node is selected at most once and therefore carries
its selection and terminal.  The sums of `_projection` are counted unit by unit:
`ReservedUnits`, `SpentUnits` and `OverrunUnits` are sets with one member for
each unit of each node, and an amount is a cardinality (the code computes in
exact fractions, the model in natural numbers).  `Lineage` is the least set that
contains a node and the parent of each repair in it.  `AddNode`, `Select` and `Finish` are the three commands.  Left out:
scores (any eligible node may be chosen), recorded decisions to wait or stop,
tournaments, and the claim a terminal may name.  Search and Batch overlap in
`select_next` and `finish_selection`: Batch keeps what a batch sees of them,
Search everything else, without batches.

**Locked** — execution profile v2 and reproductions: one managed run, the
dispatch that makes its result, and later reproductions of it.  `dir` is an
attempt's job directory (how far it is filled, its program and input tree, its
environment, the marker, the completion), `worker` and `alive` the worker and
the payload processes it may leave.  `Materialize`, `Realize`, `TakeMarker`,
`StartPayload`, `StopConfirmed`/`StopUnconfirmed`, `Record` are the worker's
steps, `Import`, `Finalize`, `Cleanup` the controller's; the payload may change
anything in its directory, the host may clear it (`Vanish`).  Races for the
dispatch and expected revisions are Execution's.  A completed run whose output
lacks the plan's metric (`Unmeasured`) is recorded as failed.

**Agents** — questions and explanation sets with their lineages, call budgets,
requests for hypotheses or one experiment, dispatch, the worker that calls the
provider, import, assessment of what was captured, application.  `Accepts` is
the replay of `agents._index` and `planning._index`.  A controller's command
commits only if the log did not grow since the controller read it (`fresh`);
`reconcile_agent` and `advance_agent` differ in when they read.  A capture is
assessed by the request's task: `_completion` compares the captured file with
the stream's last message for experiments (request schemas 2 and 3), while
hypotheses (schema 1) are read from the file alone and the stream need only be
one clean turn.  `AppliedIsCaptured` says of each task what the code ensures.

**Review** — registration of protocols with the data they declare as shown,
exposures, runs, results, claims, links; families, opinions, obligations,
withdrawals, resolutions, approvals; assignment, delivery, submission,
follow-ups; `NextAction`.  `Bytes` are the data a protocol reads or captured,
`KnownSeen` what the store knows to have been shown, `Exposures` what enters
the basis of a typed claim.  The loops of `protocol_components`,
`resolve_context` and `_descends` are `Reach`: what no set closed under the
steps keeps out.  `Basis` is the set of events whose digest the code
takes.  `Accepts` is the replay that precedes every later command: the `_index`
functions and `_validate_typed_protocol`, each against the history before the
event.  `Sound` says which histories commands can have written: the types of
their events, what each must refer to, and that the replay accepts it; the
histories a run starts from are assumed sound, and TLC evaluates that.  One
review record stands for the events of its command.  Left out:
statements, scopes, seeds, link judgments, reviewer independence (no reviewer
contributes evidence here), reanalysis findings, the job evidence that the gate
asks of confirmatory runs, and the search node a follow-up adds.

**Analysis** — recipes bound to a protocol by a pack, by hand or from a model's
proposal; hooks that run before the write lock and the snapshot that is compared
under it; adapters that run inside the command; code on the disk that anybody
edits (`code`, and `imported` for what processes have in memory); the ceiling on
what a pack's report may claim; one analysis per task; the assignment it names;
verification and replay (`Recompiles`, `Matches`, `Accepts`).  `draft` is the
command an analyser has prepared.  A batch is planned here only after its recipe
was bound; `batch.plan` does not ask for one, but a batch without it can never
be analysed and ends blocked.

**Cycle** — `cycle_step` over Analysis: `Decide`, `Mark`, `Confirm`, `Check`,
`Stamp`, `Commit` or `Refuse`, `Work`, `Return` are the readings and writings of
one call in their order, and `call` holds what the call has read so far.  Whether
the log still stands where a call or a prepared command has read it is the field
`revision`: "none", "current", or "passed" once somebody else committed.  An
error sends the call to "failed" and `Return` reports on every path: `Blocked`
are the reports that name no command (an error, or not exactly one new receipt),
and these say `applied` whenever the log grew, whoever made it grow, and that no
attempt was consumed, even if the call has just dispatched one.  Other
calls, analysers, batch controllers and editors of the code come between any
two.  Follow-ups and replacements of claims are left out of `NextAction`.

**MC\*** modules give the constants values.  Operators that begin with a
comment *Mutant* are deliberate bugs: each is a small change of the definition
after it, and the property named in `PROJECT.json` fails with it.

## 3. What TLC checks

| run | instance | states | shows |
|---|---|---|---|
| `store` | 2 processes, 2 identifiers in 4 envelopes, 1 artifact, 3 events | 79,066 | `AnswersHold` (the ledger's safety: exactly once, receipts verify, answers are recorded); `CopiesAreTrue` (verified copies, ghost rows, snapshot reads); `NoDanglingArtifact`; the refinement `KeepsPromise`; `LockIsReleased` |
| `execution` | 2 jobs, 2 tokens, 2 controllers, 2 workers | 607,592 | `OneAuthorizedStart`, `ResultIsOwnEvidence`, `TerminalMeansStopped`, the refinement `FollowsLifecycle` |
| `execution_live` | 1 job, 1 token, 2 controllers, 1 worker, 1 other command | 5,763 | `EvidenceIsUsed`, `QueuedJobsEnd` |
| `batch` | 1 site, 2 selections of one protocol, 2 seeds, 1 controller | 194,046 | `ProtocolIsOwned`, `ReanalysisHasPrimary`, `SettlementHolds`, the refinement `FollowsLifecycle`, `BatchesSettle` |
| `batch_copies` | 2 sites, 1 selection, 1 seed, 1 controller | 737,816 | `NoSecondLaunch`, `InheritedStaysUnknown` |
| `search` | 1 tree of 4 nodes or 2 trees of one, 2 protocols (one amends the other), 3 runs | 515,141 | `NoDebugEvidence`, `OwnRun`, `BudgetHolds`, `RetriesBounded` |
| `agents` | 2 budgets of one call, 1 tree, 2 controllers, 1 event of others | 755,539 | `ReplayAccepts`, `CallsWithinBudget`, `AppliedToUnchanged`, `AppliedIsCaptured` |
| `review` | 2 reviewers, 13 histories of one or two claims and what may follow each | 59,155 | `ReplayAccepts`, `OwnersWithdraw`, `DemandsMetByNewWork`, `HoldoutIsFresh`, `NoRevival` |
| `locked` | a result and a reproduction, 2 controllers, 3 workers, 2 outputs, one of them without the metric | 2,216,878 | `OneStartPerDispatch`, `RecordedIsWhatRan`, `MatchedWasRerun` |
| `cycle` | 2 batches, 2 versions of the code, 2 calls, 1 analyser, up to 4 acts of others, 4,616 histories | 410,468 | `AttemptsWithinBudget`, `ReportIsTrue`, `AnalysedOnce`, `PackReportsReproduce`, `ClaimsWithinReport`, `StudyAdvances` |
| `review_own` | 2 reviewers, one claim nobody has looked at | – | `CountedApprovalsWithdrawOwn` fails (finding 1) |
| `cycle_assign` | two calls after an admitted analysis | – | `AssignedOnce` fails (finding 2) |

**Findings.**

1. ADR 0018 demands that an approval by a reviewer with open negative opinions
   is a reconsideration that withdraws them, checked at submission.  The policy
   is frozen by the assignment: a reviewer who is assigned blind, then records
   a negative opinion and then submits the blind approval is accepted, and the
   approval counts.  The veto still blocks the paper (`OwnersWithdraw` holds).
2. ADR 0020 and the command reference say that a transition which another call
   has made is not repeated, and that the same review is not assigned twice.
   `_execute` reads the revision of its command after `_assign` made its
   checks, and `review.assign` refuses only after a verdict: two calls that
   overlap there assign one reviewer twice for one basis.

*A smaller divergence, without a run of its own.*  The docstring of `cycle_step`
(cycle.py:88-91) says that admitting or launching an attempt consumes one of the
budget.  On the two blocked returns (cycle.py:133-143) the report says that none
was consumed although the call may have dispatched an attempt, as when its
workspace cannot be made or another process commits in between.  A caller that
adds up `consumed_attempts` can therefore undercount; `ReportIsTrue` shows that
it never overcounts, that a report which names a command is exact, and that an
attempt missing from the count is at least reported as `applied`.

**Bounds.**  `MaxLog` bounds the events of a store, `MaxOther` the commands
that concern no job.  Three events and two processes are enough for a command
of two events after another's, an append outside commands between them, a
reused identifier, a late cause and a snapshot that straddles a commit.  Two
controllers and two workers are enough for every race in Execution, because
each protects itself against *any* other (the lock, the committed dispatch).
Two seeds give a batch in which one primary fails and another completes; two
selections of one protocol give the competition; `Seeds = 1` is enough for the
copies, where the question is which root may launch.  A protocol has at most one
run outside batches in Batch, and such a run need only exist to disturb.

In Search, the deep tree of `UnequalPolicy` has room for a failed attempt, a debug
attempt under the amendment and a retry of it, which tells an eligible retry
from a retry of a debug attempt; for one repair more than the retry bound
allows, a sibling of another; and for two open selections that the budget
cannot pay together.  Every attempt costs more than the second protocol's
estimate, so that overruns happen.  The two flat trees compete for the same
protocol.  `MaxNodes` bounds the nodes per tree (the deep tree alone, or the
other two), `RunLimit` the runs of a protocol as the protocols do, `Estimate`
and `Cost` the amounts.

In Agents, `MaxCalls` is one, so that the second request of a budget is at its
limit; `MaxOthers` is the one event (a revision, a node, evidence) that makes a
context stale.  In Locked three workers deliver two dispatches and one of them
twice.

In Review and Cycle the interesting histories are long, so a run starts from
histories that commands can produce: in Review a demanded experiment, its
follow-up being run (with and without room for a second one), a demand for a
narrower claim, a rejection not yet submitted, an approved claim supported by
another, two claims with and without an open run, an approved confirmatory claim
with its data untouched or reused, data declared as read or being read.  `more` bounds by kind
how many events may follow each, chosen so that every step that could break a
property is still open; Review's limit is about two claims and one round of
review after the start.  In Cycle, `spare` bounds what others do and
`MaxAnalyses` the analyses of one batch; two versions tell pinned code from
edited code; the histories with `Varied` reports go through every combination
of left-out, not applicable, deviating and listed fields, three designs, and
what the report claims.

Symmetry is used for tokens, controllers, workers, jobs, budgets and reviewers, in runs without liveness only.

**Deadlock.**  The store and execution runs check it.  In the other models each
command may be sent only so often (a selection is made once, a tree has so many
nodes, a history has so many events), so a study in which everything is done
has nothing left to do.

**Fairness.**  `EventStore!FairSpec`: a handler returns or raises (handlers
never wait for external work).  `Execution!LiveSpec`: workers run, a payload
ends or meets its wall limit, and somebody keeps calling `work_job` or
`reconcile_job`; controllers crash and lose races, but one that reaches a step
again and again is not interrupted there every time (strong fairness).  Without
retries nothing is promised, and ADR 0005 does not promise it; crashed workers
and unconfirmed stops are excluded, because a lost attempt stays unknown.
`Batch!LiveSpec`: `advance_batch` is called again and again at the first root
and a dispatched attempt ends there, which is `QueuedJobsEnd` of Execution;
stale sources and copies may occur, and `BatchesSettle` makes no promise about
the batches they concern (ADR 0006, 0009: there is no cancel, and unknown is not
failure).  `Cycle!Fairness`: a call that was begun goes on and somebody calls
again; `StudyAdvances` promises progress only if that somebody brings a budget
and names the actors, and only up to where a person must decide.

## 4. What is proved

Every safety invariant and every refinement and action property that the
passing runs check, for any number of processes, jobs, trees, batches, budgets,
reviewers, claims and events, from the named assumptions below.  No such
property is inductive alone; each proof module states what is, and TLC checked
that on the instances of section 3 before it was proved.

* **EventStoreProofs**.  The promise first (`PromiseTyped`, `PromiseSafe`,
  `PromiseAppendOnly`): `Safe` of Ledger is inductive with its types.  Then the
  store: what the write lock protects between `BEGIN IMMEDIATE` and `COMMIT`
  (the checkpoint is a prefix of the log, the open rows carry the command's
  identifier and actor, the identifier has no receipt, a pending answer is
  recorded) is inductive (`StoreInvariant`); with it every step is a step of the
  ledger or a stutter (`StoreKeepsPromise`), and the promise's theorems carry
  over (`StoreSafe`, which is `AnswersHold`, and `StoreAppendOnly`).
  `StoreCopiesAreTrue` needs a second invariant about each process
  (`CopiesInv`): outside its own command a copy is a prefix of the committed
  chain with receipts that fit it, a snapshot was taken at the copy's length,
  and a fingerprint that holds means that nobody committed since.
  `StoreArtifacts` needs that the rows of the open command name stored artifacts
  too.
* **ExecutionProofs** follows the authority to start code: one committed
  dispatch names a token (`DispatchesDistinct`), its directory is made by the
  controller of that dispatch (`TokenHistory`, `ControllerKnows`), the launch
  lock has one holder (`LockHeldOnce`), which alone starts the payload and writes
  the completion (`WorkerKnows`).  `StartsOnce`, `EvidenceIsOwn`,
  `TerminalIsStopped` and `ExecutionFollowsLifecycle` (step by step, for every
  job) follow.
* **LockedProofs**.  A directory may vanish with the marker in it, so the marker
  alone proves nothing: `MadeOnce` says that only the dispatching controller may
  still make a directory, and only before anything ran; `EvidenceTrue` that
  nothing can run for an attempt whose completion was recorded.
  `LockedStartsOnce`, `RecordsAreTrue`, `MatchMeansRerun`.
* **SearchProofs**.  `BudgetIsKept` is about cardinalities of sets of units
  (`UnitsFinite`): a selection reserves what fits and a terminal returns it.
  `RunsAreOwn` needs that over *all* trees a protocol has one open selection and
  that a selection was opened after every earlier run of its protocol
  (`SelectedAlone`, `RunsKnown`), which no single check of the code states.
  `RetriesStayBounded`, `EvidenceIsScientific`.
* **BatchProofs**.  `ProtocolIsOwned` needs that the selection of an unsettled
  batch is open, for only open rivals keep others out of `select_next` and
  `batch.plan` (`UnsettledIsOpen`, `OwnerIsAlone`); that needs
  `ClosedBySettlement` and the link from batches to selections (`Linked`);
  `NoSecondLaunch` needs that a dispatch happens only where the plan was made
  (`LaunchesAreHome`).  `BatchInvariant` is their conjunction with the types and
  with what a controller remembers; `StepKinds` reduces the loop of
  `advance_batch` to the commands it sends.  `BatchFollowsLifecycle` is the
  refinement.  That the cost of a settlement fits its roster is an argument about
  cardinality (`RosterIsFinite`), that `advance_batch` chooses a slot one about
  well-founded ranks (`FirstOfRoster`).
* **AgentsProofs** and **ReviewProofs** prove facts about histories: a *sound*
  history is one whose events the replay accepts, each against the history
  before it, and `AgentsInvariant` and `ReviewInvariant` say that the log always
  is one.  So `ReplayIsAccepted` and `ReviewReplayAccepts`: no sequence of
  accepted commands writes a log that the replay refuses.  In Agents the worker
  and the controller need facts of their own (`Launches`: a dispatch without a
  worker has one owner; `Captures`: a response is what its worker captured amounts
  to for the task of its request, and only a request has a worker), from which `CallsAreBudgeted`, `ApplicationsAreCurrent` and `ApplicationsAreCaptured`
  follow.  In Review nearly everything rests on one observation: lineages,
  contexts, exposures and bases only grow with the history (`LineageGrows`,
  `ContextGrows`, `ExposuresGrow`, `BasisGrows`; `Reach` is a least closed set,
  so no induction is needed).  `ReviewNoRevival`: an approval's basis was right
  when it was submitted and is right now, hence at every moment between.
  `ReviewHoldoutIsFresh`: whatever used the data before is among what the
  registration had to declare, whatever used them later is in the basis, and
  that is the assignment's.  `ReviewDemandsMetByNewWork` and
  `ReviewOwnersWithdraw` go back from the candidate to the submission that
  resolved or withdrew (`ResolvedByNewWork`, `Reconsidered`); a negative answer
  that was submitted lives on as its submission (`AnswersStand`), and of a
  reviewer's opinions there is a latest (`Latest`).
* **CycleProofs** is about Analysis under Cycle.  `Counted` and `Performs` say of
  each call what it has read, and that this is in the log or was passed by it;
  `DraftsKnow` says the same of each prepared command; `AnalysesPinned` that an
  admitted analysis agrees with its binding.  `FailKnows` carries what a call has
  read into the report of an error, so that `ReportsAreTrue` is about every report
  and not only about those that name a command.  `LogStep` lists what a commit may
  change, so that each fact is preserved once per kind of commit and not once per
  action.  `BudgetsHold`, `ReportsAreTrue`, `BatchesAnalysedOnce`,
  `PacksReproduce`, `ClaimsStayWithinReport`.

*What the proofs corrected.*  `ClaimsWithinReport` used to say that a report
which deviates from the protocol's uncertainty gives no claim.  The proof failed
at confirmatory designs without a preregistered uncertainty (`protocols.py`,
"not_applicable"): there a deviation has nothing to deviate from, and the code
admits the claim.  The property now excepts the fields that the design does not
preregister (`NotApplicable`), and the run has such a design.

*Assumptions.*  `LedgerAssumption`, `EventStoreAssumption`,
`ExecutionAssumption`, `LockedAssumption`, `SearchAssumption`, `BatchAssumption`,
`NoneAssumption`, `AgentsAssumption`, `AnalysisAssumption` and
`CycleAssumption` say that parameters have the right shape and that distinguished
values are distinct.  The two `StartAssumption`s say that the histories to start
from are ones that commands can have written; the empty history is one, so the
theorems of Review cover everything commands write from the beginning.  TLC
evaluates all of them.

*Only model-checked*: the liveness properties `LockIsReleased`, `EvidenceIsUsed`,
`QueuedJobsEnd`, `BatchesSettle` and `StudyAdvances`, because fairness and
`ENABLED` are out of the prover's reach; and the two refuted statements, which are
findings.

## 5. What is not modelled

SQLite (one writer, atomic commit, snapshot reads), the file system's exclusive
create, atomic rename and link, and cryptographic hashes are taken as given.
Tampering with stored rows is outside the models: the hash chain and the schema
checks find it, and no step of the system does it.  Rendering, provenance
projection, container set-up, command-line parsing and the statistics of example
domains have no state that actions of several processes share.  The steps of a
backup and of its publication are one step of Batch.  What hooks and adapters
compute is data: only which code computed it, when, and what the report may
claim are modelled.

## 6. Plan

Modelled so far: EventStore under its Ledger; Execution and Batch under
JobLifecycle; Search; Locked; Agents with planning; Review with admission,
obligations, exposures and confirmatory data; Analysis with hooks and packs;
Cycle.  Left:

1. The causes of staleness (Review) composed with the fence of a follow-up
   batch (Batch's `Outdate`).
2. **Recovery** — the steps of a backup while commands go on, publication and
   a crash in it.
3. Follow-ups and replacements in Cycle's `NextAction`; reanalysis findings in
   Review.
