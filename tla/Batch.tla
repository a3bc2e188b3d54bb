------------------------------- MODULE Batch --------------------------------
(***************************************************************************)
(* Experiment batches: src/episteme/batch.py, batch_controller.py and      *)
(* execution_authority.py, with the selections of search.py that a batch   *)
(* is planned for and the copies that recovery.py makes of a state root.   *)
(*                                                                         *)
(* A selection reserves a protocol.  Its batch fixes a roster of attempts: *)
(* per seed one primary run and one reanalysis that needs the completed    *)
(* primary.  Until the batch is settled no other run may enter the         *)
(* protocol, and the selection is closed by the settlement alone.          *)
(*                                                                         *)
(* A site is a state root: an event log, and a marker file beside it that  *)
(* no backup contains.  A batch is bound to the marker of the site where   *)
(* it was planned.  A restored site has the log and not the marker, so it  *)
(* must never launch what the original may already have run.               *)
(*                                                                         *)
(* Every command is one atomic step (EventStore.tla).  Anyone in the right *)
(* role may send one at any time; advance_batch is the loop that sends     *)
(* them for one batch and is overtaken by others between its steps.  How a *)
(* dispatched attempt is run and finalized is Execution.tla's; here it is  *)
(* what JobLifecycle.tla promises.                                         *)
(***************************************************************************)
EXTENDS Integers, FiniteSets

CONSTANTS
    Site,           \* state roots
    Home,           \* the root that exists from the start
    Selection,      \* search selections; a batch is named by its selection
    Protocol,
    ProtocolOf,     \* the protocol of each selection's node
    FollowUp,       \* selections whose node answers a reviewer's obligation
    DirectVerdict,  \* how runs outside batches may end; bounded for TLC
    Seeds,          \* number of seeds of every protocol
    Controller,     \* processes running advance_batch
    None            \* no authority, not closed, no slot

ASSUME BatchAssumption ==
    /\ Home \in Site
    /\ ProtocolOf \in [Selection -> Protocol]
    /\ FollowUp \subseteq Selection
    /\ DirectVerdict \subseteq {"completed", "failed", "cancelled"}
    /\ Seeds \in Nat \ {0}
    /\ None \notin Site \cup Selection

VARIABLES
    opened,     \* sites that exist
    marker,     \* sites with an .execution-authority.json
    revision,   \* per site: length of the log, in commands
    selected,   \* per site: selections in the log
    plan,       \* per site and selection: authority frozen in its batch_plan
    fenced,     \* per site: batches planned by followup.prepare_next
    outdated,   \* per site: selections whose source review or planning is stale
    job,        \* per site and attempt: status of its managed job
    direct,     \* per site and protocol: status of a run outside any batch
    closed,     \* per site and selection: its search_terminal
    permits,    \* history: dispatches committed at a site, each allows a launch
    started,    \* history: attempts whose research code began at a site
    ctl         \* per controller: where it is and what it remembers

log == <<revision, selected, plan, fenced, outdated, job, direct, closed>>
vars == <<opened, marker, log, permits, started, ctl>>

-----------------------------------------------------------------------------

Slot == [seed : 1 .. Seeds, mode : {"primary", "reanalysis"}]

Attempt == Selection \X Slot

JobStatus == {"absent", "queued", "unknown", "completed", "failed"}

DirectStatus == {"absent", "running"} \cup DirectVerdict

Outcome == [by : {"batch"}, status : {"completed", "failed"}, cost : 0 .. 2 * Seeds]
             \cup [by : {"run"}, status : DirectVerdict \cup {"cancelled"}]

ASSUME NoneAssumption == None \notin Outcome

Primary(x) == [x EXCEPT !.mode = "primary"]

\* The order of _roster.
Rank(x) == 2 * x.seed + (IF x.mode = "primary" THEN 0 ELSE 1)

\* A slot's status in _cells.  A slot that waits for its primary is pending.
SlotStatus(s, b, x) ==
    IF job[s][<<b, x>>] # "absent" THEN job[s][<<b, x>>]
    ELSE IF x.mode = "reanalysis" /\ job[s][<<b, Primary(x)>>] = "failed" THEN "blocked"
    ELSE "pending"

Bound(s, b) == {x \in Slot : job[s][<<b, x>>] # "absent"}

Settled(s, b) == closed[s][b] # None /\ closed[s][b].by = "batch"

HasBatch(s, b) == plan[s][b] # None

Rivals(b) == {d \in Selection : ProtocolOf[d] = ProtocolOf[b]} \ {b}

Open(s, b) == b \in selected[s] /\ closed[s][b] = None

\* require_authority: the marker beside this log is the one the plan froze.  A
\* token is drawn at random, so it is known by the site that drew it.
Authorized(s, b) == s \in marker /\ plan[s][b] = s

\* require_current_for_batch concerns only what followup.prepare_next planned.
Current(s, b) == b \in fenced[s] => b \notin outdated[s]

Executed(s, p) ==
    \/ direct[s][p] # "absent"
    \/ \E b \in Selection : ProtocolOf[b] = p /\ Bound(s, b) # {}

Resting == [at |-> "idle", site |-> Home, batch |-> None, slot |-> None, expected |-> 0]

Init ==
    /\ opened = {Home} /\ marker = {}
    /\ revision = [s \in Site |-> 0]
    /\ selected = [s \in Site |-> {}]
    /\ plan = [s \in Site |-> [b \in Selection |-> None]]
    /\ fenced = [s \in Site |-> {}]
    /\ outdated = [s \in Site |-> {}]
    /\ job = [s \in Site |-> [a \in Attempt |-> "absent"]]
    /\ direct = [s \in Site |-> [p \in Protocol |-> "absent"]]
    /\ closed = [s \in Site |-> [b \in Selection |-> None]]
    /\ permits = {} /\ started = {}
    /\ ctl = [c \in Controller |-> Resting]

Committed(s) == revision' = [revision EXCEPT ![s] = @ + 1]

-----------------------------------------------------------------------------
\* Selections.

\* Search._decision for a fresh primary node.
MaySelect(s, b) ==
    /\ s \in opened
    /\ b \notin selected[s]
    /\ ~Executed(s, ProtocolOf[b])
    /\ \A d \in Rivals(b) : ~Open(s, d)

Select(s, b) ==
    /\ MaySelect(s, b)
    /\ Committed(s)
    /\ selected' = [selected EXCEPT ![s] = @ \cup {b}]
    /\ UNCHANGED <<opened, marker, plan, fenced, outdated, job, direct, closed,
                   permits, started, ctl>>

\* search.finish_selection: by a run's result, or cancelled before any run.
MayFinish(s, b, status) ==
    /\ Open(s, b)
    /\ ~HasBatch(s, b)
    /\ \/ direct[s][ProtocolOf[b]] = status
       \/ status = "cancelled" /\ direct[s][ProtocolOf[b]] = "absent"

FinishSelection(s, b, status) ==
    /\ MayFinish(s, b, status)
    /\ Committed(s)
    /\ closed' = [closed EXCEPT ![s][b] = [by |-> "run", status |-> status]]
    /\ UNCHANGED <<opened, marker, selected, plan, fenced, outdated, job, direct,
                   permits, started, ctl>>

\* A later opinion of the reviewer, new evidence or a revised plan.
Outdate(s, b) ==
    /\ s \in opened
    /\ b \in FollowUp
    /\ b \notin outdated[s]
    /\ Committed(s)
    /\ outdated' = [outdated EXCEPT ![s] = @ \cup {b}]
    /\ UNCHANGED <<opened, marker, selected, plan, fenced, job, direct, closed,
                   permits, started, ctl>>

-----------------------------------------------------------------------------
\* Planning.

\* _validate_plan on the log of the handler.
MayPlan(s, b) ==
    /\ Open(s, b)
    /\ ~HasBatch(s, b)
    /\ ~Executed(s, ProtocolOf[b])
    /\ \A d \in Rivals(b) : ~Open(s, d)

\* batch.plan mints the marker when there is none.
Plan(s, b) ==
    /\ MayPlan(s, b)
    /\ Committed(s)
    /\ marker' = marker \cup {s}
    /\ plan' = [plan EXCEPT ![s][b] = s]
    /\ UNCHANGED <<opened, selected, fenced, outdated, job, direct, closed,
                   permits, started, ctl>>

\* The marker is a file: it stays when the rest of the plan is refused and the
\* command rolls back.
PlanRefused(s, b) ==
    /\ b \in selected[s]
    /\ ~MayPlan(s, b)
    /\ s \notin marker
    /\ marker' = marker \cup {s}
    /\ UNCHANGED <<opened, log, permits, started, ctl>>

\* followup.prepare_next: selection and plan in one command, from a current
\* source.
PrepareFollowup(s, b) ==
    /\ MaySelect(s, b)
    /\ b \in FollowUp
    /\ b \notin outdated[s]
    /\ Committed(s)
    /\ selected' = [selected EXCEPT ![s] = @ \cup {b}]
    /\ marker' = marker \cup {s}
    /\ plan' = [plan EXCEPT ![s][b] = s]
    /\ fenced' = [fenced EXCEPT ![s] = @ \cup {b}]
    /\ UNCHANGED <<opened, outdated, job, direct, closed, permits, started, ctl>>

-----------------------------------------------------------------------------
\* Attempts.

\* Mutant: the primary only has to be bound.
MayEnqueueEarly(s, b, x) ==
    /\ HasBatch(s, b) /\ ~Settled(s, b)
    /\ Authorized(s, b) /\ Current(s, b)
    /\ job[s][<<b, x>>] = "absent"
    /\ x.mode = "reanalysis" => job[s][<<b, Primary(x)>>] # "absent"

\* Mutant: a resumed controller may bind a failed slot again.
MayEnqueueAgain(s, b, x) ==
    /\ HasBatch(s, b) /\ ~Settled(s, b)
    /\ Authorized(s, b) /\ Current(s, b)
    /\ job[s][<<b, x>>] \in {"absent", "failed"}
    /\ x.mode = "reanalysis" => job[s][<<b, Primary(x)>>] = "completed"

MayEnqueue(s, b, x) ==
    /\ HasBatch(s, b) /\ ~Settled(s, b)
    /\ Authorized(s, b) /\ Current(s, b)
    /\ job[s][<<b, x>>] = "absent"
    /\ x.mode = "reanalysis" => job[s][<<b, Primary(x)>>] = "completed"

\* Run, job and slot binding share one receipt.
Enqueue(s, b, x) ==
    /\ MayEnqueue(s, b, x)
    /\ Committed(s)
    /\ job' = [job EXCEPT ![s][<<b, x>>] = "queued"]
    /\ UNCHANGED <<opened, marker, selected, plan, fenced, outdated, direct, closed,
                   permits, started>>

\* Mutant: the launch boundary does not look at the batch.
MayDispatchAnywhere(s, b, x) == job[s][<<b, x>>] = "queued"

\* The handler of execution.dispatch, with validate_dispatch.
MayDispatch(s, b, x) ==
    /\ job[s][<<b, x>>] = "queued"
    /\ Authorized(s, b) /\ Current(s, b)

Dispatch(s, b, x) ==
    /\ MayDispatch(s, b, x)
    /\ Committed(s)
    /\ job' = [job EXCEPT ![s][<<b, x>>] = "unknown"]
    /\ permits' = permits \cup {<<s, <<b, x>>>>}
    /\ UNCHANGED <<opened, marker, selected, plan, fenced, outdated, direct, closed,
                   started>>

\* The worker of this site's own dispatch, at most once.
Start(s, a) ==
    /\ job[s][a] = "unknown"
    /\ <<s, a>> \in permits \ started
    /\ started' = started \cup {<<s, a>>}
    /\ UNCHANGED <<opened, marker, log, permits, ctl>>

\* Mutant: a dispatched job whose workspace is missing is written off.
MayFinalizeMissing(s, a, verdict) ==
    /\ job[s][a] = "unknown"
    /\ verdict = "completed" => <<s, a>> \in started

\* Evidence lies in the workspace of this site's own dispatch.
MayFinalize(s, a, verdict) ==
    /\ job[s][a] = "unknown"
    /\ <<s, a>> \in permits
    /\ verdict = "completed" => <<s, a>> \in started

\* reconcile_job; it asks for no authority.
Finalize(s, a, verdict) ==
    /\ MayFinalize(s, a, verdict)
    /\ Committed(s)
    /\ job' = [job EXCEPT ![s][a] = verdict]
    /\ UNCHANGED <<opened, marker, selected, plan, fenced, outdated, direct, closed,
                   permits, started, ctl>>

-----------------------------------------------------------------------------
\* Runs outside batches.

\* Mutant: a protocol is free as soon as it has a slot left.
MayStartDirectAnytime(s, p) == s \in opened /\ direct[s][p] = "absent"

\* validate_start without a batch slot: nobody's batch holds the protocol.
\* One such run per protocol is enough to disturb a batch.
MayStartDirect(s, p) ==
    /\ s \in opened
    /\ direct[s][p] = "absent"
    /\ \A b \in Selection : ProtocolOf[b] = p /\ HasBatch(s, b) => Settled(s, b)

StartDirect(s, p) ==
    /\ MayStartDirect(s, p)
    /\ Committed(s)
    /\ direct' = [direct EXCEPT ![s][p] = "running"]
    /\ UNCHANGED <<opened, marker, selected, plan, fenced, outdated, job, closed,
                   permits, started, ctl>>

FinishDirect(s, p, status) ==
    /\ direct[s][p] = "running"
    /\ Committed(s)
    /\ direct' = [direct EXCEPT ![s][p] = status]
    /\ UNCHANGED <<opened, marker, selected, plan, fenced, outdated, job, closed,
                   permits, started, ctl>>

-----------------------------------------------------------------------------
\* Settlement.

Completed(s, b) == \A x \in Slot : SlotStatus(s, b, x) = "completed"

\* Mutant: the reservation is charged, not the attempts.
OutcomeReserved(s, b) ==
    [by |-> "batch", status |-> IF Completed(s, b) THEN "completed" ELSE "failed",
     cost |-> 2 * Seeds]

\* _outcome
OutcomeOf(s, b) ==
    [by |-> "batch", status |-> IF Completed(s, b) THEN "completed" ELSE "failed",
     cost |-> Cardinality(Bound(s, b))]

MaySettle(s, b) ==
    /\ HasBatch(s, b) /\ ~Settled(s, b)
    /\ Authorized(s, b)
    /\ \A x \in Slot : SlotStatus(s, b, x) \in {"completed", "failed", "blocked"}

\* Settlement and search terminal share one receipt.
Settle(s, b) ==
    /\ MaySettle(s, b)
    /\ Committed(s)
    /\ closed' = [closed EXCEPT ![s][b] = OutcomeOf(s, b)]
    /\ UNCHANGED <<opened, marker, selected, plan, fenced, outdated, job, direct,
                   permits, started>>

-----------------------------------------------------------------------------
\* recovery.backup of one root, then recovery.restore as a new one.  The marker
\* is in neither.  A copy that is not used is as good as one made later.

CopyLog(f, from, to) == f' = [f EXCEPT ![to] = f[from]]

Restore(from, to) ==
    /\ from \in opened /\ to \notin opened
    /\ opened' = opened \cup {to}
    /\ CopyLog(revision, from, to) /\ CopyLog(selected, from, to)
    /\ CopyLog(plan, from, to) /\ CopyLog(fenced, from, to)
    /\ CopyLog(outdated, from, to) /\ CopyLog(job, from, to)
    /\ CopyLog(direct, from, to) /\ CopyLog(closed, from, to)
    /\ UNCHANGED <<marker, permits, started, ctl>>

-----------------------------------------------------------------------------
\* advance_batch.

At(c, step) == ctl[c].at = step

Goto(c, step) == ctl' = [ctl EXCEPT ![c].at = step]

Call(c, s, b) ==
    /\ At(c, "idle")
    /\ HasBatch(s, b)
    /\ ctl' = [ctl EXCEPT ![c] = [Resting EXCEPT !.at = "read", !.site = s, !.batch = b]]
    /\ UNCHANGED <<opened, marker, log, permits, started>>

\* Mutant: a reanalysis without a primary result is still to be done.
UnfinishedOrBlocked(s, b) ==
    {x \in Slot : SlotStatus(s, b, x) \notin {"completed", "failed"}}

Unfinished(s, b) ==
    {x \in Slot : SlotStatus(s, b, x) \notin {"completed", "failed", "blocked"}}

First(S) == CHOOSE x \in S : \A y \in S : Rank(x) =< Rank(y)

\* One reading of the log: return when settled, raise without authority.
Return(c) ==
    /\ At(c, "read")
    /\ \/ Settled(ctl[c].site, ctl[c].batch)
       \/ ~Authorized(ctl[c].site, ctl[c].batch)
    /\ ctl' = [ctl EXCEPT ![c] = Resting]
    /\ UNCHANGED <<opened, marker, log, permits, started>>

Choose(c) ==
    LET s == ctl[c].site
        b == ctl[c].batch
        open == Unfinished(s, b)
    IN  /\ At(c, "read")
        /\ ~Settled(s, b) /\ Authorized(s, b)
        /\ ctl' = [ctl EXCEPT ![c] =
             [@ EXCEPT !.expected = revision[s],
                       !.slot = IF open = {} THEN None ELSE First(open),
                       !.at = IF open = {} THEN "settle"
                              ELSE IF job[s][<<b, First(open)>>] = "absent" THEN "enqueue"
                              ELSE "work"]]
        /\ UNCHANGED <<opened, marker, log, permits, started>>

Unchanged(c) == ctl[c].expected = revision[ctl[c].site]

AdvanceEnqueue(c) ==
    /\ At(c, "enqueue") /\ Unchanged(c)
    /\ Enqueue(ctl[c].site, ctl[c].batch, ctl[c].slot)
    /\ Goto(c, "read")

AdvanceSettle(c) ==
    /\ At(c, "settle") /\ Unchanged(c)
    /\ Settle(ctl[c].site, ctl[c].batch)
    /\ Goto(c, "read")

\* ConflictError, or the handler refuses.
AdvanceRefused(c) ==
    LET s == ctl[c].site
        b == ctl[c].batch
    IN  /\ \/ At(c, "enqueue") /\ (~Unchanged(c) \/ ~MayEnqueue(s, b, ctl[c].slot))
           \/ At(c, "settle") /\ (~Unchanged(c) \/ ~MaySettle(s, b))
           \/ At(c, "work") /\ job[s][<<b, ctl[c].slot>>] = "queued"
                            /\ ~MayDispatch(s, b, ctl[c].slot)
        /\ ctl' = [ctl EXCEPT ![c] = Resting]
        /\ UNCHANGED <<opened, marker, log, permits, started>>

\* work_job: dispatch and wait for the worker, or only reconcile.
Work(c) ==
    /\ At(c, "work")
    /\ Dispatch(ctl[c].site, ctl[c].batch, ctl[c].slot)
    /\ Goto(c, "waiting")

Observe(c) ==
    /\ At(c, "work")
    /\ job[ctl[c].site][<<ctl[c].batch, ctl[c].slot>>] # "queued"
    /\ Goto(c, "waiting")
    /\ UNCHANGED <<opened, marker, log, permits, started>>

Attempted(c) == job[ctl[c].site][<<ctl[c].batch, ctl[c].slot>>]

\* A known result goes on with the roster; unknown returns.
Worked(c) ==
    /\ At(c, "waiting")
    /\ Goto(c, IF Attempted(c) = "unknown" THEN "idle" ELSE "read")
    /\ UNCHANGED <<opened, marker, log, permits, started>>

-----------------------------------------------------------------------------

ControllerStep(c) ==
    \/ Return(c) \/ Choose(c)
    \/ AdvanceEnqueue(c) \/ AdvanceSettle(c) \/ AdvanceRefused(c)
    \/ Work(c) \/ Observe(c) \/ Worked(c)

\* Commands sent by hand, by whoever has the role.
ByHand(s, b) ==
    \/ Select(s, b)
    \/ \E status \in DirectVerdict \cup {"cancelled"} : FinishSelection(s, b, status)
    \/ Plan(s, b) \/ PlanRefused(s, b) \/ PrepareFollowup(s, b)
    \/ \E x \in Slot : (Enqueue(s, b, x) \/ Dispatch(s, b, x)) /\ UNCHANGED ctl
    \/ Settle(s, b) /\ UNCHANGED ctl

Attempting(s, a) == Start(s, a) \/ \E verdict \in {"completed", "failed"} : Finalize(s, a, verdict)

\* Everything but lost sources and restored copies.
CalmNext ==
    \/ \E s \in Site :
         \/ \E b \in Selection : ByHand(s, b)
         \/ \E a \in Attempt : Attempting(s, a)
         \/ \E p \in Protocol : \/ StartDirect(s, p)
                                \/ \E status \in DirectVerdict : FinishDirect(s, p, status)
    \/ \E c \in Controller : \/ ControllerStep(c)
                             \/ \E s \in Site, b \in Selection : Call(c, s, b)

Next ==
    \/ CalmNext
    \/ \E s \in Site, b \in Selection : Outdate(s, b)
    \/ \E from, to \in Site : Restore(from, to)

Spec == Init /\ [][Next]_vars

\* Someone keeps calling advance_batch for every batch at the first root, and
\* every dispatched attempt ends there (Execution.tla, QueuedJobsEnd).
LiveSpec ==
    /\ Spec
    /\ \A c \in Controller :
         /\ WF_vars(ControllerStep(c))
         /\ \A b \in Selection : SF_vars(Call(c, Home, b))
    /\ \A a \in Attempt : WF_vars(Attempting(Home, a))

-----------------------------------------------------------------------------
\* Properties.

SitesTypeOK ==
    /\ opened \subseteq Site /\ marker \subseteq Site
    /\ revision \in [Site -> Nat]
    /\ selected \in [Site -> SUBSET Selection]
    /\ plan \in [Site -> [Selection -> Site \cup {None}]]
    /\ fenced \in [Site -> SUBSET Selection]
    /\ outdated \in [Site -> SUBSET Selection]
    /\ job \in [Site -> [Attempt -> JobStatus]]
    /\ direct \in [Site -> [Protocol -> DirectStatus]]
    /\ closed \in [Site -> [Selection -> Outcome \cup {None}]]
    /\ permits \subseteq Site \X Attempt
    /\ started \subseteq Site \X Attempt

ControllersTypeOK ==
    ctl \in [Controller ->
         [at : {"idle", "read", "enqueue", "settle", "work", "waiting"}, site : Site,
          batch : Selection \cup {None}, slot : Slot \cup {None}, expected : Nat]]

\* The logs hold what the schemas of batch.py and search.py allow, a settlement
\* costs no more than its roster, and a controller is at one of its steps.
TypeOK == SitesTypeOK /\ ControllersTypeOK

\* From its plan to its settlement a batch has its protocol for itself: no run
\* outside the roster and no attempt of another batch (validate_start,
\* _validate_plan).
ProtocolIsOwned ==
    \A s \in Site, b \in Selection : HasBatch(s, b) /\ ~Settled(s, b) =>
        /\ direct[s][ProtocolOf[b]] = "absent"
        /\ \A d \in Rivals(b) : Bound(s, d) = {} /\ ~Open(s, d)

\* A reanalysis exists only beside a completed primary of the same seed.
ReanalysisHasPrimary ==
    \A s \in Site, b \in Selection, x \in Slot :
        x.mode = "reanalysis" /\ job[s][<<b, x>>] # "absent" =>
            job[s][<<b, Primary(x)>>] = "completed"

\* A settlement says what the roster says, and goes on saying it: every attempt
\* is over, the cost is the number of attempts made, and nothing is queued,
\* dispatched or finalized afterwards (_outcome).
SettlementIsExact ==
    \A s \in Site, b \in Selection : Settled(s, b) =>
        /\ closed[s][b] = [by |-> "batch", cost |-> Cardinality(Bound(s, b)),
                           status |-> IF Completed(s, b) THEN "completed" ELSE "failed"]
        /\ \A x \in Slot : SlotStatus(s, b, x) \in {"completed", "failed", "blocked"}

\* A selection with a batch is closed by the settlement of the batch alone.
ClosedBySettlement ==
    \A s \in Site, b \in Selection :
        HasBatch(s, b) /\ closed[s][b] # None => Settled(s, b)

\* A batch and its selection end together and for good.
SettlementHolds == SettlementIsExact /\ ClosedBySettlement

\* No attempt of one batch plan is run at two state roots, whatever was backed
\* up, restored and advanced where (execution_authority.py).
NoSecondLaunch ==
    \A s, t \in Site, b \in Selection, x \in Slot :
        {<<s, <<b, x>>>>, <<t, <<b, x>>>>} \subseteq started /\ plan[s][b] = plan[t][b] => s = t

\* What a restored root inherited as dispatched stays unknown there, and keeps
\* its batch open: the missing workspace is no evidence of failure.
InheritedStaysUnknown ==
    [][\A s \in opened, a \in Attempt :
         job[s][a] = "unknown" /\ <<s, a>> \notin permits => job'[s][a] = "unknown"]_vars

Lifecycle == INSTANCE JobLifecycle WITH
    Job <- Attempt,
    status <- job[Home],
    starts <- [a \in Attempt |-> IF <<Home, a>> \in started THEN 1 ELSE 0]

\* Seen from one root, every attempt of every roster is a managed job with the
\* lifecycle that Execution.tla implements: enqueued once, dispatched once,
\* never requeued by a resumed controller.
FollowsLifecycle == Lifecycle!Spec

\* A planned batch is settled when someone keeps calling advance_batch, also
\* after failed primaries and lost races, unless its source became outdated.
BatchesSettle ==
    \A b \in Selection : plan[Home][b] = Home ~> Settled(Home, b) \/ b \in outdated[Home]

=============================================================================
