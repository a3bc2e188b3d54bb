----------------------------- MODULE Execution ------------------------------
(***************************************************************************)
(* Managed execution: src/episteme/execution.py and the worker process of  *)
(* src/episteme/runner_backend.py.                                         *)
(*                                                                         *)
(* A controller (work_job, reconcile_job) reads the event log, decides,    *)
(* reads the log's length for its envelope and sends a command; the        *)
(* command is one atomic step (EventStore.tla) that is refused when the    *)
(* log has grown since or when the handler's own check of the log fails.   *)
(* Only the controller whose dispatch committed prepares a workspace and   *)
(* spawns a worker.  The worker outlives its controller, takes a lock file *)
(* that is never removed, runs the payload, stops it and writes one        *)
(* completion file.  Controllers, workers and payload processes may die at *)
(* any step, and a worker may be started again on an old workspace.        *)
(***************************************************************************)
EXTENDS Integers, FiniteSets

CONSTANTS
    Job,            \* managed jobs, each with its run
    Token,          \* workspace tokens, chosen fresh per dispatch
    Controller,     \* processes calling work_job and reconcile_job
    Worker,         \* worker processes, each started at most once
    None,           \* no dispatch, no job, no file
    MaxOther        \* bound on the commands of others, for model checking

\* None is no identifier and no status, verdict or outcome.
ASSUME ExecutionAssumption ==
    /\ None \notin Job \cup Token \cup Worker
    /\ None \notin {"completed", "failed", "valid", "invalid", "unknown", "error"}
    /\ MaxOther \in Nat

VARIABLES
    revision,       \* committed commands, as expected_revision sees them
    queued,         \* jobs with an execution_job event
    dispatch,       \* per job: token of its execution_dispatch event
    result,         \* per job: status in its result and execution_finalized events
    cas,            \* completion manifests imported into the artifact store
    ctl,            \* per controller: where it is and what it remembers
    workspace,      \* per token: "absent", "partial" or "ready" directory
    launchLock,     \* tokens whose workspace holds launch.lock
    completion,     \* per token: verdict in completion.json
    worker,         \* per worker: step, token and the verdict so far
    outcome,        \* per token: how the payload's main process ended
    alive,          \* tokens of which some payload process may still run
    starts          \* history, per token: how often the payload started

events == <<revision, queued, dispatch, result>>
files == <<workspace, launchLock, completion>>
payload == <<outcome, alive, starts>>
vars == <<events, cas, ctl, files, worker, payload>>

-----------------------------------------------------------------------------

Terminal == {"completed", "failed"}

\* What a completion file says.  "valid" and "invalid" are both status
\* completed; the metric of the second does not pass Kernel._metric.
Known == {"valid", "invalid", "failed"}
Verdict == Known \cup {"unknown"}

\* _check_completion: a completed run without a valid metric is a failed one.
TerminalStatus(verdict) == IF verdict = "valid" THEN "completed" ELSE "failed"

\* A manifest names the execution it belongs to (_identity).
Manifest == [token : Token, verdict : Verdict]

Idle == [at |-> "idle", job |-> None, expected |-> 0, token |-> None,
         child |-> None, verdict |-> "unknown"]

Resting == [at |-> "idle", token |-> None, verdict |-> "unknown"]

Used == {dispatch[j] : j \in Job} \ {None}

Init ==
    /\ revision = 0 /\ queued = {}
    /\ dispatch = [j \in Job |-> None]
    /\ result = [j \in Job |-> None]
    /\ cas = {}
    /\ ctl = [c \in Controller |-> Idle]
    /\ workspace = [t \in Token |-> "absent"]
    /\ launchLock = {}
    /\ completion = [t \in Token |-> None]
    /\ worker = [w \in Worker |-> Resting]
    /\ outcome = [t \in Token |-> None]
    /\ alive = {}
    /\ starts = [t \in Token |-> 0]

-----------------------------------------------------------------------------
\* Commands on the log.

Committed == revision' = revision + 1

\* Execution.enqueue: the run and its job event share one receipt.
Enqueue(j) ==
    /\ j \notin queued
    /\ Committed
    /\ queued' = queued \cup {j}
    /\ UNCHANGED <<dispatch, result, cas, ctl, files, worker, payload>>

\* Commands that concern no job so far: each job commits one to be queued, one
\* to be dispatched and one to be finalized.
Others == revision - Cardinality(queued) - Cardinality(Used)
                   - Cardinality({j \in Job : result[j] # None})

\* Any other command of the study.
OtherCommand ==
    /\ Others < MaxOther
    /\ Committed
    /\ UNCHANGED <<queued, dispatch, result, cas, ctl, files, worker, payload>>

\* The handler of execution.dispatch reads the log again.
MayDispatch(j) == j \in queued /\ dispatch[j] = None

\* Mutant: a manifest need not name this execution.
MayFinalizeAnyManifest(j, m) ==
    /\ dispatch[j] # None /\ result[j] = None
    /\ m.verdict \in Known

\* The handler of execution.finalize, with _check_completion on a manifest.
MayFinalize(j, m) ==
    /\ dispatch[j] # None /\ result[j] = None
    /\ m.token = dispatch[j]
    /\ m.verdict \in Known

RecordResult(j, m) ==
    /\ MayFinalize(j, m)
    /\ Committed
    /\ result' = [result EXCEPT ![j] = TerminalStatus(m.verdict)]
    /\ UNCHANGED <<queued, dispatch>>

-----------------------------------------------------------------------------
\* work_job.

At(c, step) == ctl[c].at = step

Goto(c, step) == ctl' = [ctl EXCEPT ![c] = [@ EXCEPT !.at = step]]

\* The first read of the log.  An old dispatch is only observed.
Decide(c, j) ==
    /\ At(c, "idle")
    /\ j \in queued
    /\ ctl' = [ctl EXCEPT ![c] =
         [Idle EXCEPT !.job = j,
                      !.at = IF dispatch[j] = None THEN "decided" ELSE "reconcile"]]
    /\ UNCHANGED <<events, cas, files, worker, payload>>

\* _envelope: the revision is read after, and apart from, the decision.
PrepareDispatch(c) ==
    /\ At(c, "decided")
    /\ ctl' = [ctl EXCEPT ![c] = [@ EXCEPT !.at = "dispatching", !.expected = revision]]
    /\ UNCHANGED <<events, cas, files, worker, payload>>

DispatchCommits(c, t) ==
    /\ At(c, "dispatching")
    /\ ctl[c].expected = revision
    /\ MayDispatch(ctl[c].job)
    /\ t \notin Used
    /\ Committed
    /\ dispatch' = [dispatch EXCEPT ![ctl[c].job] = t]
    /\ Goto(c, "dispatched")
    /\ UNCHANGED <<queued, result, cas, files, worker, payload>>

DispatchRefused(c) ==
    /\ At(c, "dispatching")
    /\ ctl[c].expected # revision \/ ~MayDispatch(ctl[c].job)
    /\ ctl' = [ctl EXCEPT ![c] = Idle]
    /\ UNCHANGED <<events, cas, files, worker, payload>>

\* mkdir(exist_ok=False) of the directory that the log now names.
MakeWorkspace(c) ==
    /\ At(c, "dispatched")
    /\ LET t == dispatch[ctl[c].job] IN
         /\ workspace[t] = "absent"
         /\ workspace' = [workspace EXCEPT ![t] = "partial"]
         /\ ctl' = [ctl EXCEPT ![c] = [@ EXCEPT !.at = "copying", !.token = t]]
    /\ UNCHANGED <<events, cas, launchLock, completion, worker, payload>>

CopyInputs(c) ==
    /\ At(c, "copying")
    /\ workspace' = [workspace EXCEPT ![ctl[c].token] = "ready"]
    /\ Goto(c, "spawning")
    /\ UNCHANGED <<events, cas, launchLock, completion, worker, payload>>

StartWorker(w, t) ==
    /\ worker[w] = Resting
    /\ worker' = [worker EXCEPT ![w] = [at |-> "started", token |-> t, verdict |-> "unknown"]]

Spawn(c, w) ==
    /\ At(c, "spawning")
    /\ StartWorker(w, ctl[c].token)
    /\ ctl' = [ctl EXCEPT ![c] = [@ EXCEPT !.at = "waiting", !.child = w]]
    /\ UNCHANGED <<events, cas, files, payload>>

\* process.wait() returns when the worker is gone.
WorkerReturned(c) ==
    /\ At(c, "waiting")
    /\ worker[ctl[c].child].at = "gone"
    /\ Goto(c, "reconcile")
    /\ UNCHANGED <<events, cas, files, worker, payload>>

-----------------------------------------------------------------------------
\* reconcile_job.

\* Mutant: only completed evidence is imported.
NothingButSuccess(j) ==
    \/ dispatch[j] = None
    \/ result[j] # None
    \/ completion[dispatch[j]] \notin {"valid", "invalid"}

\* Nothing to import: not dispatched, finalized, no file, or unknown.
NothingToReconcile(j) ==
    \/ dispatch[j] = None
    \/ result[j] # None
    \/ completion[dispatch[j]] \notin Known

\* Mutant: a dispatched job without a completion file is recorded as failed.
ReconcileMissingAsFailed(c) ==
    /\ At(c, "reconcile")
    /\ NothingToReconcile(ctl[c].job)
    /\ ctl' = [ctl EXCEPT ![c] = Idle]
    /\ IF dispatch[ctl[c].job] # None /\ result[ctl[c].job] = None
         THEN Committed /\ result' = [result EXCEPT ![ctl[c].job] = "failed"]
         ELSE UNCHANGED <<revision, result>>
    /\ UNCHANGED <<queued, dispatch, cas, files, worker, payload>>

ReconcileNothing(c) ==
    /\ At(c, "reconcile")
    /\ NothingToReconcile(ctl[c].job)
    /\ ctl' = [ctl EXCEPT ![c] = Idle]
    /\ UNCHANGED <<events, cas, files, worker, payload>>

\* _import_completion copies the file and its outputs into the artifact store.
Import(c) ==
    /\ At(c, "reconcile")
    /\ ~NothingToReconcile(ctl[c].job)
    /\ LET t == dispatch[ctl[c].job] IN
         /\ cas' = cas \cup {[token |-> t, verdict |-> completion[t]]}
         /\ ctl' = [ctl EXCEPT ![c] = [@ EXCEPT !.at = "imported", !.token = t,
                                               !.verdict = completion[t]]]
    /\ UNCHANGED <<events, files, worker, payload>>

PrepareFinalize(c) ==
    /\ At(c, "imported")
    /\ ctl' = [ctl EXCEPT ![c] = [@ EXCEPT !.at = "finalizing", !.expected = revision]]
    /\ UNCHANGED <<events, cas, files, worker, payload>>

Imported(c) == [token |-> ctl[c].token, verdict |-> ctl[c].verdict]

FinalizeCommits(c) ==
    /\ At(c, "finalizing")
    /\ ctl[c].expected = revision
    /\ RecordResult(ctl[c].job, Imported(c))
    /\ ctl' = [ctl EXCEPT ![c] = Idle]
    /\ UNCHANGED <<cas, files, worker, payload>>

FinalizeRefused(c) ==
    /\ At(c, "finalizing")
    /\ ctl[c].expected # revision \/ ~MayFinalize(ctl[c].job, Imported(c))
    /\ ctl' = [ctl EXCEPT ![c] = Idle]
    /\ UNCHANGED <<events, cas, files, worker, payload>>

\* The assigned actor sends execution.finalize by hand, with any manifest.
FinalizeByHand(j, m) ==
    /\ m \in cas
    /\ RecordResult(j, m)
    /\ UNCHANGED <<cas, ctl, files, worker, payload>>

ControllerCrash(c) ==
    /\ ~At(c, "idle")
    /\ ctl' = [ctl EXCEPT ![c] = Idle]
    /\ UNCHANGED <<events, cas, files, worker, payload>>

-----------------------------------------------------------------------------
\* The worker (runner_backend.execute).

\* Repeated delivery: a worker started again on a directory that exists.
Redeliver(w, t) ==
    /\ workspace[t] # "absent"
    /\ StartWorker(w, t)
    /\ UNCHANGED <<events, cas, ctl, files, payload>>

Step(w, from, to) ==
    /\ worker[w].at = from
    /\ worker' = [worker EXCEPT ![w] = [@ EXCEPT !.at = to]]

\* Mutant: launch.lock is opened for writing, not created exclusively.
TakeLockAgain(w) ==
    /\ Step(w, "started", "locked")
    /\ workspace[worker[w].token] = "ready"
    /\ launchLock' = launchLock \cup {worker[w].token}
    /\ UNCHANGED <<events, cas, ctl, workspace, completion, payload>>

\* launch.lock is created exclusively and never removed.
TakeLock(w) ==
    /\ Step(w, "started", "locked")
    /\ worker[w].token \notin launchLock
    /\ workspace[worker[w].token] = "ready"
    /\ launchLock' = launchLock \cup {worker[w].token}
    /\ UNCHANGED <<events, cas, ctl, workspace, completion, payload>>

\* No frozen specification yet, or the lock exists: the worker raises before
\* it has written anything.
GiveUp(w) ==
    /\ Step(w, "started", "gone")
    /\ worker[w].token \in launchLock \/ workspace[worker[w].token] # "ready"
    /\ UNCHANGED <<events, cas, ctl, files, payload>>

\* Mutant: the checks before the start raise out of the worker.
PreflightRaises(w) ==
    /\ worker[w].at = "locked"
    /\ worker' = [worker EXCEPT ![w] = [@ EXCEPT !.at = "gone"]]
    /\ UNCHANGED <<events, cas, ctl, files, payload>>

\* Wrong runtime or changed inputs, no process control, no process.
PreflightFails(w) ==
    /\ worker[w].at = "locked"
    /\ worker' = [worker EXCEPT ![w] = [@ EXCEPT !.at = "stopped", !.verdict = "failed"]]
    /\ UNCHANGED <<events, cas, ctl, files, payload>>

\* The payload's process exists and gets GO.
StartPayload(w) ==
    /\ Step(w, "locked", "running")
    /\ starts' = [starts EXCEPT ![worker[w].token] = @ + 1]
    /\ alive' = alive \cup {worker[w].token}
    /\ UNCHANGED <<events, cas, ctl, files, outcome>>

\* The payload's main process ends; its descendants may linger.
PayloadExits(t) ==
    /\ t \in alive /\ outcome[t] = None
    /\ \E end \in {"valid", "invalid", "error"} : outcome' = [outcome EXCEPT ![t] = end]
    /\ \/ alive' = alive \ {t}
       \/ UNCHANGED alive
    /\ UNCHANGED <<events, cas, ctl, files, worker, starts>>

LingererExits(t) ==
    /\ t \in alive /\ outcome[t] # None
    /\ alive' = alive \ {t}
    /\ UNCHANGED <<events, cas, ctl, files, worker, outcome, starts>>

\* What the worker records when it stops looking.
Observed(t) ==
    {"failed"} \cup (IF outcome[t] \in {"valid", "invalid"} THEN {outcome[t]} ELSE {})

\* The payload ended or hit a limit.  The worker kills the process group and
\* waits; without confirmation that the group is gone the verdict is unknown.
StopConfirmed(w) ==
    /\ worker[w].at = "running"
    /\ alive' = alive \ {worker[w].token}
    /\ outcome' = [outcome EXCEPT ![worker[w].token] = IF @ = None THEN "error" ELSE @]
    /\ \E verdict \in Observed(worker[w].token) :
         worker' = [worker EXCEPT ![w] = [@ EXCEPT !.at = "stopped", !.verdict = verdict]]
    /\ UNCHANGED <<events, cas, ctl, files, starts>>

\* Mutant: an unconfirmed stop counts as a failure.
StopAssumed(w) ==
    /\ worker[w].at = "running"
    /\ worker' = [worker EXCEPT ![w] = [@ EXCEPT !.at = "stopped", !.verdict = "failed"]]
    /\ UNCHANGED <<events, cas, ctl, files, payload>>

StopUnconfirmed(w) ==
    /\ worker[w].at = "running"
    /\ worker' = [worker EXCEPT ![w] = [@ EXCEPT !.at = "stopped", !.verdict = "unknown"]]
    /\ UNCHANGED <<events, cas, ctl, files, payload>>

\* completion.json appears by an atomic rename, as the last step.
WriteCompletion(w) ==
    /\ Step(w, "stopped", "gone")
    /\ completion' = [completion EXCEPT ![worker[w].token] = worker[w].verdict]
    /\ UNCHANGED <<events, cas, ctl, workspace, launchLock, payload>>

WorkerCrash(w) ==
    /\ worker[w].at \in {"started", "locked", "running", "stopped"}
    /\ worker' = [worker EXCEPT ![w] = [@ EXCEPT !.at = "gone"]]
    /\ UNCHANGED <<events, cas, ctl, files, payload>>

-----------------------------------------------------------------------------

ControllerStep(c) ==
    \/ PrepareDispatch(c)
    \/ \E t \in Token : DispatchCommits(c, t)
    \/ DispatchRefused(c)
    \/ MakeWorkspace(c)
    \/ CopyInputs(c)
    \/ \E w \in Worker : Spawn(c, w)
    \/ WorkerReturned(c)
    \/ ReconcileNothing(c)
    \/ Import(c)
    \/ PrepareFinalize(c)
    \/ FinalizeCommits(c)
    \/ FinalizeRefused(c)

WorkerStep(w) ==
    \/ TakeLock(w)
    \/ GiveUp(w)
    \/ PreflightFails(w)
    \/ StartPayload(w)
    \/ StopConfirmed(w)
    \/ WriteCompletion(w)

\* Everything but the events that end a process or take evidence away.
CalmNext ==
    \/ \E j \in Job : Enqueue(j) \/ \E m \in cas : FinalizeByHand(j, m)
    \/ OtherCommand
    \/ \E c \in Controller : ControllerStep(c) \/ \E j \in Job : Decide(c, j)
    \/ \E w \in Worker : WorkerStep(w)
    \/ \E t \in Token : PayloadExits(t) \/ LingererExits(t)

Next ==
    \/ CalmNext
    \/ \E c \in Controller : ControllerCrash(c)
    \/ \E w \in Worker : \/ StopUnconfirmed(w)
                         \/ WorkerCrash(w)
                         \/ \E t \in Token : Redeliver(w, t)

Spec == Init /\ [][Next]_vars

\* Workers run, a payload ends or meets its wall limit, and someone keeps
\* calling work_job or reconcile_job for every job.  Controllers still crash
\* and lose races, but one that gets to a step again and again is not
\* interrupted there every time.
LiveSpec ==
    /\ Init /\ [][CalmNext \/ \E c \in Controller : ControllerCrash(c)]_vars
    /\ \A c \in Controller, j \in Job : SF_vars(Decide(c, j))
    /\ \A c \in Controller : /\ WF_vars(ControllerStep(c))
                             /\ SF_vars(PrepareDispatch(c))
                             /\ SF_vars(\E t \in Token : DispatchCommits(c, t))
                             /\ SF_vars(Import(c))
                             /\ SF_vars(PrepareFinalize(c))
                             /\ SF_vars(FinalizeCommits(c))
    /\ \A w \in Worker : WF_vars(WorkerStep(w))

-----------------------------------------------------------------------------
\* Properties.

ControllerState ==
    [at : {"idle", "decided", "dispatching", "dispatched", "copying", "spawning",
           "waiting", "reconcile", "imported", "finalizing"},
     job : Job \cup {None}, expected : Nat, token : Token \cup {None},
     child : Worker \cup {None}, verdict : Verdict]

WorkerState ==
    [at : {"idle", "started", "locked", "running", "stopped", "gone"},
     token : Token \cup {None}, verdict : Verdict]

TypeOK ==
    /\ revision \in Nat
    /\ queued \subseteq Job
    /\ dispatch \in [Job -> Token \cup {None}]
    /\ result \in [Job -> Terminal \cup {None}]
    /\ cas \subseteq Manifest
    /\ ctl \in [Controller -> ControllerState]
    /\ workspace \in [Token -> {"absent", "partial", "ready"}]
    /\ launchLock \subseteq Token
    /\ completion \in [Token -> Verdict \cup {None}]
    /\ worker \in [Worker -> WorkerState]
    /\ outcome \in [Token -> {None, "valid", "invalid", "error"}]
    /\ alive \subseteq Token
    /\ starts \in [Token -> Nat]

\* Research code runs at most once per job and only in the workspace of the
\* job's committed dispatch, whatever crashes, races for the dispatch, retries
\* and repeated worker deliveries happen (work_job, launch.lock).
OneAuthorizedStart ==
    \A t \in Token : starts[t] > 0 => starts[t] = 1 /\ t \in Used

\* A terminal result says what the worker of this job's own dispatch recorded
\* about it, not what another job's manifest says (_check_completion).
ResultIsOwnEvidence ==
    \A j \in Job : result[j] # None =>
        /\ dispatch[j] # None
        /\ completion[dispatch[j]] \in Known
        /\ result[j] = TerminalStatus(completion[dispatch[j]])

\* No process of a payload is still running when its run becomes terminal
\* evidence; an unconfirmed stop stays unknown (runner_backend.execute).
TerminalMeansStopped ==
    \A j \in Job : result[j] # None => dispatch[j] \notin alive

JobStatus(j) == IF j \notin queued THEN "absent"
                ELSE IF dispatch[j] = None THEN "queued"
                ELSE IF result[j] = None THEN "unknown"
                ELSE result[j]

Starts(j) == IF dispatch[j] = None THEN 0 ELSE starts[dispatch[j]]

Lifecycle == INSTANCE JobLifecycle WITH
    status <- [j \in Job |-> JobStatus(j)],
    starts <- [j \in Job |-> Starts(j)]

\* Every step of controllers, workers and payloads is a step of one job's
\* lifecycle or invisible in it: terminal is final, unknown is never queued
\* again, a start happens once and never after the result.
FollowsLifecycle == Lifecycle!Spec

\* A completion file with a known verdict becomes the result, also when the
\* controller that started the worker is long gone.
EvidenceIsUsed ==
    \A j \in Job :
        (dispatch[j] # None /\ completion[dispatch[j]] \in Known) ~> result[j] # None

\* A queued job is dispatched and ends in a terminal result, unless the one
\* controller that dispatched it died before it started the worker; a worker
\* that refuses to start a payload records that too (work_job, execute).
QueuedJobsEnd ==
    \A j \in Job : j \in queued ~>
        \/ result[j] # None
        \/ dispatch[j] # None /\ \A w \in Worker : worker[w].token # dispatch[j]

=============================================================================
