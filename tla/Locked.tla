------------------------------- MODULE Locked -------------------------------
(***************************************************************************)
(* Execution profile v2 and reproductions: src/episteme/execution_locked.py*)
(* with the rules of environment_closure.py, its worker runner_locked.py,  *)
(* and reproduction.py.                                                    *)
(*                                                                         *)
(* One managed run and its attempts: the dispatch that produces its result *)
(* and any number of later reproductions.  Every attempt gets a directory  *)
(* of its own, outside the store and by default below the temporary        *)
(* directory, filled from the artifact store.  Its worker takes a marker   *)
(* that is never removed, checks the materialized bytes, installs the      *)
(* locked environment offline, runs the payload, stops it, and compares    *)
(* tree and environment with what it started from.  The payload is the     *)
(* same OS user and may change anything in its directory.  A reproduction  *)
(* is finalized as matched or mismatched and leaves the result alone.      *)
(*                                                                         *)
(* A directory may vanish at any moment, and controllers and workers die   *)
(* at any step.  Races for the dispatch and expected revisions are         *)
(* Execution.tla's.                                                        *)
(***************************************************************************)
EXTENDS Naturals

CONSTANTS
    Original,       \* the attempt that makes the result
    Reproduction,   \* dispatches of reproduce, each with a fresh token
    Controller,     \* processes calling work_job, reproduce and the reconcilers
    Worker,         \* worker processes, each started at most once
    Value,          \* contents of the declared outputs
    Unmeasured,     \* those from which the plan's metric cannot be read
    None

Attempt == {Original} \cup Reproduction

VARIABLES
    dispatched,     \* attempts with a dispatch event
    final,          \* per attempt: what its finalization recorded
    cas,            \* completions imported into the artifact store
    dir,            \* per attempt: its job directory
    ctl,            \* per controller: step, attempt and imported completion
    worker,         \* per worker: step, attempt and status so far
    alive,          \* attempts of which a payload process may still run
    starts          \* history, per attempt: how often a payload started

events == <<dispatched, final>>
vars == <<events, cas, dir, ctl, worker, alive, starts>>

-----------------------------------------------------------------------------

NoDirectory == [made |-> "absent", tree |-> "frozen", env |-> "none",
                output |-> None, lock |-> "none", completion |-> None]

\* A completion names its execution (_identity, with the dispatch).
Completion == [attempt : Attempt, status : {"completed", "failed", "unknown"},
               output : Value \cup {None}]

\* What a finalization records (assess).
Final == [status : {"completed", "failed"}, output : Value \cup {None},
          verdict : {"result", "matched", "mismatched"}]

ASSUME LockedAssumption ==
    /\ None \notin Attempt \cup Value \cup Completion \cup Final
    /\ Unmeasured \subseteq Value

Idle == [at |-> "idle", attempt |-> None, completion |-> None]

Resting == [at |-> "idle", attempt |-> None, status |-> "failed"]

Init ==
    /\ dispatched = {}
    /\ final = [a \in Attempt |-> None]
    /\ cas = {}
    /\ dir = [a \in Attempt |-> NoDirectory]
    /\ ctl = [c \in Controller |-> Idle]
    /\ worker = [w \in Worker |-> Resting]
    /\ alive = {}
    /\ starts = [a \in Attempt |-> 0]

-----------------------------------------------------------------------------
\* Commands.

\* execution.dispatch_v2, once per job; reproduction.dispatch, whenever the
\* run is finalized.  The program, closure and input are in the artifact store.
MayDispatch(a) ==
    /\ a \notin dispatched
    /\ a \in Reproduction => final[Original] # None

\* Mutant: outputs that neither attempt produced count as equal.
EqualOutputs(m) == m.output = final[Original].output

\* The declared outputs are there and byte-identical.
SameOutputs(m) == m.output # None /\ m.output = final[Original].output

\* check_completion: a completed run without the plan's metric has failed.
Verified(m) == IF m.output \in Unmeasured THEN "failed" ELSE m.status

\* assess: what a verified completion is recorded as.
Assess(a, m) ==
    [status |-> Verified(m), output |-> m.output,
     verdict |-> IF a = Original THEN "result"
                 ELSE IF Verified(m) = final[Original].status /\ SameOutputs(m) THEN "matched"
                 ELSE "mismatched"]

\* The handlers of execution.finalize and reproduction.finalize.
MayFinalize(a, m) ==
    /\ a \in dispatched /\ final[a] = None
    /\ m.attempt = a
    /\ m.status # "unknown"

Finalize(a, m) ==
    /\ MayFinalize(a, m)
    /\ final' = [final EXCEPT ![a] = Assess(a, m)]
    /\ UNCHANGED dispatched

-----------------------------------------------------------------------------
\* work_job, reproduce and their reconcilers.

Goto(c, step) == ctl' = [ctl EXCEPT ![c] = [@ EXCEPT !.at = step]]

Dispatch(c, a) ==
    /\ ctl[c] = Idle
    /\ MayDispatch(a)
    /\ dispatched' = dispatched \cup {a}
    /\ ctl' = [ctl EXCEPT ![c] = [Idle EXCEPT !.at = "dispatched", !.attempt = a]]
    /\ UNCHANGED <<final, cas, dir, worker, alive, starts>>

\* materialize: the directory must not exist; the control files come last.
MakeDirectory(c) ==
    LET a == ctl[c].attempt IN
    /\ ctl[c].at = "dispatched"
    /\ dir[a].made = "absent"
    /\ dir' = [dir EXCEPT ![a] = [@ EXCEPT !.made = "partial"]]
    /\ Goto(c, "making")
    /\ UNCHANGED <<events, cas, worker, alive, starts>>

Materialize(c) ==
    LET a == ctl[c].attempt IN
    /\ ctl[c].at = "making"
    /\ dir[a].made = "partial"
    /\ dir' = [dir EXCEPT ![a] = [@ EXCEPT !.made = "ready"]]
    /\ Goto(c, "spawning")
    /\ UNCHANGED <<events, cas, worker, alive, starts>>

StartWorker(w, a) ==
    /\ worker[w] = Resting
    /\ worker' = [worker EXCEPT ![w] = [at |-> "started", attempt |-> a, status |-> "failed"]]

Spawn(c) ==
    /\ ctl[c].at = "spawning"
    /\ \E w \in Worker : StartWorker(w, ctl[c].attempt)
    /\ Goto(c, "waiting")
    /\ UNCHANGED <<events, cas, dir, alive, starts>>

\* The worker returned, or somebody asks about an attempt that was dispatched.
Reconcile(c, a) ==
    /\ \/ ctl[c] = Idle /\ a \in dispatched /\ final[a] = None
       \/ /\ ctl[c].at = "waiting" /\ ctl[c].attempt = a
          /\ \E w \in Worker : worker[w].attempt = a /\ worker[w].at = "gone"
    /\ ctl' = [ctl EXCEPT ![c] = [Idle EXCEPT !.at = "reconcile", !.attempt = a]]
    /\ UNCHANGED <<events, cas, dir, worker, alive, starts>>

\* import_completion: the files must still hash to what the worker recorded.
Import(c) ==
    LET a == ctl[c].attempt
        m == dir[a].completion
    IN  /\ ctl[c].at = "reconcile"
        /\ m # None /\ m.attempt = a /\ m.status # "unknown"
        /\ m.output = dir[a].output
        /\ cas' = cas \cup {m}
        /\ ctl' = [ctl EXCEPT ![c] = [@ EXCEPT !.at = "imported", !.completion = m]]
        /\ UNCHANGED <<events, dir, worker, alive, starts>>

FinalizeImported(c) ==
    /\ ctl[c].at = "imported"
    /\ Finalize(ctl[c].attempt, ctl[c].completion)
    /\ Goto(c, "cleaning")
    /\ UNCHANGED <<cas, dir, worker, alive, starts>>

\* Anybody may put files into the artifact store, a completion with its outputs.
PutByHand(a) ==
    LET m == dir[a].completion IN
    /\ m # None /\ m \notin cas
    /\ m.output \in {None, dir[a].output}
    /\ cas' = cas \cup {m}
    /\ UNCHANGED <<events, dir, ctl, worker, alive, starts>>

\* The assigned actor sends the command by hand, with any manifest.
FinalizeByHand(a) ==
    /\ \E m \in cas : Finalize(a, m)
    /\ UNCHANGED <<cas, dir, ctl, worker, alive, starts>>

\* cleanup: the environment copy goes, the other files stay.
Cleanup(c) ==
    /\ ctl[c].at = "cleaning"
    /\ dir' = [dir EXCEPT ![ctl[c].attempt] = [@ EXCEPT !.env = "none"]]
    /\ ctl' = [ctl EXCEPT ![c] = Idle]
    /\ UNCHANGED <<events, cas, worker, alive, starts>>

\* A controller has nothing to import, lost a race, met an error, or died.
ControllerStops(c) ==
    /\ ctl[c] # Idle
    /\ ctl' = [ctl EXCEPT ![c] = Idle]
    /\ UNCHANGED <<events, cas, dir, worker, alive, starts>>

-----------------------------------------------------------------------------
\* The worker (execute).

Redeliver(w, a) ==
    /\ dir[a].made # "absent"
    /\ StartWorker(w, a)
    /\ UNCHANGED <<events, cas, dir, ctl, alive, starts>>

\* The step of a worker in a directory that is complete and still there.
Step(w, from, to) ==
    /\ worker[w].at = from
    /\ dir[worker[w].attempt].made = "ready"
    /\ worker' = [worker EXCEPT ![w] = [@ EXCEPT !.at = to]]

\* Mutant: an old marker is opened, not refused.
TakeMarkerAgain(w) ==
    /\ Step(w, "started", "marked")
    /\ dir' = [dir EXCEPT ![worker[w].attempt] = [@ EXCEPT !.lock = "taken"]]
    /\ UNCHANGED <<events, cas, ctl, alive, starts>>

\* The specification, closure and program match the identity; launch.lock is
\* created exclusively and never removed.
TakeMarker(w) ==
    /\ Step(w, "started", "marked")
    /\ dir[worker[w].attempt].lock = "none"
    /\ dir' = [dir EXCEPT ![worker[w].attempt] = [@ EXCEPT !.lock = "taken"]]
    /\ UNCHANGED <<events, cas, ctl, alive, starts>>

\* Other bytes than the frozen ones, another installer, platform or interpreter,
\* a lock that cannot be installed offline, a timeout, or a launch that cannot be
\* prepared in the realized environment: failed, no payload.
SetupFails(w) ==
    /\ \E at \in {"marked", "realized"} : Step(w, at, "stopped")
    /\ UNCHANGED <<events, cas, dir, ctl, alive, starts>>

\* materialize_environment
Realize(w) ==
    /\ Step(w, "marked", "realized")
    /\ dir[worker[w].attempt].tree = "frozen"
    /\ dir' = [dir EXCEPT ![worker[w].attempt] = [@ EXCEPT !.env = "locked"]]
    /\ UNCHANGED <<events, cas, ctl, alive, starts>>

StartPayload(w) ==
    /\ Step(w, "realized", "running")
    /\ alive' = alive \cup {worker[w].attempt}
    /\ starts' = [starts EXCEPT ![worker[w].attempt] = @ + 1]
    /\ UNCHANGED <<events, cas, dir, ctl>>

\* The payload writes its outputs, or changes what it was given.
Payload(a) ==
    /\ a \in alive /\ dir[a].made = "ready"
    /\ \/ \E v \in Value : dir' = [dir EXCEPT ![a] = [@ EXCEPT !.output = v]]
       \/ dir' = [dir EXCEPT ![a] = [@ EXCEPT !.tree = "changed"]]
       \/ \E e \in {"changed", "none"} : dir' = [dir EXCEPT ![a] = [@ EXCEPT !.env = e]]
    /\ UNCHANGED <<events, cas, ctl, worker, alive, starts>>

\* The payload ended, or a limit was met, and its process group is gone.
StopConfirmed(w) ==
    /\ worker[w].at = "running"
    /\ \E status \in {"completed", "failed"} :
         worker' = [worker EXCEPT ![w] = [@ EXCEPT !.at = "stopped", !.status = status]]
    /\ alive' = alive \ {worker[w].attempt}
    /\ UNCHANGED <<events, cas, dir, ctl, starts>>

StopUnconfirmed(w) ==
    /\ worker[w].at = "running"
    /\ worker' = [worker EXCEPT ![w] = [@ EXCEPT !.at = "stopped", !.status = "unknown"]]
    /\ UNCHANGED <<events, cas, dir, ctl, alive, starts>>

\* Mutant: what was checked before the start is not checked again.
AsBefore(status, d) ==
    IF status = "completed" /\ d.output = None THEN "failed" ELSE status

\* A run is completed if all its outputs are there, and the tree and the
\* environment are still what they were before it.
AsObserved(status, d) ==
    IF status = "completed" /\ (d.tree # "frozen" \/ d.env # "locked" \/ d.output = None)
    THEN "failed" ELSE status

\* The last look and the atomic completion.json; a realized environment that
\* is gone cannot be inventoried and raises.
Record(w) ==
    LET a == worker[w].attempt
        status == AsObserved(worker[w].status, dir[a])
    IN  /\ Step(w, "stopped", "gone")
        /\ status = "unknown" \/ starts[a] = 0 \/ dir[a].env # "none"
        /\ dir' = [dir EXCEPT ![a] = [@ EXCEPT !.completion =
             [attempt |-> a, status |-> status,
              output |-> IF status = "unknown" THEN None ELSE dir[a].output]]]
        /\ UNCHANGED <<events, cas, ctl, alive, starts>>

\* A marker that exists, missing or half-written control files, an error, or
\* the death of the worker: nothing is recorded, the payload may go on.
WorkerEnds(w) ==
    /\ worker[w].at \notin {"idle", "gone"}
    /\ worker' = [worker EXCEPT ![w] = [@ EXCEPT !.at = "gone"]]
    /\ UNCHANGED <<events, cas, dir, ctl, alive, starts>>

\* The host clears its temporary directory.
Vanish(a) ==
    /\ dir[a].made # "absent"
    /\ dir' = [dir EXCEPT ![a] = NoDirectory]
    /\ UNCHANGED <<events, cas, ctl, worker, alive, starts>>

-----------------------------------------------------------------------------

ControllerStep(c) ==
    \/ \E a \in Attempt : Dispatch(c, a) \/ Reconcile(c, a)
    \/ MakeDirectory(c)
    \/ Materialize(c)
    \/ Spawn(c)
    \/ Import(c)
    \/ FinalizeImported(c)
    \/ Cleanup(c)
    \/ ControllerStops(c)

WorkerStep(w) ==
    \/ \E a \in Attempt : Redeliver(w, a)
    \/ TakeMarker(w)
    \/ SetupFails(w)
    \/ Realize(w)
    \/ StartPayload(w)
    \/ StopConfirmed(w)
    \/ StopUnconfirmed(w)
    \/ Record(w)
    \/ WorkerEnds(w)

Next ==
    \/ \E c \in Controller : ControllerStep(c)
    \/ \E w \in Worker : WorkerStep(w)
    \/ \E a \in Attempt : Payload(a) \/ Vanish(a) \/ PutByHand(a) \/ FinalizeByHand(a)

Spec == Init /\ [][Next]_vars

-----------------------------------------------------------------------------
\* Properties.

Directory == [made : {"absent", "partial", "ready"}, tree : {"frozen", "changed"},
              env : {"none", "locked", "changed"}, output : Value \cup {None},
              lock : {"none", "taken"}, completion : Completion \cup {None}]

ControllerState ==
    [at : {"idle", "dispatched", "making", "spawning", "waiting", "reconcile",
           "imported", "cleaning"},
     attempt : Attempt \cup {None}, completion : Completion \cup {None}]

WorkerState ==
    [at : {"idle", "started", "marked", "realized", "running", "stopped", "gone"},
     attempt : Attempt \cup {None}, status : {"completed", "failed", "unknown"}]

TypeOK ==
    /\ dispatched \subseteq Attempt
    /\ final \in [Attempt -> Final \cup {None}]
    /\ cas \subseteq Completion
    /\ dir \in [Attempt -> Directory]
    /\ ctl \in [Controller -> ControllerState]
    /\ worker \in [Worker -> WorkerState]
    /\ alive \subseteq Attempt
    /\ starts \in [Attempt -> Nat]

\* A payload runs at most once per dispatch, although the marker that keeps
\* repeated deliveries out may vanish with its directory: a directory is made
\* for a dispatch only once (materialize, launch.lock).
OneStartPerDispatch ==
    \A a \in Attempt : starts[a] > 0 => starts[a] = 1 /\ a \in dispatched

\* What is recorded about an attempt is what its own stopped payload left, and
\* a completed run has left program, input, closure and environment as frozen
\* (inputs_after, environment_after, import_completion, check_completion).
RecordedIsWhatRan ==
    \A a \in Attempt : final[a] # None =>
        /\ a \notin alive
        /\ dir[a].made = "ready" => final[a].output = dir[a].output
        /\ final[a].status = "completed" =>
             /\ starts[a] = 1
             /\ dir[a].tree = "frozen" /\ dir[a].env # "changed"

\* A matched reproduction has executed the program again and produced the bytes
\* of the result, which was produced by an execution: attempts that failed
\* alike before a payload ran do not match (assess).
MatchedWasRerun ==
    \A r \in Reproduction : final[r] # None /\ final[r].verdict = "matched" =>
        /\ starts[r] = 1 /\ starts[Original] = 1
        /\ final[r].output = final[Original].output

=============================================================================
