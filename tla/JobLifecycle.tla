---------------------------- MODULE JobLifecycle ----------------------------
(***************************************************************************)
(* What managed execution promises of one job, apart from controllers,     *)
(* workspaces and workers: the states that job_state of                    *)
(* src/episteme/execution.py reports, and how often the payload of the job *)
(* has been started.  Execution.tla implements this module and Batch.tla   *)
(* builds on it.                                                           *)
(***************************************************************************)
EXTENDS Naturals

CONSTANTS Job

VARIABLES
    status,     \* per job: what job_state answers, or "absent"
    starts      \* per job: how often research code began to run for it

vars == <<status, starts>>

Terminal == {"completed", "failed"}

Status == {"absent", "queued", "unknown"} \cup Terminal

Init == /\ status = [j \in Job |-> "absent"]
        /\ starts = [j \in Job |-> 0]

Move(j, from, to) == /\ status[j] = from
                     /\ status' = [status EXCEPT ![j] = to]

Enqueue(j) == Move(j, "absent", "queued") /\ UNCHANGED starts

\* The durable dispatch.  From here on nobody knows the outcome without
\* verified evidence.
Dispatch(j) == Move(j, "queued", "unknown") /\ UNCHANGED starts

\* At most one start, and only between dispatch and terminal evidence.
Start(j) == /\ status[j] = "unknown"
            /\ starts[j] = 0
            /\ starts' = [starts EXCEPT ![j] = 1]
            /\ UNCHANGED status

\* A job may fail without a start, never complete without one.
Finish(j, verdict) == /\ Move(j, "unknown", verdict)
                      /\ verdict = "completed" => starts[j] = 1
                      /\ UNCHANGED starts

Next == \E j \in Job : \/ Enqueue(j)
                       \/ Dispatch(j)
                       \/ Start(j)
                       \/ \E verdict \in Terminal : Finish(j, verdict)

Spec == Init /\ [][Next]_vars

=============================================================================
