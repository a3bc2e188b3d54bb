-------------------------- MODULE ExecutionProofs ---------------------------
(***************************************************************************)
(* Execution.tla for every number of jobs, workspace tokens, controllers   *)
(* and workers: its safety invariants, and that it implements              *)
(* JobLifecycle.tla.  The inductive invariant follows the authority to     *)
(* start research code: from the committed dispatch, which alone names a   *)
(* token, over the directory that one controller makes for it, to the      *)
(* launch lock, whose one holder alone starts the payload and writes the   *)
(* completion file.                                                        *)
(***************************************************************************)
EXTENDS Execution, TLAPS

\* A token is named by at most one dispatch, of a queued job.
DispatchesDistinct ==
    \A i \in Job : dispatch[i] # None =>
        /\ i \in queued
        /\ \A j \in Job : dispatch[j] = dispatch[i] => j = i

\* What exists for a token, and what had to exist before it.
TokenHistory ==
    \A t \in Token :
        /\ workspace[t] # "absent" => t \in Used
        /\ t \in launchLock => workspace[t] # "absent"
        /\ starts[t] > 0 => starts[t] = 1 /\ t \in launchLock
        /\ t \in alive => starts[t] > 0
        /\ completion[t] # None => t \in launchLock
        /\ completion[t] \in Known => t \notin alive
        /\ completion[t] = "valid" => starts[t] = 1

\* What a controller remembers still agrees with the log and the files.
ControllerKnows ==
    \A c \in Controller :
        /\ ctl[c].at # "idle" => ctl[c].job \in Job
        /\ ctl[c].at \in {"decided", "dispatching"} => ctl[c].job \in queued
        /\ ctl[c].at \in {"dispatched", "copying", "spawning"} => dispatch[ctl[c].job] # None
        /\ ctl[c].at \in {"copying", "spawning"} =>
             ctl[c].token \in Token /\ workspace[ctl[c].token] # "absent"
        /\ ctl[c].at = "waiting" => ctl[c].child \in Worker
        /\ ctl[c].at \in {"imported", "finalizing"} =>
             /\ ctl[c].token \in Token
             /\ ctl[c].verdict \in Known
             /\ completion[ctl[c].token] = ctl[c].verdict

\* A worker that created launch.lock and has not ended yet.
Holds(w) == worker[w].at \in {"locked", "running", "stopped"}

\* A lock has one holder.
LockHeldOnce ==
    \A v, w \in Worker :
        Holds(v) /\ Holds(w) /\ worker[v].token = worker[w].token => v = w

\* What a worker may rely on: its directory exists, and as long as it holds the
\* lock the start and the completion file are its own to make.
WorkerKnows ==
    \A w \in Worker :
        /\ worker[w].at # "idle" =>
             worker[w].token \in Token /\ workspace[worker[w].token] # "absent"
        /\ Holds(w) =>
             worker[w].token \in launchLock /\ completion[worker[w].token] = None
        /\ worker[w].at = "locked" => starts[worker[w].token] = 0
        /\ worker[w].at = "running" => starts[worker[w].token] = 1
        /\ worker[w].at = "stopped" =>
             /\ worker[w].verdict \in Known => worker[w].token \notin alive
             /\ worker[w].verdict = "valid" => starts[worker[w].token] = 1

\* An imported manifest is a copy of a completion file.
ManifestsTrue == \A m \in cas : m.verdict \in Known /\ completion[m.token] = m.verdict

IInv == /\ TypeOK /\ DispatchesDistinct /\ TokenHistory /\ ControllerKnows
        /\ LockHeldOnce /\ WorkerKnows /\ ManifestsTrue /\ ResultIsOwnEvidence

-----------------------------------------------------------------------------

LEMMA InitIInv == Init => IInv
  <1> SUFFICES ASSUME Init PROVE IInv
    OBVIOUS
  <1> USE ExecutionAssumption
  <1>1. TypeOK
    BY DEF Init, TypeOK, ControllerState, WorkerState, Idle, Resting, Verdict, Manifest
  <1>2. DispatchesDistinct /\ TokenHistory
    BY DEF Init, DispatchesDistinct, TokenHistory, Known
  <1>3. ControllerKnows /\ LockHeldOnce /\ WorkerKnows
    BY DEF Init, ControllerKnows, LockHeldOnce, WorkerKnows, Holds, Idle, Resting
  <1>4. ManifestsTrue /\ ResultIsOwnEvidence
    BY DEF Init, ManifestsTrue, ResultIsOwnEvidence
  <1> QED
    BY <1>1, <1>2, <1>3, <1>4 DEF IInv

\* Steps by what they change.  The first lemma is for the arguments about the
\* log, the next about the files, the payload and the workers.
LEMMA LogSteps ==
    ASSUME [Next]_vars
    PROVE  \/ UNCHANGED events
           \/ UNCHANGED <<queued, dispatch, result>> /\ Committed
           \/ \E j \in Job : Enqueue(j)
           \/ \E c \in Controller, t \in Token : DispatchCommits(c, t)
           \/ \E j \in Job, m \in cas : FinalizeByHand(j, m)
           \/ \E c \in Controller : FinalizeCommits(c)
  BY DEF Next, CalmNext, ControllerStep, WorkerStep, vars, OtherCommand, Decide,
     PrepareDispatch, DispatchRefused, MakeWorkspace, CopyInputs, Spawn, WorkerReturned,
     ReconcileNothing, Import, PrepareFinalize, FinalizeRefused, ControllerCrash,
     Redeliver, TakeLock, GiveUp, PreflightFails, StartPayload, PayloadExits,
     LingererExits, StopConfirmed, StopUnconfirmed, WriteCompletion, WorkerCrash

LEMMA FileSteps ==
    ASSUME [Next]_vars
    PROVE  \/ UNCHANGED files
           \/ \E c \in Controller : MakeWorkspace(c) \/ CopyInputs(c)
           \/ \E w \in Worker : TakeLock(w) \/ WriteCompletion(w)
  BY DEF Next, CalmNext, ControllerStep, WorkerStep, vars, OtherCommand, Decide,
     PrepareDispatch, DispatchRefused, DispatchCommits, Enqueue, FinalizeByHand,
     FinalizeCommits, Spawn, WorkerReturned,
     ReconcileNothing, Import, PrepareFinalize, FinalizeRefused, ControllerCrash,
     Redeliver, GiveUp, PreflightFails, StartPayload, PayloadExits,
     LingererExits, StopConfirmed, StopUnconfirmed, WorkerCrash

LEMMA WorkerSteps ==
    ASSUME [Next]_vars
    PROVE  \/ UNCHANGED <<worker, payload>>
           \/ \E c \in Controller, w \in Worker : Spawn(c, w)
           \/ \E w \in Worker, t \in Token : Redeliver(w, t)
           \/ \E w \in Worker : \/ TakeLock(w) \/ GiveUp(w) \/ PreflightFails(w)
                                \/ StartPayload(w) \/ StopConfirmed(w) \/ StopUnconfirmed(w)
                                \/ WriteCompletion(w) \/ WorkerCrash(w)
           \/ \E t \in Token : PayloadExits(t) \/ LingererExits(t)
  BY DEF Next, CalmNext, ControllerStep, WorkerStep, vars, OtherCommand, Decide,
     PrepareDispatch, DispatchRefused, DispatchCommits, Enqueue, FinalizeByHand,
     FinalizeCommits, MakeWorkspace, CopyInputs, WorkerReturned,
     ReconcileNothing, Import, PrepareFinalize, FinalizeRefused, ControllerCrash

LEMMA ControllerSteps ==
    ASSUME [Next]_vars
    PROVE  \/ UNCHANGED <<ctl, cas>>
           \/ \E c \in Controller : ControllerStep(c) \/ ControllerCrash(c)
                                    \/ \E j \in Job : Decide(c, j)
  BY DEF Next, CalmNext, WorkerStep, vars, OtherCommand, Enqueue, FinalizeByHand,
     Redeliver, TakeLock, GiveUp, PreflightFails, StartPayload, PayloadExits,
     LingererExits, StopConfirmed, StopUnconfirmed, WriteCompletion, WorkerCrash

LEMMA ManifestTyped ==
    ASSUME TypeOK, NEW t \in Token, completion[t] \in Known
    PROVE  [token |-> t, verdict |-> completion[t]] \in Manifest
  BY DEF Manifest, Verdict

-----------------------------------------------------------------------------

LEMMA CommittedTyped == TypeOK /\ Committed => revision' \in Nat
  BY DEF TypeOK, Committed

LEMMA IdleTyped == Idle \in ControllerState
  BY DEF Idle, ControllerState, Verdict

LEMMA ControllersTyped ==
    ASSUME TypeOK, ControllerKnows, [Next]_vars
    PROVE  ctl' \in [Controller -> ControllerState]
  <1>0. ctl \in [Controller -> ControllerState] /\ revision \in Nat
    BY DEF TypeOK
  <1>1. CASE UNCHANGED <<ctl, cas>>
    BY <1>0, <1>1
  <1>2. ASSUME NEW c \in Controller,
               ControllerCrash(c) \/ DispatchRefused(c) \/ ReconcileNothing(c)
                 \/ FinalizeCommits(c) \/ FinalizeRefused(c)
        PROVE  ctl' \in [Controller -> ControllerState]
    BY <1>0, <1>2, IdleTyped
       DEF ControllerCrash, DispatchRefused, ReconcileNothing, FinalizeCommits, FinalizeRefused
  <1>3. ASSUME NEW c \in Controller, NEW j \in Job, Decide(c, j)
        PROVE  ctl' \in [Controller -> ControllerState]
    <2>1. [Idle EXCEPT !.job = j,
                       !.at = IF dispatch[j] = None THEN "decided" ELSE "reconcile"]
            \in ControllerState
      BY DEF Idle, ControllerState, Verdict
    <2> QED
      BY <1>0, <1>3, <2>1 DEF Decide
  <1>4. ASSUME NEW c \in Controller,
               \/ PrepareDispatch(c) \/ PrepareFinalize(c)
               \/ \E t \in Token : DispatchCommits(c, t)
               \/ CopyInputs(c) \/ WorkerReturned(c)
        PROVE  ctl' \in [Controller -> ControllerState]
    <2>1. ASSUME NEW at \in {"dispatching", "finalizing"},
                 ctl' = [ctl EXCEPT ![c] = [@ EXCEPT !.at = at, !.expected = revision]]
          PROVE  ctl' \in [Controller -> ControllerState]
      BY <1>0, <2>1 DEF ControllerState
    <2>2. CASE \/ \E t \in Token : DispatchCommits(c, t)
               \/ CopyInputs(c) \/ WorkerReturned(c)
      BY <1>0, <2>2 DEF ControllerState, DispatchCommits, CopyInputs, WorkerReturned, Goto
    <2> QED
      BY <1>4, <2>1, <2>2 DEF PrepareDispatch, PrepareFinalize
  <1>5. ASSUME NEW c \in Controller, MakeWorkspace(c)
        PROVE  ctl' \in [Controller -> ControllerState]
    <2>1. dispatch[ctl[c].job] \in Token
      BY <1>5 DEF MakeWorkspace, TypeOK, At, ControllerKnows
    <2> QED
      BY <1>0, <1>5, <2>1 DEF ControllerState, MakeWorkspace
  <1>6. ASSUME NEW c \in Controller, NEW w \in Worker, Spawn(c, w)
        PROVE  ctl' \in [Controller -> ControllerState]
    BY <1>0, <1>6 DEF ControllerState, Spawn
  <1>7. ASSUME NEW c \in Controller, Import(c)
        PROVE  ctl' \in [Controller -> ControllerState]
    <2>1. /\ dispatch[ctl[c].job] \in Token
          /\ completion[dispatch[ctl[c].job]] \in Verdict
      BY <1>7 DEF Import, NothingToReconcile, TypeOK, At, ControllerKnows, Verdict
    <2> QED
      BY <1>0, <1>7, <2>1 DEF ControllerState, Import
  <1> QED
    BY <1>1, <1>2, <1>3, <1>4, <1>5, <1>6, <1>7, ControllerSteps DEF ControllerStep

LEMMA WorkersTyped ==
    ASSUME TypeOK, ControllerKnows, [Next]_vars
    PROVE  worker' \in [Worker -> WorkerState]
  <1>0. worker \in [Worker -> WorkerState]
    BY DEF TypeOK
  <1>1. CASE UNCHANGED worker \/ \E t \in Token : PayloadExits(t) \/ LingererExits(t)
    BY <1>0, <1>1 DEF PayloadExits, LingererExits
  <1>2. ASSUME NEW w \in Worker, NEW t \in Token, StartWorker(w, t)
        PROVE  worker' \in [Worker -> WorkerState]
    BY <1>0, <1>2 DEF StartWorker, WorkerState, Verdict
  <1>3. ASSUME NEW w \in Worker,
               TakeLock(w) \/ GiveUp(w) \/ StartPayload(w) \/ WriteCompletion(w) \/ WorkerCrash(w)
        PROVE  worker' \in [Worker -> WorkerState]
    BY <1>0, <1>3 DEF TakeLock, GiveUp, StartPayload, WriteCompletion, WorkerCrash, Step,
                      WorkerState
  <1>4. ASSUME NEW w \in Worker, NEW v \in Verdict,
               worker' = [worker EXCEPT ![w] = [@ EXCEPT !.at = "stopped", !.verdict = v]]
        PROVE  worker' \in [Worker -> WorkerState]
    BY <1>0, <1>4 DEF WorkerState
  <1>5. ASSUME NEW w \in Worker, PreflightFails(w) \/ StopUnconfirmed(w) \/ StopConfirmed(w)
        PROVE  worker' \in [Worker -> WorkerState]
    BY <1>4, <1>5 DEF PreflightFails, StopUnconfirmed, StopConfirmed, Observed, Verdict, Known
  <1>6. ASSUME NEW c \in Controller, NEW w \in Worker, Spawn(c, w)
        PROVE  worker' \in [Worker -> WorkerState]
    <2>1. ctl[c].token \in Token
      BY <1>6 DEF Spawn, At, ControllerKnows
    <2> QED
      BY <1>2, <1>6, <2>1 DEF Spawn
  <1> QED
    BY <1>1, <1>2, <1>3, <1>5, <1>6, WorkerSteps DEF Redeliver

LEMMA LogTyped ==
    ASSUME TypeOK, ControllerKnows, [Next]_vars
    PROVE  /\ revision' \in Nat /\ queued' \subseteq Job
           /\ dispatch' \in [Job -> Token \cup {None}]
           /\ result' \in [Job -> Terminal \cup {None}]
  <1>1. CASE UNCHANGED events
    BY <1>1 DEF TypeOK, events
  <1>2. CASE UNCHANGED <<queued, dispatch, result>> /\ Committed
    BY <1>2 DEF TypeOK, Committed
  <1>3. ASSUME NEW j \in Job, Enqueue(j)
        PROVE  /\ revision' \in Nat /\ queued' \subseteq Job
               /\ UNCHANGED <<dispatch, result>>
    BY <1>3 DEF Enqueue, TypeOK, Committed
  <1>4. ASSUME NEW c \in Controller, NEW t \in Token, DispatchCommits(c, t)
        PROVE  /\ revision' \in Nat /\ dispatch' \in [Job -> Token \cup {None}]
               /\ UNCHANGED <<queued, result>>
    BY <1>4 DEF DispatchCommits, TypeOK, Committed, At, ControllerKnows
  <1>5. ASSUME NEW j \in Job, NEW m, RecordResult(j, m)
        PROVE  /\ revision' \in Nat /\ result' \in [Job -> Terminal \cup {None}]
               /\ UNCHANGED <<queued, dispatch>>
    BY <1>5 DEF RecordResult, TerminalStatus, Terminal, TypeOK, Committed
  <1>6. ASSUME NEW c \in Controller, FinalizeCommits(c)
        PROVE  RecordResult(ctl[c].job, Imported(c)) /\ ctl[c].job \in Job
    BY <1>6 DEF FinalizeCommits, At, ControllerKnows
  <1> QED
    BY <1>1, <1>2, <1>3, <1>4, <1>5, <1>6, LogSteps DEF FinalizeByHand, TypeOK

LEMMA FilesTyped ==
    ASSUME TypeOK, ControllerKnows, WorkerKnows, [Next]_vars
    PROVE  /\ workspace' \in [Token -> {"absent", "partial", "ready"}]
           /\ launchLock' \subseteq Token
           /\ completion' \in [Token -> Verdict \cup {None}]
  <1>1. CASE UNCHANGED files
    BY <1>1 DEF TypeOK, files
  <1>2. ASSUME NEW c \in Controller, MakeWorkspace(c) \/ CopyInputs(c)
        PROVE  /\ workspace' \in [Token -> {"absent", "partial", "ready"}]
               /\ UNCHANGED <<launchLock, completion>>
    BY <1>2 DEF MakeWorkspace, CopyInputs, TypeOK, At, ControllerKnows
  <1>3. ASSUME NEW w \in Worker, TakeLock(w)
        PROVE  launchLock' \subseteq Token /\ UNCHANGED <<workspace, completion>>
    BY <1>3 DEF TakeLock, Step, TypeOK, WorkerKnows
  <1>4. ASSUME NEW w \in Worker, WriteCompletion(w)
        PROVE  /\ completion' \in [Token -> Verdict \cup {None}]
               /\ UNCHANGED <<launchLock, workspace>>
    BY <1>4 DEF WriteCompletion, Step, TypeOK, WorkerState
  <1> QED
    BY <1>1, <1>2, <1>3, <1>4, FileSteps DEF TypeOK

LEMMA PayloadTyped ==
    ASSUME TypeOK, WorkerKnows, [Next]_vars
    PROVE  /\ outcome' \in [Token -> {None, "valid", "invalid", "error"}]
           /\ alive' \subseteq Token
           /\ starts' \in [Token -> Nat]
  <1>1. CASE UNCHANGED payload
    BY <1>1 DEF TypeOK, payload
  <1>2. ASSUME NEW t \in Token, PayloadExits(t) \/ LingererExits(t)
        PROVE  /\ outcome' \in [Token -> {None, "valid", "invalid", "error"}]
               /\ alive' \subseteq Token /\ UNCHANGED starts
    BY <1>2 DEF PayloadExits, LingererExits, TypeOK
  <1>3. ASSUME NEW w \in Worker, StartPayload(w)
        PROVE  /\ alive' \subseteq Token /\ starts' \in [Token -> Nat] /\ UNCHANGED outcome
    BY <1>3 DEF StartPayload, Step, TypeOK, WorkerKnows
  <1>4. ASSUME NEW w \in Worker, StopConfirmed(w)
        PROVE  /\ outcome' \in [Token -> {None, "valid", "invalid", "error"}]
               /\ alive' \subseteq Token /\ UNCHANGED starts
    BY <1>4 DEF StopConfirmed, TypeOK
  <1>5. \/ UNCHANGED payload
        \/ \E t \in Token : PayloadExits(t) \/ LingererExits(t)
        \/ \E w \in Worker : StartPayload(w) \/ StopConfirmed(w)
    BY WorkerSteps DEF Spawn, Redeliver, TakeLock, GiveUp, PreflightFails, StopUnconfirmed,
                       WriteCompletion, WorkerCrash
  <1> QED
    BY <1>1, <1>2, <1>3, <1>4, <1>5 DEF TypeOK

LEMMA CasTyped ==
    ASSUME TypeOK, ControllerKnows, [Next]_vars
    PROVE  cas' \subseteq Manifest
  <1>1. ASSUME NEW c \in Controller, Import(c)
        PROVE  cas' \subseteq Manifest
    BY <1>1, ManifestTyped DEF Import, NothingToReconcile, At, TypeOK, ControllerKnows
  <1>2. UNCHANGED cas \/ \E c \in Controller : Import(c)
    BY ControllerSteps
       DEF ControllerStep, ControllerCrash, Decide, PrepareDispatch, DispatchCommits,
           DispatchRefused, MakeWorkspace, CopyInputs, Spawn, WorkerReturned,
           ReconcileNothing, PrepareFinalize, FinalizeCommits, FinalizeRefused
  <1> QED
    BY <1>1, <1>2 DEF TypeOK

LEMMA NextTyped == IInv /\ [Next]_vars => TypeOK'
  BY ControllersTyped, WorkersTyped, LogTyped, FilesTyped, PayloadTyped, CasTyped
     DEF IInv, TypeOK

-----------------------------------------------------------------------------
\* Events, directories, locks and completion files stay what they are.

LEMMA LogGrows ==
    ASSUME IInv, [Next]_vars
    PROVE  /\ queued \subseteq queued'
           /\ \A j \in Job : dispatch[j] # None => dispatch'[j] = dispatch[j]
           /\ Used \subseteq Used'
  <1> USE DEF IInv, TypeOK
  <1>1. queued \subseteq queued'
    BY LogSteps DEF events, Enqueue, DispatchCommits, FinalizeByHand, FinalizeCommits, RecordResult
  <1>2. ASSUME NEW c \in Controller, NEW t \in Token, DispatchCommits(c, t)
        PROVE  \A j \in Job : dispatch[j] # None => dispatch'[j] = dispatch[j]
    BY <1>2 DEF DispatchCommits, MayDispatch
  <1>3. \/ UNCHANGED dispatch
        \/ \E c \in Controller, t \in Token : DispatchCommits(c, t)
    BY LogSteps DEF events, Enqueue, FinalizeByHand, FinalizeCommits, RecordResult
  <1>4. \A j \in Job : dispatch[j] # None => dispatch'[j] = dispatch[j]
    BY <1>2, <1>3
  <1> QED
    BY <1>1, <1>4 DEF Used

LEMMA FilesGrow ==
    ASSUME IInv, [Next]_vars, NEW t \in Token
    PROVE  /\ workspace[t] # "absent" => workspace'[t] # "absent"
           /\ t \in launchLock => t \in launchLock'
           /\ completion[t] # None => completion'[t] = completion[t]
  <1> USE DEF IInv, TypeOK
  <1>1. CASE UNCHANGED files
    BY <1>1 DEF files
  <1>2. ASSUME NEW c \in Controller, MakeWorkspace(c) \/ CopyInputs(c)
        PROVE  /\ workspace[t] # "absent" => workspace'[t] # "absent"
               /\ UNCHANGED <<launchLock, completion>>
    BY <1>2 DEF MakeWorkspace, CopyInputs, At, ControllerKnows
  <1>3. ASSUME NEW w \in Worker, TakeLock(w)
        PROVE  launchLock \subseteq launchLock' /\ UNCHANGED <<workspace, completion>>
    BY <1>3 DEF TakeLock
  <1>4. ASSUME NEW w \in Worker, WriteCompletion(w)
        PROVE  /\ completion[t] # None => completion'[t] = completion[t]
               /\ UNCHANGED <<workspace, launchLock>>
    BY <1>4 DEF WriteCompletion, Step, WorkerKnows, Holds
  <1> QED
    BY <1>1, <1>2, <1>3, <1>4, FileSteps

LEMMA StepDispatches ==
    ASSUME IInv, [Next]_vars
    PROVE  DispatchesDistinct'
  <1> USE DEF IInv, TypeOK, DispatchesDistinct
  <1>1. ASSUME NEW c \in Controller, NEW t \in Token, DispatchCommits(c, t)
        PROVE  DispatchesDistinct'
    BY <1>1, ExecutionAssumption DEF DispatchCommits, MayDispatch, Used, At, ControllerKnows
  <1>2. \/ UNCHANGED dispatch
        \/ \E c \in Controller, t \in Token : DispatchCommits(c, t)
    BY LogSteps DEF events, Enqueue, FinalizeByHand, FinalizeCommits, RecordResult
  <1> QED
    BY <1>1, <1>2, LogGrows

LEMMA FileAndPayloadSteps ==
    ASSUME [Next]_vars
    PROVE  \/ UNCHANGED <<files, payload>>
           \/ \E c \in Controller : MakeWorkspace(c) \/ CopyInputs(c)
           \/ \E w \in Worker : TakeLock(w) \/ StartPayload(w) \/ StopConfirmed(w)
                                \/ WriteCompletion(w)
           \/ \E t \in Token : PayloadExits(t) \/ LingererExits(t)
  BY FileSteps, WorkerSteps
     DEF Spawn, Redeliver, GiveUp, PreflightFails, StopUnconfirmed, WorkerCrash

LEMMA StepHistory ==
    ASSUME IInv, [Next]_vars
    PROVE  TokenHistory'
  <1> USE DEF IInv
  <1> SUFFICES ASSUME NEW t \in Token
               PROVE  /\ workspace'[t] # "absent" => t \in Used'
                      /\ t \in launchLock' => workspace'[t] # "absent"
                      /\ starts'[t] > 0 => starts'[t] = 1 /\ t \in launchLock'
                      /\ t \in alive' => starts'[t] > 0
                      /\ completion'[t] # None => t \in launchLock'
                      /\ completion'[t] \in Known => t \notin alive'
                      /\ completion'[t] = "valid" => starts'[t] = 1
    BY DEF TokenHistory
  <1>0. /\ t \in Used => t \in Used'
        /\ workspace[t] # "absent" => t \in Used
        /\ t \in launchLock => workspace[t] # "absent"
        /\ starts[t] > 0 => starts[t] = 1 /\ t \in launchLock
        /\ t \in alive => starts[t] > 0
        /\ completion[t] # None => t \in launchLock
        /\ completion[t] \in Known => t \notin alive
        /\ completion[t] = "valid" => starts[t] = 1
    BY LogGrows DEF TokenHistory
  <1>1. CASE UNCHANGED <<files, payload>>
    BY <1>0, <1>1 DEF files, payload
  <1>2. ASSUME NEW c \in Controller, MakeWorkspace(c) \/ CopyInputs(c)
        PROVE  /\ workspace'[t] # "absent" => workspace[t] # "absent" \/ t \in Used
               /\ workspace[t] # "absent" => workspace'[t] # "absent"
               /\ UNCHANGED <<launchLock, completion, payload>>
    BY <1>2, FilesGrow DEF TypeOK, MakeWorkspace, CopyInputs, At, ControllerKnows, Used
  <1>3. ASSUME NEW w \in Worker, TakeLock(w)
        PROVE  /\ t \in launchLock' => t \in launchLock \/ workspace[t] = "ready"
               /\ launchLock \subseteq launchLock'
               /\ UNCHANGED <<workspace, completion, payload>>
    BY <1>3 DEF TakeLock
  <1>4. ASSUME NEW w \in Worker, StartPayload(w)
        PROVE  /\ \/ /\ starts'[t] = 1 /\ t \in launchLock /\ completion[t] = None
                  \/ starts'[t] = starts[t] /\ (t \in alive' => t \in alive)
               /\ UNCHANGED files
    BY <1>4 DEF StartPayload, Step, WorkerKnows, Holds, TypeOK
  <1>5. ASSUME NEW u \in Token, PayloadExits(u) \/ LingererExits(u)
        PROVE  alive' \subseteq alive /\ UNCHANGED <<starts, files>>
    BY <1>5 DEF PayloadExits, LingererExits
  <1>6. ASSUME NEW w \in Worker, StopConfirmed(w)
        PROVE  alive' \subseteq alive /\ UNCHANGED <<starts, files>>
    BY <1>6 DEF StopConfirmed
  <1>7. ASSUME NEW w \in Worker, WriteCompletion(w)
        PROVE  /\ \/ completion'[t] = completion[t]
                  \/ /\ t \in launchLock
                     /\ completion'[t] \in Known => t \notin alive
                     /\ completion'[t] = "valid" => starts[t] = 1
               /\ UNCHANGED <<workspace, launchLock, payload>>
    BY <1>7 DEF WriteCompletion, Step, WorkerKnows, Holds, TypeOK
  <1> QED
    BY <1>0, <1>1, <1>2, <1>3, <1>4, <1>5, <1>6, <1>7, FileAndPayloadSteps, ExecutionAssumption
       DEF files, payload, Known

\* What a controller remembers survives its own steps and those of others.
LEMMA StepController ==
    ASSUME IInv, [Next]_vars
    PROVE  ControllerKnows'
  <1> USE DEF IInv
  <1> SUFFICES ASSUME NEW c \in Controller
               PROVE  /\ ctl'[c].at # "idle" => ctl'[c].job \in Job
                      /\ ctl'[c].at \in {"decided", "dispatching"} => ctl'[c].job \in queued'
                      /\ ctl'[c].at \in {"dispatched", "copying", "spawning"} =>
                           dispatch'[ctl'[c].job] # None
                      /\ ctl'[c].at \in {"copying", "spawning"} =>
                           ctl'[c].token \in Token /\ workspace'[ctl'[c].token] # "absent"
                      /\ ctl'[c].at = "waiting" => ctl'[c].child \in Worker
                      /\ ctl'[c].at \in {"imported", "finalizing"} =>
                           /\ ctl'[c].token \in Token
                           /\ ctl'[c].verdict \in Known
                           /\ completion'[ctl'[c].token] = ctl'[c].verdict
    BY DEF ControllerKnows
  <1> DEFINE r == ctl[c]
  <1>0. /\ r \in ControllerState
        /\ ctl \in [Controller -> ControllerState]
        /\ r.at # "idle" => r.job \in Job
        /\ r.at \in {"decided", "dispatching"} => r.job \in queued'
        /\ r.at \in {"dispatched", "copying", "spawning"} =>
             /\ dispatch'[r.job] = dispatch[r.job]
             /\ dispatch'[r.job] # None
        /\ r.at \in {"copying", "spawning"} =>
             r.token \in Token /\ workspace'[r.token] # "absent"
        /\ r.at = "waiting" => r.child \in Worker
        /\ r.at \in {"imported", "finalizing"} =>
             /\ r.token \in Token
             /\ r.verdict \in Known
             /\ completion'[r.token] = r.verdict
    BY LogGrows, FilesGrow, ExecutionAssumption DEF ControllerKnows, TypeOK, Known
  <1>1. CASE ctl'[c] = r
    BY <1>0, <1>1
  <1>2. CASE ctl'[c] = Idle
    BY <1>2 DEF Idle
  <1>3. ASSUME NEW j \in Job, Decide(c, j)
        PROVE  /\ ctl'[c].job = j /\ j \in queued' /\ ctl'[c].at \in {"decided", "reconcile"}
    BY <1>0, <1>3, LogGrows DEF Decide, Idle
  <1>4. CASE PrepareDispatch(c)
    <2>1. ctl'[c] = [r EXCEPT !.at = "dispatching", !.expected = revision] /\ r.at = "decided"
      BY <1>0, <1>4 DEF PrepareDispatch, At
    <2> QED
      BY <1>0, <2>1 DEF ControllerState
  <1>5. ASSUME NEW t \in Token, DispatchCommits(c, t)
        PROVE  /\ ctl'[c].at = "dispatched" /\ ctl'[c].job = r.job /\ r.job \in Job
               /\ dispatch'[r.job] # None
    <2>1. ctl'[c] = [r EXCEPT !.at = "dispatched"] /\ r.job \in Job
      BY <1>0, <1>5 DEF DispatchCommits, At, Goto
    <2>2. dispatch'[r.job] = t
      BY <1>5, <2>1 DEF DispatchCommits, TypeOK
    <2> QED
      BY <1>0, <2>1, <2>2, ExecutionAssumption DEF ControllerState
  <1>6. CASE MakeWorkspace(c)
    <2> DEFINE t == dispatch[r.job]
    <2>1. ctl'[c] = [r EXCEPT !.at = "copying", !.token = t] /\ r.at = "dispatched"
      BY <1>0, <1>6 DEF MakeWorkspace, At
    <2>2. t \in Token /\ workspace'[t] = "partial"
      BY <1>0, <1>6, <2>1 DEF MakeWorkspace, TypeOK
    <2> HIDE DEF t
    <2> QED
      BY <1>0, <2>1, <2>2 DEF ControllerState
  <1>7. CASE CopyInputs(c)
    <2>1. ctl'[c] = [r EXCEPT !.at = "spawning"] /\ r.at = "copying"
      BY <1>0, <1>7 DEF CopyInputs, At, Goto
    <2> QED
      BY <1>0, <2>1 DEF ControllerState
  <1>8. ASSUME NEW w \in Worker, Spawn(c, w)
        PROVE  ctl'[c].at = "waiting" /\ ctl'[c].child \in Worker /\ ctl'[c].job \in Job
    <2>1. ctl'[c] = [r EXCEPT !.at = "waiting", !.child = w] /\ r.at = "spawning"
      BY <1>0, <1>8 DEF Spawn, At
    <2> QED
      BY <1>0, <2>1 DEF ControllerState
  <1>9. CASE WorkerReturned(c)
    <2>1. ctl'[c] = [r EXCEPT !.at = "reconcile"] /\ r.at = "waiting"
      BY <1>0, <1>9 DEF WorkerReturned, At, Goto
    <2> QED
      BY <1>0, <2>1 DEF ControllerState
  <1>10. CASE Import(c)
    <2> DEFINE t == dispatch[r.job]
    <2>1. ctl'[c] = [r EXCEPT !.at = "imported", !.token = t, !.verdict = completion[t]]
          /\ r.at = "reconcile"
      BY <1>0, <1>10 DEF Import, At
    <2>2. /\ t \in Token /\ completion[t] \in Known
          /\ completion'[t] = completion[t]
      BY <1>0, <1>10, <2>1 DEF Import, NothingToReconcile, TypeOK, files
    <2> HIDE DEF t
    <2> QED
      BY <1>0, <2>1, <2>2 DEF ControllerState
  <1>11. CASE PrepareFinalize(c)
    <2>1. ctl'[c] = [r EXCEPT !.at = "finalizing", !.expected = revision] /\ r.at = "imported"
      BY <1>0, <1>11 DEF PrepareFinalize, At
    <2> QED
      BY <1>0, <2>1 DEF ControllerState
  <1>12. \/ ctl'[c] = r
         \/ ctl'[c] = Idle
         \/ \E j \in Job : Decide(c, j)
         \/ PrepareDispatch(c)
         \/ \E t \in Token : DispatchCommits(c, t)
         \/ MakeWorkspace(c)
         \/ CopyInputs(c)
         \/ \E w \in Worker : Spawn(c, w)
         \/ WorkerReturned(c)
         \/ Import(c)
         \/ PrepareFinalize(c)
    <2>1. ASSUME NEW d \in Controller, d # c,
                 ControllerStep(d) \/ ControllerCrash(d) \/ \E j \in Job : Decide(d, j)
          PROVE  ctl'[c] = r
      BY <1>0, <2>1
         DEF ControllerStep, ControllerCrash, Decide, PrepareDispatch, DispatchCommits,
             DispatchRefused, MakeWorkspace, CopyInputs, Spawn, WorkerReturned, Goto,
             ReconcileNothing, Import, PrepareFinalize, FinalizeCommits, FinalizeRefused
    <2>2. CASE \/ ControllerCrash(c) \/ DispatchRefused(c) \/ ReconcileNothing(c)
               \/ FinalizeCommits(c) \/ FinalizeRefused(c)
      BY <1>0, <2>2 DEF ControllerCrash, DispatchRefused, ReconcileNothing, FinalizeCommits,
                        FinalizeRefused
    <2> QED
      BY <2>1, <2>2, ControllerSteps DEF ControllerStep
  <1> QED
    BY <1>1, <1>2, <1>3, <1>4, <1>5, <1>6, <1>7, <1>8, <1>9, <1>10, <1>11, <1>12

LEMMA StepLock ==
    ASSUME IInv, [Next]_vars
    PROVE  LockHeldOnce'
  <1> USE DEF IInv
  <1>1. CASE \A v \in Worker : Holds(v)' => Holds(v) /\ worker'[v].token = worker[v].token
    BY <1>1 DEF LockHeldOnce
  <1>2. ASSUME NEW w \in Worker, TakeLock(w)
        PROVE  LockHeldOnce'
    <2>1. \A v \in Worker : v # w => worker'[v] = worker[v]
      BY <1>2 DEF TakeLock, Step, TypeOK
    <2>2. worker'[w].token = worker[w].token /\ worker[w].token \notin launchLock
      BY <1>2 DEF TakeLock, Step, TypeOK, WorkerState
    <2>3. \A v \in Worker : Holds(v) => worker[v].token # worker[w].token
      BY <2>2 DEF WorkerKnows
    <2> QED
      BY <2>1, <2>2, <2>3 DEF LockHeldOnce, Holds
  <1>3. ASSUME NEW w \in Worker, NEW t \in Token, StartWorker(w, t)
        PROVE  \A v \in Worker : Holds(v)' => Holds(v) /\ worker'[v].token = worker[v].token
    BY <1>3 DEF StartWorker, Holds, TypeOK
  <1>4. ASSUME NEW w \in Worker, NEW v \in Worker, Holds(v)',
               \/ GiveUp(w) \/ StartPayload(w) \/ WriteCompletion(w) \/ WorkerCrash(w)
               \/ PreflightFails(w) \/ StopConfirmed(w) \/ StopUnconfirmed(w)
        PROVE  Holds(v) /\ worker'[v].token = worker[v].token
    <2>1. CASE v # w
      <3>1. worker'[v] = worker[v]
        BY <1>4, <2>1 DEF GiveUp, StartPayload, WriteCompletion, WorkerCrash, Step, TypeOK,
                          PreflightFails, StopConfirmed, StopUnconfirmed
      <3> QED
        BY <1>4, <3>1 DEF Holds
    <2>2. CASE v = w
      <3>1. CASE GiveUp(w) \/ WriteCompletion(w) \/ WorkerCrash(w)
        <4>1. worker'[v].at = "gone"
          BY <2>2, <3>1 DEF GiveUp, WriteCompletion, WorkerCrash, Step, TypeOK, WorkerState
        <4> QED
          BY <1>4, <4>1 DEF Holds
      <3>2. CASE StartPayload(w)
        BY <2>2, <3>2 DEF StartPayload, Step, Holds, TypeOK, WorkerState
      <3>3. CASE PreflightFails(w) \/ StopConfirmed(w) \/ StopUnconfirmed(w)
        <4>1. \E verdict : worker' = [worker EXCEPT ![w] = [@ EXCEPT !.at = "stopped",
                                                                    !.verdict = verdict]]
          <5>1. CASE PreflightFails(w)
            BY <5>1 DEF PreflightFails
          <5>2. CASE StopUnconfirmed(w)
            BY <5>2 DEF StopUnconfirmed
          <5>3. CASE StopConfirmed(w)
            BY <5>3 DEF StopConfirmed
          <5> QED
            BY <3>3, <5>1, <5>2, <5>3
        <4>2. worker[w].at \in {"locked", "running"}
          BY <3>3 DEF PreflightFails, StopConfirmed, StopUnconfirmed
        <4> QED
          BY <2>2, <4>1, <4>2 DEF Holds, TypeOK, WorkerState
      <3> QED
        BY <1>4, <3>1, <3>2, <3>3
    <2> QED
      BY <2>1, <2>2
  <1>6. ASSUME NEW c \in Controller, NEW w \in Worker, Spawn(c, w)
        PROVE  ctl[c].token \in Token /\ StartWorker(w, ctl[c].token)
    BY <1>6 DEF Spawn, At, ControllerKnows
  <1>7. CASE UNCHANGED worker
    BY <1>7 DEF LockHeldOnce, Holds
  <1> QED
    BY <1>1, <1>2, <1>3, <1>4, <1>6, <1>7, WorkerSteps
       DEF Redeliver, PayloadExits, LingererExits

\* A worker that takes no step still has what it relies on.
LEMMA StepOtherWorker ==
    ASSUME IInv, [Next]_vars, NEW w \in Worker, worker'[w] = worker[w]
    PROVE  /\ worker'[w].at # "idle" =>
                worker'[w].token \in Token /\ workspace'[worker'[w].token] # "absent"
           /\ Holds(w)' =>
                worker'[w].token \in launchLock' /\ completion'[worker'[w].token] = None
           /\ worker'[w].at = "locked" => starts'[worker'[w].token] = 0
           /\ worker'[w].at = "running" => starts'[worker'[w].token] = 1
           /\ worker'[w].at = "stopped" =>
                /\ worker'[w].verdict \in Known => worker'[w].token \notin alive'
                /\ worker'[w].verdict = "valid" => starts'[worker'[w].token] = 1
  <1> USE DEF IInv
  <1> DEFINE t == worker[w].token
  <1>0. /\ worker[w].at # "idle" => t \in Token /\ workspace'[t] # "absent"
        /\ Holds(w) => t \in launchLock' /\ completion[t] = None
        /\ worker[w].at = "locked" => starts[t] = 0
        /\ worker[w].at = "running" => starts[t] = 1
        /\ worker[w].at = "stopped" =>
             /\ worker[w].verdict \in Known => t \notin alive
             /\ worker[w].verdict = "valid" => starts[t] = 1
    BY FilesGrow DEF WorkerKnows, Holds
  <1>1. ASSUME Holds(w) PROVE completion'[t] = None
    <2>1. ASSUME NEW v \in Worker, WriteCompletion(v)
          PROVE  completion'[t] = None
      <3>1. v # w /\ Holds(v)
        BY <2>1 DEF WriteCompletion, Step, Holds, TypeOK, WorkerState
      <3>2. worker[v].token # t
        BY <1>1, <3>1 DEF LockHeldOnce
      <3> QED
        BY <1>0, <1>1, <2>1, <3>2 DEF WriteCompletion, TypeOK
    <2>2. UNCHANGED completion \/ \E v \in Worker : WriteCompletion(v)
      BY FileSteps DEF files, MakeWorkspace, CopyInputs, TakeLock
    <2> QED
      BY <1>0, <1>1, <2>1, <2>2
  <1>2. ASSUME Holds(w)
        PROVE  starts'[t] = starts[t] /\ (t \in alive' => t \in alive)
    <2>1. ASSUME NEW v \in Worker, StartPayload(v)
          PROVE  starts'[t] = starts[t] /\ (t \in alive' => t \in alive)
      <3>1. v # w /\ Holds(v)
        BY <2>1 DEF StartPayload, Step, Holds, TypeOK, WorkerState
      <3>2. worker[v].token # t
        BY <1>2, <3>1 DEF LockHeldOnce
      <3> QED
        BY <1>0, <1>2, <2>1, <3>2 DEF StartPayload, TypeOK
    <2>2. \/ UNCHANGED starts /\ alive' \subseteq alive
          \/ \E v \in Worker : StartPayload(v)
      BY WorkerSteps DEF payload, Spawn, Redeliver, TakeLock, GiveUp, PreflightFails,
         StopConfirmed, StopUnconfirmed, WriteCompletion, WorkerCrash, PayloadExits,
         LingererExits
    <2> QED
      BY <2>1, <2>2
  <1> HIDE DEF t
  <1>3. worker'[w].token = t
    BY DEF t
  <1> QED
    BY <1>0, <1>1, <1>2, <1>3 DEF Holds

LEMMA StepWorker ==
    ASSUME IInv, [Next]_vars
    PROVE  WorkerKnows'
  <1> USE DEF IInv
  <1> SUFFICES ASSUME NEW w \in Worker
               PROVE  /\ worker'[w].at # "idle" =>
                           /\ worker'[w].token \in Token
                           /\ workspace'[worker'[w].token] # "absent"
                      /\ Holds(w)' =>
                           /\ worker'[w].token \in launchLock'
                           /\ completion'[worker'[w].token] = None
                      /\ worker'[w].at = "locked" => starts'[worker'[w].token] = 0
                      /\ worker'[w].at = "running" => starts'[worker'[w].token] = 1
                      /\ worker'[w].at = "stopped" =>
                           /\ worker'[w].verdict \in Known => worker'[w].token \notin alive'
                           /\ worker'[w].verdict = "valid" => starts'[worker'[w].token] = 1
    BY DEF WorkerKnows
  <1> DEFINE t == worker[w].token
  <1>0. /\ worker[w] \in WorkerState /\ worker \in [Worker -> WorkerState]
        /\ worker[w].at # "idle" => t \in Token /\ workspace'[t] # "absent"
        /\ Holds(w) => t \in launchLock' /\ completion[t] = None
        /\ worker[w].at = "locked" => starts[t] = 0
        /\ worker[w].at = "running" => starts[t] = 1
    BY FilesGrow DEF WorkerKnows, Holds, TypeOK
  <1>1. CASE worker'[w] = worker[w]
    BY <1>1, StepOtherWorker
  <1>2. ASSUME NEW u \in Token, StartWorker(w, u), workspace[u] # "absent", UNCHANGED files
        PROVE  /\ worker'[w].at = "started"
               /\ worker'[w].token \in Token /\ workspace'[worker'[w].token] # "absent"
    BY <1>0, <1>2 DEF StartWorker, files
  <1>3. CASE GiveUp(w) \/ WorkerCrash(w) \/ WriteCompletion(w)
    <2>1. worker'[w] = [worker[w] EXCEPT !.at = "gone"] /\ worker[w].at # "idle"
      BY <1>0, <1>3 DEF GiveUp, WorkerCrash, WriteCompletion, Step
    <2> QED
      BY <1>0, <2>1 DEF WorkerState, Holds
  <1>4. CASE TakeLock(w)
    <2>1. /\ worker'[w] = [worker[w] EXCEPT !.at = "locked"] /\ worker[w].at # "idle"
          /\ t \notin launchLock /\ t \in launchLock'
          /\ UNCHANGED <<completion, payload>>
      BY <1>0, <1>4 DEF TakeLock, Step
    <2>2. worker'[w].at = "locked" /\ worker'[w].token = t
      BY <1>0, <2>1 DEF WorkerState
    <2>3. completion'[t] = None /\ starts'[t] = 0
      BY <1>0, <2>1 DEF TokenHistory, TypeOK, payload
    <2> HIDE DEF t
    <2> QED
      BY <1>0, <2>1, <2>2, <2>3
  <1>5. CASE StartPayload(w)
    <2>1. /\ worker'[w] = [worker[w] EXCEPT !.at = "running"] /\ worker[w].at = "locked"
          /\ starts' = [starts EXCEPT ![t] = @ + 1]
          /\ UNCHANGED files
      BY <1>0, <1>5 DEF StartPayload, Step
    <2>2. worker'[w].at = "running" /\ worker'[w].token = t
      BY <1>0, <2>1 DEF WorkerState
    <2>3. completion'[t] = None /\ starts'[t] = 1
      BY <1>0, <2>1 DEF Holds, TypeOK, files
    <2> HIDE DEF t
    <2> QED
      BY <1>0, <2>1, <2>2, <2>3 DEF Holds
  <1>6. ASSUME NEW verdict \in Verdict,
               worker' = [worker EXCEPT ![w] = [@ EXCEPT !.at = "stopped", !.verdict = verdict]],
               Holds(w), UNCHANGED <<files, starts>>,
               verdict \in Known => t \notin alive',
               verdict = "valid" => starts[t] = 1
        PROVE  /\ worker'[w].at = "stopped" /\ worker'[w].token = t /\ t \in Token
               /\ workspace'[t] # "absent" /\ t \in launchLock' /\ completion'[t] = None
               /\ worker'[w].verdict \in Known => t \notin alive'
               /\ worker'[w].verdict = "valid" => starts'[t] = 1
    <2>1. worker'[w] = [worker[w] EXCEPT !.at = "stopped", !.verdict = verdict]
      BY <1>0, <1>6
    <2>2. /\ worker'[w].at = "stopped" /\ worker'[w].token = t
          /\ worker'[w].verdict = verdict
      BY <1>0, <2>1 DEF WorkerState
    <2> HIDE DEF t
    <2> QED
      BY <1>0, <1>6, <2>2 DEF Holds, files
  <1>7. ASSUME PreflightFails(w)
        PROVE  Holds(w) /\ t \notin alive
    BY <1>0, <1>7 DEF PreflightFails, Holds, TokenHistory, TypeOK
  <1>8. ASSUME StopConfirmed(w)
        PROVE  /\ Holds(w) /\ starts[t] = 1 /\ alive' = alive \ {t}
               /\ UNCHANGED <<files, starts>>
               /\ \E verdict \in Verdict :
                    worker' = [worker EXCEPT ![w] = [@ EXCEPT !.at = "stopped",
                                                             !.verdict = verdict]]
    BY <1>0, <1>8 DEF StopConfirmed, Holds, Observed, Verdict, Known
  <1>9. CASE PreflightFails(w) \/ StopConfirmed(w) \/ StopUnconfirmed(w)
    <2> HIDE DEF t
    <2>1. CASE PreflightFails(w)
      BY <1>6, <1>7, <2>1 DEF PreflightFails, Verdict, Known, payload
    <2>2. CASE StopConfirmed(w)
      BY <1>6, <1>8, <2>2
    <2>3. CASE StopUnconfirmed(w)
      BY <1>6, <2>3 DEF StopUnconfirmed, Holds, Verdict, Known, payload
    <2> QED
      BY <1>9, <2>1, <2>2, <2>3
  <1>10. \/ worker'[w] = worker[w]
         \/ \E u \in Token : StartWorker(w, u) /\ workspace[u] # "absent" /\ UNCHANGED files
         \/ GiveUp(w) \/ WorkerCrash(w) \/ WriteCompletion(w)
         \/ TakeLock(w)
         \/ StartPayload(w)
         \/ PreflightFails(w) \/ StopConfirmed(w) \/ StopUnconfirmed(w)
    <2>1. ASSUME NEW v \in Worker, v # w,
                 \/ TakeLock(v) \/ GiveUp(v) \/ PreflightFails(v)
                 \/ StartPayload(v) \/ StopConfirmed(v) \/ StopUnconfirmed(v)
                 \/ WriteCompletion(v) \/ WorkerCrash(v)
                 \/ \E u : StartWorker(v, u)
          PROVE  worker'[w] = worker[w]
      BY <1>0, <2>1 DEF TakeLock, GiveUp, PreflightFails, StartPayload, StopConfirmed,
         StopUnconfirmed, WriteCompletion, WorkerCrash, StartWorker, Step
    <2>2. ASSUME NEW c \in Controller, NEW v \in Worker, Spawn(c, v)
          PROVE  \E u \in Token : /\ StartWorker(v, u) /\ workspace[u] # "absent"
                                  /\ UNCHANGED files
      BY <2>2 DEF Spawn, At, ControllerKnows
    <2>3. ASSUME NEW v \in Worker, NEW u \in Token, Redeliver(v, u)
          PROVE  StartWorker(v, u) /\ workspace[u] # "absent" /\ UNCHANGED files
      BY <2>3 DEF Redeliver
    <2> QED
      BY <2>1, <2>2, <2>3, WorkerSteps DEF PayloadExits, LingererExits
  <1> QED
    BY <1>1, <1>2, <1>3, <1>4, <1>5, <1>9, <1>10 DEF Holds

LEMMA StepEvidence ==
    ASSUME IInv, [Next]_vars
    PROVE  ManifestsTrue' /\ ResultIsOwnEvidence'
  <1> USE DEF IInv
  <1>0. \A t \in Token : completion[t] \in Known => completion'[t] = completion[t]
    BY FilesGrow, ExecutionAssumption DEF Known
  <1>1. ManifestsTrue'
    <2>1. ASSUME NEW c \in Controller, Import(c)
          PROVE  ManifestsTrue'
      <3> DEFINE t == dispatch[ctl[c].job]
      <3>1. t \in Token /\ completion[t] \in Known
        BY <2>1 DEF Import, NothingToReconcile, At, TypeOK, ControllerKnows
      <3>2. cas' = cas \cup {[token |-> t, verdict |-> completion[t]]}
        BY <2>1 DEF Import
      <3> HIDE DEF t
      <3> QED
        BY <1>0, <3>1, <3>2 DEF ManifestsTrue, TypeOK, Manifest
    <2>2. CASE UNCHANGED cas
      BY <1>0, <2>2 DEF ManifestsTrue, TypeOK, Manifest
    <2>3. UNCHANGED cas \/ \E c \in Controller : Import(c)
      BY ControllerSteps
         DEF ControllerStep, ControllerCrash, Decide, PrepareDispatch, DispatchCommits,
             DispatchRefused, MakeWorkspace, CopyInputs, Spawn, WorkerReturned,
             ReconcileNothing, PrepareFinalize, FinalizeCommits, FinalizeRefused
    <2> QED
      BY <2>1, <2>2, <2>3
  <1>2. ResultIsOwnEvidence'
    <2>0. \A j \in Job : dispatch[j] # None =>
            dispatch[j] \in Token /\ dispatch'[j] = dispatch[j]
      BY LogGrows DEF TypeOK
    <2>1. CASE UNCHANGED result
      BY <1>0, <2>0, <2>1 DEF ResultIsOwnEvidence
    <2>2. ASSUME NEW j \in Job, NEW m, m \in cas \/ m.verdict = completion[m.token],
                 RecordResult(j, m)
          PROVE  ResultIsOwnEvidence'
      <3>1. /\ dispatch[j] # None /\ m.token = dispatch[j] /\ m.verdict \in Known
            /\ result' = [result EXCEPT ![j] = TerminalStatus(m.verdict)]
        BY <2>2 DEF RecordResult, MayFinalize
      <3>2. m.verdict = completion[dispatch[j]]
        BY <2>2, <3>1 DEF ManifestsTrue
      <3>3. /\ result'[j] = TerminalStatus(completion[dispatch[j]])
            /\ \A i \in Job : i # j => result'[i] = result[i]
        BY <3>1, <3>2 DEF TypeOK
      <3> QED
        BY <1>0, <2>0, <3>1, <3>2, <3>3 DEF ResultIsOwnEvidence
    <2>3. ASSUME NEW c \in Controller, FinalizeCommits(c)
          PROVE  ResultIsOwnEvidence'
      <3>1. /\ ctl[c].job \in Job
            /\ Imported(c).verdict = completion[Imported(c).token]
            /\ RecordResult(ctl[c].job, Imported(c))
        BY <2>3 DEF FinalizeCommits, At, Imported, ControllerKnows
      <3> QED
        BY <2>2, <3>1
    <2> QED
      BY <2>1, <2>2, <2>3, LogSteps DEF events, Enqueue, DispatchCommits, FinalizeByHand
  <1> QED
    BY <1>1, <1>2

\* The authority to run research code and the evidence of a result pass from
\* the event log to files and processes and back without being duplicated.
THEOREM ExecutionInvariant == Spec => []IInv
  <1>1. IInv /\ [Next]_vars => IInv'
    BY NextTyped, StepDispatches, StepHistory, StepController, StepLock, StepWorker,
       StepEvidence
       DEF IInv
  <1> QED
    BY InitIInv, <1>1, PTL DEF Spec

\* Log, files, processes and controllers keep their types.
THEOREM ExecutionTyped == Spec => []TypeOK
  BY ExecutionInvariant, PTL DEF IInv

\* Research code runs at most once per job and only in the workspace that the
\* committed dispatch names, for any number of controllers that race for the
\* dispatch and of workers that are delivered again (work_job, launch.lock).
THEOREM StartsOnce == Spec => []OneAuthorizedStart
  <1>1. IInv => OneAuthorizedStart
    BY DEF IInv, TokenHistory, OneAuthorizedStart
  <1> QED
    BY <1>1, ExecutionInvariant, PTL

\* A terminal result says what the worker of the job's own dispatch recorded,
\* whichever controller imported it and whoever sent the finalization
\* (_check_completion, _import_completion).
THEOREM EvidenceIsOwn == Spec => []ResultIsOwnEvidence
  BY ExecutionInvariant, PTL DEF IInv

\* No process of a payload still runs when its run is terminal evidence: an
\* unconfirmed stop leaves the job unknown (runner_backend.execute).
THEOREM TerminalIsStopped == Spec => []TerminalMeansStopped
  <1>1. IInv => TerminalMeansStopped
    BY ExecutionAssumption
       DEF IInv, TypeOK, TokenHistory, ResultIsOwnEvidence, TerminalMeansStopped
  <1> QED
    BY <1>1, ExecutionInvariant, PTL

-----------------------------------------------------------------------------
\* The lifecycle of a job.

\* The start count of a job is that of the token of its dispatch.
LEMMA StepOfLifecycle ==
    ASSUME IInv, [Next]_vars
    PROVE  [Lifecycle!Next]_(Lifecycle!vars)
  <1> USE DEF IInv
  <1> DEFINE status == [j \in Job |-> JobStatus(j)]
             started == [j \in Job |-> Starts(j)]
  <1>1. CASE UNCHANGED <<queued, dispatch, result, starts>>
    <2>1. UNCHANGED <<status, started>>
      BY <1>1 DEF JobStatus, Starts
    <2> QED
      BY <2>1 DEF Lifecycle!vars
  <1>2. ASSUME NEW j \in Job, Enqueue(j) PROVE Lifecycle!Next
    <2>1. dispatch[j] = None /\ j \notin queued
      BY <1>2 DEF Enqueue, DispatchesDistinct
    <2>2. status[j] = "absent" /\ status' = [status EXCEPT ![j] = "queued"]
      BY <1>2, <2>1 DEF Enqueue, JobStatus
    <2>3. UNCHANGED started
      BY <1>2 DEF Enqueue, Starts, payload
    <2> QED
      BY <2>2, <2>3 DEF Lifecycle!Next, Lifecycle!Enqueue, Lifecycle!Move
  <1>3. ASSUME NEW c \in Controller, NEW t \in Token, DispatchCommits(c, t)
        PROVE  Lifecycle!Next
    <2> DEFINE j == ctl[c].job
    <2>1. /\ j \in Job /\ j \in queued /\ dispatch[j] = None /\ result[j] = None
          /\ t \notin Used
          /\ dispatch' = [dispatch EXCEPT ![j] = t]
          /\ UNCHANGED <<queued, result, starts>>
      BY <1>3 DEF DispatchCommits, MayDispatch, At, ControllerKnows, payload,
                  ResultIsOwnEvidence
    <2>2. starts[t] = 0
      BY <2>1 DEF TokenHistory, TypeOK
    <2> HIDE DEF j
    <2>3. status[j] = "queued" /\ status' = [status EXCEPT ![j] = "unknown"]
      BY <2>1, ExecutionAssumption DEF JobStatus, TypeOK
    <2>4. UNCHANGED started
      BY <2>1, <2>2, ExecutionAssumption DEF Starts, TypeOK
    <2> QED
      BY <2>1, <2>3, <2>4 DEF Lifecycle!Next, Lifecycle!Dispatch, Lifecycle!Move
  <1>4. ASSUME NEW j \in Job, NEW m, m \in cas \/ m.verdict = completion[m.token],
               RecordResult(j, m), UNCHANGED starts
        PROVE  Lifecycle!Next
    <2> DEFINE verdict == TerminalStatus(m.verdict)
    <2>1. /\ dispatch[j] # None /\ result[j] = None /\ m.token = dispatch[j]
          /\ m.verdict \in Known /\ m.verdict = completion[dispatch[j]]
          /\ result' = [result EXCEPT ![j] = verdict]
          /\ UNCHANGED <<queued, dispatch>>
      BY <1>4 DEF RecordResult, MayFinalize, ManifestsTrue
    <2>2. verdict \in {"completed", "failed"} /\ verdict # None
      BY ExecutionAssumption DEF TerminalStatus
    <2>3. verdict = "completed" => Starts(j) = 1
      BY <2>1 DEF TerminalStatus, Starts, TokenHistory, TypeOK
    <2> HIDE DEF verdict
    <2>4. status[j] = "unknown" /\ status' = [status EXCEPT ![j] = verdict]
      BY <2>1, <2>2 DEF JobStatus, DispatchesDistinct, TypeOK
    <2>5. UNCHANGED started
      BY <1>4, <2>1 DEF Starts
    <2> QED
      BY <2>2, <2>3, <2>4, <2>5
         DEF Lifecycle!Next, Lifecycle!Finish, Lifecycle!Move, Lifecycle!Terminal
  <1>5. ASSUME NEW c \in Controller, FinalizeCommits(c)
        PROVE  Lifecycle!Next
    <2>1. /\ ctl[c].job \in Job
          /\ Imported(c).verdict = completion[Imported(c).token]
          /\ RecordResult(ctl[c].job, Imported(c))
          /\ UNCHANGED starts
      BY <1>5 DEF FinalizeCommits, At, Imported, ControllerKnows, payload
    <2> QED
      BY <1>4, <2>1
  <1>6. ASSUME NEW w \in Worker, StartPayload(w)
        PROVE  Lifecycle!Next
    <2> DEFINE t == worker[w].token
    <2>1. /\ worker[w].at = "locked"
          /\ starts' = [starts EXCEPT ![t] = @ + 1]
          /\ UNCHANGED <<queued, dispatch, result>>
      BY <1>6 DEF StartPayload, Step, events
    <2>2. /\ t \in Token /\ starts[t] = 0 /\ completion[t] = None /\ t \in Used
      BY <2>1 DEF WorkerKnows, Holds, TokenHistory
    <2>3. PICK j \in Job : dispatch[j] = t /\ dispatch[j] # None
      BY <2>2 DEF Used
    <2> HIDE DEF t
    <2>4. \A i \in Job : dispatch[i] = t => i = j
      BY <2>3 DEF DispatchesDistinct
    <2>5. result[j] = None
      BY <2>2, <2>3, ExecutionAssumption DEF ResultIsOwnEvidence, Known
    <2>6. UNCHANGED status /\ status[j] = "unknown"
      BY <2>1, <2>3, <2>5 DEF JobStatus, DispatchesDistinct
    <2>7. started[j] = 0 /\ started' = [started EXCEPT ![j] = 1]
      <3>1. /\ starts'[t] = 1
            /\ \A u \in Token : u # t => starts'[u] = starts[u]
        BY <2>1, <2>2 DEF TypeOK
      <3>2. Starts(j) = 0 /\ Starts(j)' = 1
        BY <2>1, <2>2, <2>3, <3>1 DEF Starts
      <3>3. \A i \in Job : i # j => Starts(i)' = Starts(i)
        BY <2>1, <2>4, <3>1 DEF Starts, TypeOK
      <3> QED
        BY <3>2, <3>3
    <2> QED
      BY <2>6, <2>7 DEF Lifecycle!Next, Lifecycle!Start
  <1>7. \/ UNCHANGED <<queued, dispatch, result>>
        \/ (\E j \in Job : Enqueue(j)) /\ UNCHANGED starts
        \/ \E c \in Controller, t \in Token : DispatchCommits(c, t)
        \/ \E j \in Job, m \in cas : RecordResult(j, m) /\ UNCHANGED starts
        \/ \E c \in Controller : FinalizeCommits(c)
    BY LogSteps DEF events, Enqueue, FinalizeByHand, payload
  <1>8. UNCHANGED starts \/ \E w \in Worker : StartPayload(w)
    BY WorkerSteps DEF payload, Spawn, Redeliver, TakeLock, GiveUp, PreflightFails,
       StopConfirmed, StopUnconfirmed, WriteCompletion, WorkerCrash, PayloadExits,
       LingererExits
  <1> QED
    BY <1>1, <1>2, <1>3, <1>4, <1>5, <1>6, <1>7, <1>8

\* Managed execution implements the lifecycle of its jobs: terminal is final,
\* unknown is never queued again, and a start happens once, between the
\* dispatch and the evidence.
THEOREM ExecutionFollowsLifecycle == Spec => FollowsLifecycle
  <1>1. Init => Lifecycle!Init
    BY DEF Init, Lifecycle!Init, JobStatus, Starts
  <1> QED
    BY <1>1, StepOfLifecycle, ExecutionInvariant, PTL
       DEF Spec, FollowsLifecycle, Lifecycle!Spec

=============================================================================
