---------------------------- MODULE LockedProofs ----------------------------
(***************************************************************************)
(* Locked.tla for every number of reproductions, controllers and workers:  *)
(* its safety invariants.  A directory, and with it the marker that keeps  *)
(* a second worker out, may vanish, so the argument cannot rest on the     *)
(* marker alone: the inductive invariant says that whoever may still make  *)
(* a directory for an attempt is the one controller that dispatched it,    *)
(* and that it does so before anything has been run.  From the recorded    *)
(* completion on, nothing can run for the attempt any more.                *)
(***************************************************************************)
EXTENDS Locked, TLAPS

\* A worker between its marker and its end.
PastMarker(w) == worker[w].at \in {"marked", "realized", "running", "stopped"}

\* A controller that may still bring about a complete directory for a.
Making(c, a) == ctl[c].attempt = a /\ ctl[c].at \in {"dispatched", "making"}

\* Nothing has been run for a and no worker is about to.
Untouched(a) ==
    /\ starts[a] = 0 /\ a \notin alive
    /\ dir[a].output = None /\ dir[a].completion = None /\ dir[a].lock = "none"
    /\ \A w \in Worker : worker[w].attempt = a => ~PastMarker(w)

\* Attempts begin with their dispatch; a reproduction with a finalized run.
DispatchFirst ==
    /\ \A a \in Attempt \ dispatched :
         Untouched(a) /\ dir[a].made = "absent" /\ final[a] = None
    /\ \A r \in Reproduction \cap dispatched : final[Original] # None

\* One controller makes the directory of an attempt, before anything is run.
MadeOnce ==
    \A c \in Controller, a \in Attempt : Making(c, a) =>
        /\ a \in dispatched /\ Untouched(a) /\ dir[a].made # "ready"
        /\ ctl[c].at = "dispatched" => dir[a].made = "absent"
        /\ \A d \in Controller : Making(d, a) => d = c

DirectoryHistory ==
    \A a \in Attempt :
        /\ dir[a].made = "absent" => dir[a] = NoDirectory
        /\ dir[a].made = "partial" => Untouched(a)
        /\ dir[a].made = "ready" /\ dir[a].lock = "none" => Untouched(a)
        /\ dir[a].output # None => starts[a] = 1
        /\ a \in alive => starts[a] = 1
        /\ starts[a] \in {0, 1}

ControllerKnows ==
    \A c \in Controller :
        /\ ctl[c].at # "idle" => ctl[c].attempt \in dispatched
        /\ ctl[c].at = "imported" => ctl[c].completion \in cas

\* One worker is past the marker of an attempt, and it alone starts the payload.
MarkedOnce ==
    \A v, w \in Worker :
        PastMarker(v) /\ PastMarker(w) /\ worker[v].attempt = worker[w].attempt => v = w

WorkerKnows ==
    \A w \in Worker :
        /\ worker[w].at # "idle" => worker[w].attempt \in dispatched
        /\ worker[w].at \in {"marked", "realized"} =>
             worker[w].status = "failed" /\ starts[worker[w].attempt] = 0
        /\ worker[w].at = "started" => worker[w].status = "failed"
        /\ worker[w].at = "running" => starts[worker[w].attempt] = 1
        /\ worker[w].at = "stopped" =>
             /\ worker[w].status # "unknown" => worker[w].attempt \notin alive
             /\ worker[w].status = "completed" => starts[worker[w].attempt] = 1

\* Nothing will be run for a any more, and m tells what was left of it.
LeftBy(a, m) ==
    /\ a \in dispatched /\ a \notin alive
    /\ \A w \in Worker : worker[w].attempt = a => ~PastMarker(w)
    /\ \A c \in Controller : ~Making(c, a)
    /\ dir[a].made # "partial"
    /\ dir[a].made = "ready" => dir[a].lock = "taken" /\ m.output = dir[a].output
    /\ m.status = "completed" =>
         starts[a] = 1 /\ dir[a].tree = "frozen" /\ dir[a].env # "changed"
    /\ m.output # None => starts[a] = 1

EvidenceTrue ==
    /\ \A m \in cas : m.status # "unknown" => LeftBy(m.attempt, m)
    /\ \A a \in Attempt : dir[a].completion # None =>
         /\ dir[a].completion.attempt = a
         /\ dir[a].completion.status # "unknown" => LeftBy(a, dir[a].completion)
    /\ \A a \in Attempt : final[a] # None => LeftBy(a, final[a])

IInv == /\ TypeOK /\ DispatchFirst /\ MadeOnce /\ DirectoryHistory /\ ControllerKnows
        /\ MarkedOnce /\ WorkerKnows /\ EvidenceTrue /\ MatchedWasRerun

-----------------------------------------------------------------------------

LEMMA InitIInv == Init => IInv
  <1> SUFFICES ASSUME Init PROVE IInv
    OBVIOUS
  <1> USE LockedAssumption
  <1>1. TypeOK
    <2>1. NoDirectory \in Directory /\ Idle \in ControllerState /\ Resting \in WorkerState
      BY DEF NoDirectory, Directory, Idle, ControllerState, Resting, WorkerState
    <2> QED
      BY <2>1 DEF Init, TypeOK
  <1>2. DispatchFirst /\ MadeOnce /\ DirectoryHistory
    BY DEF Init, DispatchFirst, MadeOnce, DirectoryHistory, Untouched, Making, NoDirectory,
           PastMarker, Idle, Resting
  <1>3. ControllerKnows /\ MarkedOnce /\ WorkerKnows
    BY DEF Init, ControllerKnows, MarkedOnce, WorkerKnows, PastMarker, Idle, Resting
  <1>4. EvidenceTrue /\ MatchedWasRerun
    BY DEF Init, EvidenceTrue, MatchedWasRerun, NoDirectory, Attempt
  <1> QED
    BY <1>1, <1>2, <1>3, <1>4 DEF IInv

\* Steps by what they change.

LEMMA EventSteps ==
    ASSUME [Next]_vars
    PROVE  \/ UNCHANGED events
           \/ \E c \in Controller, a \in Attempt : Dispatch(c, a)
           \/ \E c \in Controller : FinalizeImported(c)
           \/ \E a \in Attempt : FinalizeByHand(a)
  BY DEF Next, ControllerStep, WorkerStep, vars, MakeDirectory, Materialize, Spawn, Reconcile,
     Import, PutByHand, Cleanup, ControllerStops, Redeliver, TakeMarker, SetupFails, Realize,
     StartPayload, Payload, StopConfirmed, StopUnconfirmed, Record, WorkerEnds, Vanish

LEMMA CasSteps ==
    ASSUME [Next]_vars
    PROVE  \/ UNCHANGED cas
           \/ \E c \in Controller : Import(c)
           \/ \E a \in Attempt : PutByHand(a)
  BY DEF Next, ControllerStep, WorkerStep, vars, MakeDirectory, Materialize, Spawn, Reconcile,
     Dispatch, FinalizeImported, FinalizeByHand,
     Cleanup, ControllerStops, Redeliver, TakeMarker, SetupFails, Realize,
     StartPayload, Payload, StopConfirmed, StopUnconfirmed, Record, WorkerEnds, Vanish

LEMMA DirSteps ==
    ASSUME [Next]_vars
    PROVE  \/ UNCHANGED dir
           \/ \E c \in Controller : MakeDirectory(c) \/ Materialize(c) \/ Cleanup(c)
           \/ \E w \in Worker : TakeMarker(w) \/ Realize(w) \/ Record(w)
           \/ \E a \in Attempt : Payload(a) \/ Vanish(a)
  BY DEF Next, ControllerStep, WorkerStep, vars, Spawn, Reconcile, Dispatch, FinalizeImported,
     FinalizeByHand, Import, PutByHand, ControllerStops, Redeliver, SetupFails,
     StartPayload, StopConfirmed, StopUnconfirmed, WorkerEnds

LEMMA ControllerSteps ==
    ASSUME [Next]_vars
    PROVE  UNCHANGED ctl \/ \E c \in Controller : ControllerStep(c)
  BY DEF Next, WorkerStep, vars, FinalizeByHand, PutByHand, Redeliver, TakeMarker, SetupFails,
     Realize, StartPayload, Payload, StopConfirmed, StopUnconfirmed, Record, WorkerEnds, Vanish

LEMMA WorkerSteps ==
    ASSUME [Next]_vars
    PROVE  \/ UNCHANGED worker
           \/ \E c \in Controller : Spawn(c)
           \/ \E w \in Worker : WorkerStep(w)
  BY DEF Next, ControllerStep, vars, MakeDirectory, Materialize, Reconcile, Dispatch,
     FinalizeImported, FinalizeByHand, Import, PutByHand, Cleanup, ControllerStops,
     Payload, Vanish

LEMMA PayloadSteps ==
    ASSUME [Next]_vars
    PROVE  \/ UNCHANGED <<alive, starts>>
           \/ \E w \in Worker : StartPayload(w) \/ StopConfirmed(w)
  BY DEF Next, ControllerStep, WorkerStep, vars, MakeDirectory, Materialize, Spawn, Reconcile,
     Dispatch, FinalizeImported, FinalizeByHand, Import, PutByHand,
     Cleanup, ControllerStops, Redeliver, TakeMarker, SetupFails, Realize,
     Payload, StopUnconfirmed, Record, WorkerEnds, Vanish

-----------------------------------------------------------------------------
\* Types.

LEMMA EventsTyped ==
    ASSUME IInv, [Next]_vars
    PROVE  dispatched' \subseteq Attempt /\ final' \in [Attempt -> Final \cup {None}]
  <1> USE DEF IInv, TypeOK
  <1>1. ASSUME NEW a \in Attempt, NEW m \in Completion, Finalize(a, m)
        PROVE  dispatched' \subseteq Attempt /\ final' \in [Attempt -> Final \cup {None}]
    <2>1. m.status \in {"completed", "failed"} /\ m.output \in Value \cup {None}
      BY <1>1 DEF Finalize, MayFinalize, Completion
    <2>2. Assess(a, m) \in Final
      BY <2>1 DEF Assess, Verified, Final
    <2> QED
      BY <1>1, <2>2 DEF Finalize
  <1>2. ASSUME NEW c \in Controller, FinalizeImported(c)
        PROVE  \E a \in Attempt, m \in Completion : Finalize(a, m)
    BY <1>2 DEF FinalizeImported, ControllerKnows
  <1>3. ASSUME NEW c \in Controller, NEW a \in Attempt, Dispatch(c, a)
        PROVE  dispatched' \subseteq Attempt /\ UNCHANGED final
    BY <1>3 DEF Dispatch
  <1> QED
    BY <1>1, <1>2, <1>3, EventSteps DEF events, FinalizeByHand

LEMMA CasTyped ==
    ASSUME IInv, [Next]_vars
    PROVE  cas' \subseteq Completion
  <1> USE DEF IInv, TypeOK
  <1>1. ASSUME NEW c \in Controller, Import(c) PROVE cas' \subseteq Completion
    <2>1. ctl[c].attempt \in Attempt
      BY <1>1 DEF Import, ControllerKnows
    <2> QED
      BY <1>1, <2>1 DEF Import, Directory
  <1>2. ASSUME NEW a \in Attempt, PutByHand(a) PROVE cas' \subseteq Completion
    BY <1>2 DEF PutByHand, Directory
  <1> QED
    BY <1>1, <1>2, CasSteps

LEMMA DirTyped ==
    ASSUME IInv, [Next]_vars
    PROVE  dir' \in [Attempt -> Directory]
  <1> USE DEF IInv, TypeOK
  <1>0. dir \in [Attempt -> Directory]
    OBVIOUS
  <1>1. ASSUME NEW c \in Controller, MakeDirectory(c) \/ Materialize(c) \/ Cleanup(c)
        PROVE  dir' \in [Attempt -> Directory]
    <2>1. ctl[c].attempt \in Attempt
      BY <1>1 DEF MakeDirectory, Materialize, Cleanup, ControllerKnows
    <2>2. ASSUME NEW made \in {"partial", "ready"}
          PROVE  [dir[ctl[c].attempt] EXCEPT !.made = made] \in Directory
      BY <1>0, <2>1 DEF Directory
    <2>3. [dir[ctl[c].attempt] EXCEPT !.env = "none"] \in Directory
      BY <1>0, <2>1 DEF Directory
    <2>4. \E d \in Directory : dir' = [dir EXCEPT ![ctl[c].attempt] = d]
      <3>1. CASE MakeDirectory(c)
        BY <2>2, <3>1 DEF MakeDirectory
      <3>2. CASE Materialize(c)
        BY <2>2, <3>2 DEF Materialize
      <3>3. CASE Cleanup(c)
        BY <2>3, <3>3 DEF Cleanup
      <3> QED
        BY <1>1, <3>1, <3>2, <3>3
    <2> QED
      BY <1>0, <2>1, <2>4
  <1>2. ASSUME NEW w \in Worker, TakeMarker(w) \/ Realize(w)
        PROVE  dir' \in [Attempt -> Directory]
    <2>1. worker[w].attempt \in Attempt
      BY <1>2 DEF TakeMarker, Realize, Step, WorkerKnows
    <2>2. [dir[worker[w].attempt] EXCEPT !.lock = "taken"] \in Directory
      BY <1>0, <2>1 DEF Directory
    <2>3. [dir[worker[w].attempt] EXCEPT !.env = "locked"] \in Directory
      BY <1>0, <2>1 DEF Directory
    <2>4. \E d \in Directory : dir' = [dir EXCEPT ![worker[w].attempt] = d]
      BY <1>2, <2>2, <2>3 DEF TakeMarker, Realize
    <2> QED
      BY <1>0, <2>1, <2>4
  <1>3. ASSUME NEW w \in Worker, Record(w)
        PROVE  dir' \in [Attempt -> Directory]
    <2> DEFINE a == worker[w].attempt
               status == AsObserved(worker[w].status, dir[a])
               m == [attempt |-> a, status |-> status,
                     output |-> IF status = "unknown" THEN None ELSE dir[a].output]
    <2>1. a \in Attempt
      BY <1>3 DEF Record, Step, WorkerKnows
    <2>2. status \in {"completed", "failed", "unknown"} /\ dir[a].output \in Value \cup {None}
      BY <2>1 DEF AsObserved, WorkerState, Directory
    <2>3. m \in Completion
      BY <2>1, <2>2 DEF Completion
    <2>4. dir' = [dir EXCEPT ![a] = [@ EXCEPT !.completion = m]]
      BY <1>3 DEF Record
    <2> HIDE DEF a, m
    <2>5. [dir[a] EXCEPT !.completion = m] \in Directory
      BY <1>0, <2>1, <2>3 DEF Directory
    <2> QED
      BY <1>0, <2>1, <2>4, <2>5
  <1>4. ASSUME NEW a \in Attempt, Payload(a)
        PROVE  dir' \in [Attempt -> Directory]
    BY <1>0, <1>4 DEF Payload, Directory
  <1>5. ASSUME NEW a \in Attempt, Vanish(a)
        PROVE  dir' \in [Attempt -> Directory]
    BY <1>0, <1>5 DEF Vanish, NoDirectory, Directory
  <1> QED
    BY <1>0, <1>1, <1>2, <1>3, <1>4, <1>5, DirSteps

LEMMA ControllersTyped ==
    ASSUME IInv, [Next]_vars
    PROVE  ctl' \in [Controller -> ControllerState]
  <1> USE DEF IInv, TypeOK
  <1>0. ctl \in [Controller -> ControllerState]
    OBVIOUS
  <1>1. ASSUME NEW c \in Controller,
               NEW step \in {"making", "spawning", "waiting", "cleaning"}, Goto(c, step)
        PROVE  ctl' \in [Controller -> ControllerState]
    BY <1>0, <1>1 DEF Goto, ControllerState
  <1>2. ASSUME NEW c \in Controller, ctl' = [ctl EXCEPT ![c] = Idle]
        PROVE  ctl' \in [Controller -> ControllerState]
    BY <1>0, <1>2 DEF Idle, ControllerState
  <1>3. ASSUME NEW c \in Controller, NEW a \in Attempt, NEW step \in {"dispatched", "reconcile"},
               ctl' = [ctl EXCEPT ![c] = [Idle EXCEPT !.at = step, !.attempt = a]]
        PROVE  ctl' \in [Controller -> ControllerState]
    BY <1>0, <1>3 DEF Idle, ControllerState
  <1>4. ASSUME NEW c \in Controller, Import(c)
        PROVE  ctl' \in [Controller -> ControllerState]
    <2>1. dir[ctl[c].attempt].completion \in Completion
      BY <1>4 DEF Import, ControllerKnows, Directory
    <2> QED
      BY <1>0, <1>4, <2>1 DEF Import, ControllerState
  <1> QED
    BY <1>0, <1>1, <1>2, <1>3, <1>4, ControllerSteps
       DEF ControllerStep, Dispatch, Reconcile, MakeDirectory, Materialize, Spawn,
           FinalizeImported, Cleanup, ControllerStops

LEMMA WorkersTyped ==
    ASSUME IInv, [Next]_vars
    PROVE  worker' \in [Worker -> WorkerState]
  <1> USE DEF IInv, TypeOK
  <1>0. worker \in [Worker -> WorkerState]
    OBVIOUS
  <1>1. ASSUME NEW w \in Worker, NEW a \in Attempt, StartWorker(w, a)
        PROVE  worker' \in [Worker -> WorkerState]
    BY <1>0, <1>1 DEF StartWorker, WorkerState
  <1>2. ASSUME NEW w \in Worker,
               NEW step \in {"marked", "realized", "running", "stopped", "gone"},
               worker' = [worker EXCEPT ![w] = [@ EXCEPT !.at = step]]
        PROVE  worker' \in [Worker -> WorkerState]
    BY <1>0, <1>2 DEF WorkerState
  <1>3. ASSUME NEW w \in Worker, NEW status \in {"completed", "failed", "unknown"},
               worker' = [worker EXCEPT ![w] = [@ EXCEPT !.at = "stopped", !.status = status]]
        PROVE  worker' \in [Worker -> WorkerState]
    BY <1>0, <1>3 DEF WorkerState
  <1>4. ASSUME NEW c \in Controller, Spawn(c)
        PROVE  ctl[c].attempt \in Attempt
    BY <1>4 DEF Spawn, ControllerKnows
  <1>5. ASSUME NEW w \in Worker, WorkerStep(w)
        PROVE  worker' \in [Worker -> WorkerState]
    <2>1. CASE StopConfirmed(w) \/ StopUnconfirmed(w)
      BY <1>3, <2>1 DEF StopConfirmed, StopUnconfirmed
    <2>2. CASE ~(StopConfirmed(w) \/ StopUnconfirmed(w))
      BY <1>1, <1>2, <1>5, <2>2
         DEF WorkerStep, Redeliver, TakeMarker, SetupFails, Realize, StartPayload, Record,
             WorkerEnds, Step
    <2> QED
      BY <2>1, <2>2
  <1> QED
    BY <1>0, <1>1, <1>4, <1>5, WorkerSteps DEF Spawn

LEMMA PayloadTyped ==
    ASSUME IInv, [Next]_vars
    PROVE  alive' \subseteq Attempt /\ starts' \in [Attempt -> Nat]
  <1> USE DEF IInv, TypeOK
  <1>1. ASSUME NEW w \in Worker, StartPayload(w) \/ StopConfirmed(w)
        PROVE  alive' \subseteq Attempt /\ starts' \in [Attempt -> Nat]
    <2>1. worker[w].attempt \in Attempt
      BY <1>1 DEF StartPayload, StopConfirmed, Step, WorkerKnows
    <2> QED
      BY <1>1, <2>1 DEF StartPayload, StopConfirmed
  <1> QED
    BY <1>1, PayloadSteps

LEMMA NextTyped == IInv /\ [Next]_vars => TypeOK'
  BY EventsTyped, CasTyped, DirTyped, ControllersTyped, WorkersTyped, PayloadTyped
     DEF TypeOK

-----------------------------------------------------------------------------
\* One attempt at a time.

\* What a step may do to a directory, and who does it.
LEMMA DirCases ==
    ASSUME IInv, [Next]_vars, NEW a \in Attempt
    PROVE  \/ dir'[a] = dir[a]
           \/ \E c \in Controller :
                \/ /\ MakeDirectory(c) /\ ctl[c].attempt = a
                   /\ dir'[a] = [dir[a] EXCEPT !.made = "partial"]
                \/ /\ Materialize(c) /\ ctl[c].attempt = a
                   /\ dir'[a] = [dir[a] EXCEPT !.made = "ready"]
           \/ dir'[a] = [dir[a] EXCEPT !.env = "none"]
           \/ \E w \in Worker :
                \/ /\ TakeMarker(w) /\ worker[w].attempt = a
                   /\ dir'[a] = [dir[a] EXCEPT !.lock = "taken"]
                \/ /\ Realize(w) /\ worker[w].attempt = a
                   /\ dir'[a] = [dir[a] EXCEPT !.env = "locked"]
                \/ Record(w) /\ worker[w].attempt = a
           \/ Payload(a)
           \/ dir'[a] = NoDirectory
  <1> USE DEF IInv, TypeOK
  <1>1. ASSUME NEW c \in Controller, MakeDirectory(c)
        PROVE  \/ dir'[a] = dir[a]
               \/ ctl[c].attempt = a /\ dir'[a] = [dir[a] EXCEPT !.made = "partial"]
    BY <1>1 DEF MakeDirectory
  <1>2. ASSUME NEW c \in Controller, Materialize(c)
        PROVE  \/ dir'[a] = dir[a]
               \/ ctl[c].attempt = a /\ dir'[a] = [dir[a] EXCEPT !.made = "ready"]
    BY <1>2 DEF Materialize
  <1>3. ASSUME NEW c \in Controller, Cleanup(c)
        PROVE  dir'[a] = dir[a] \/ dir'[a] = [dir[a] EXCEPT !.env = "none"]
    BY <1>3 DEF Cleanup
  <1>4. ASSUME NEW w \in Worker, TakeMarker(w)
        PROVE  \/ dir'[a] = dir[a]
               \/ worker[w].attempt = a /\ dir'[a] = [dir[a] EXCEPT !.lock = "taken"]
    BY <1>4 DEF TakeMarker
  <1>5. ASSUME NEW w \in Worker, Realize(w)
        PROVE  \/ dir'[a] = dir[a]
               \/ worker[w].attempt = a /\ dir'[a] = [dir[a] EXCEPT !.env = "locked"]
    BY <1>5 DEF Realize
  <1>6. ASSUME NEW w \in Worker, Record(w)
        PROVE  dir'[a] = dir[a] \/ worker[w].attempt = a
    BY <1>6 DEF Record
  <1>7. ASSUME NEW b \in Attempt, Payload(b)
        PROVE  dir'[a] = dir[a] \/ b = a
    BY <1>7 DEF Payload
  <1>8. ASSUME NEW b \in Attempt, Vanish(b)
        PROVE  dir'[a] = dir[a] \/ dir'[a] = NoDirectory
    BY <1>8 DEF Vanish
  <1> QED
    BY <1>1, <1>2, <1>3, <1>4, <1>5, <1>6, <1>7, <1>8, DirSteps

\* A worker gets past the marker by taking it, and keeps its attempt.
LEMMA WorkerCases ==
    ASSUME IInv, [Next]_vars, NEW w \in Worker
    PROVE  \/ worker'[w] = worker[w]
           \/ \E a \in dispatched :
                worker'[w] = [at |-> "started", attempt |-> a, status |-> "failed"]
           \/ TakeMarker(w) /\ worker'[w] = [worker[w] EXCEPT !.at = "marked"]
           \/ SetupFails(w) /\ worker'[w] = [worker[w] EXCEPT !.at = "stopped"]
           \/ Realize(w) /\ worker'[w] = [worker[w] EXCEPT !.at = "realized"]
           \/ StartPayload(w) /\ worker'[w] = [worker[w] EXCEPT !.at = "running"]
           \/ /\ StopConfirmed(w)
              /\ \E status \in {"completed", "failed"} :
                   worker'[w] = [worker[w] EXCEPT !.at = "stopped", !.status = status]
           \/ /\ StopUnconfirmed(w)
              /\ worker'[w] = [worker[w] EXCEPT !.at = "stopped", !.status = "unknown"]
           \/ worker[w].at # "idle" /\ worker'[w] = [worker[w] EXCEPT !.at = "gone"]
  <1> USE DEF IInv, TypeOK
  <1>0. worker \in [Worker -> WorkerState]
    OBVIOUS
  <1>1. ASSUME NEW v \in Worker, v # w,
               WorkerStep(v) \/ \E a \in Attempt : StartWorker(v, a)
        PROVE  worker'[w] = worker[w]
    BY <1>0, <1>1 DEF WorkerStep, Redeliver, TakeMarker, SetupFails, Realize, StartPayload,
       StopConfirmed, StopUnconfirmed, Record, WorkerEnds, Step, StartWorker
  <1>2. ASSUME NEW a \in Attempt, StartWorker(w, a)
        PROVE  worker'[w] = [at |-> "started", attempt |-> a, status |-> "failed"]
    BY <1>0, <1>2 DEF StartWorker
  <1>3. ASSUME NEW c \in Controller, Spawn(c)
        PROVE  \E v \in Worker : StartWorker(v, ctl[c].attempt) /\ ctl[c].attempt \in dispatched
    BY <1>3 DEF Spawn, ControllerKnows
  <1>4. ASSUME NEW v \in Worker, NEW a \in Attempt, Redeliver(v, a)
        PROVE  StartWorker(v, a) /\ a \in dispatched
    BY <1>4 DEF Redeliver, DispatchFirst
  <1>5. ASSUME NEW step \in {"marked", "realized", "running", "stopped", "gone"},
               NEW from, Step(w, from, step)
        PROVE  worker'[w] = [worker[w] EXCEPT !.at = step]
    BY <1>0, <1>5 DEF Step
  <1>6. ASSUME WorkerStep(w), ~ \E a \in Attempt : Redeliver(w, a)
        PROVE  \/ TakeMarker(w) /\ worker'[w] = [worker[w] EXCEPT !.at = "marked"]
               \/ SetupFails(w) /\ worker'[w] = [worker[w] EXCEPT !.at = "stopped"]
               \/ Realize(w) /\ worker'[w] = [worker[w] EXCEPT !.at = "realized"]
               \/ StartPayload(w) /\ worker'[w] = [worker[w] EXCEPT !.at = "running"]
               \/ /\ StopConfirmed(w)
                  /\ \E status \in {"completed", "failed"} :
                       worker'[w] = [worker[w] EXCEPT !.at = "stopped", !.status = status]
               \/ /\ StopUnconfirmed(w)
                  /\ worker'[w] = [worker[w] EXCEPT !.at = "stopped", !.status = "unknown"]
               \/ worker[w].at # "idle" /\ worker'[w] = [worker[w] EXCEPT !.at = "gone"]
    <2>1. CASE TakeMarker(w)
      BY <1>5, <2>1 DEF TakeMarker
    <2>2. CASE SetupFails(w)
      BY <1>5, <2>2 DEF SetupFails
    <2>3. CASE Realize(w)
      BY <1>5, <2>3 DEF Realize
    <2>4. CASE StartPayload(w)
      BY <1>5, <2>4 DEF StartPayload
    <2>5. CASE StopConfirmed(w)
      BY <1>0, <2>5 DEF StopConfirmed
    <2>6. CASE StopUnconfirmed(w)
      BY <1>0, <2>6 DEF StopUnconfirmed
    <2>7. CASE Record(w)
      <3>1. Step(w, "stopped", "gone") /\ worker[w].at = "stopped"
        BY <2>7 DEF Record, Step
      <3> QED
        BY <1>5, <3>1
    <2>8. CASE WorkerEnds(w)
      BY <1>0, <2>8 DEF WorkerEnds
    <2> QED
      BY <1>6, <2>1, <2>2, <2>3, <2>4, <2>5, <2>6, <2>7, <2>8 DEF WorkerStep
  <1>7. WorkerStep(w) => (\E a \in dispatched : StartWorker(w, a))
                           \/ ~ \E a \in Attempt : Redeliver(w, a)
    BY <1>4
  <1>8. ASSUME NEW v \in Worker, v # w, NEW a, StartWorker(v, a)
        PROVE  worker'[w] = worker[w]
    BY <1>0, <1>8 DEF StartWorker
  <1> QED
    BY <1>1, <1>2, <1>3, <1>6, <1>7, <1>8, WorkerSteps

LEMMA MarkerCases ==
    ASSUME IInv, [Next]_vars, NEW w \in Worker, PastMarker(w)'
    PROVE  /\ worker'[w].attempt = worker[w].attempt
           /\ PastMarker(w) \/ TakeMarker(w)
  <1> USE DEF IInv, TypeOK
  <1>0. worker[w] \in WorkerState
    OBVIOUS
  <1>1. ASSUME NEW step \in {"marked", "realized", "running", "stopped", "gone"},
               worker'[w] = [worker[w] EXCEPT !.at = step]
        PROVE  worker'[w].at = step /\ worker'[w].attempt = worker[w].attempt
    BY <1>0, <1>1 DEF WorkerState
  <1>2. ASSUME NEW status,
               worker'[w] = [worker[w] EXCEPT !.at = "stopped", !.status = status]
        PROVE  worker'[w].attempt = worker[w].attempt
    BY <1>0, <1>2 DEF WorkerState
  <1>3. SetupFails(w) \/ Realize(w) \/ StartPayload(w) \/ StopConfirmed(w)
          \/ StopUnconfirmed(w) => PastMarker(w)
    BY DEF PastMarker, SetupFails, Realize, StartPayload, StopConfirmed, StopUnconfirmed, Step
  <1>4. CASE worker'[w] = worker[w]
    BY <1>4 DEF PastMarker
  <1>5. ASSUME NEW b, worker'[w] = [at |-> "started", attempt |-> b, status |-> "failed"]
        PROVE  FALSE
    BY <1>5 DEF PastMarker
  <1>6. ~ worker'[w] = [worker[w] EXCEPT !.at = "gone"]
    BY <1>1 DEF PastMarker
  <1> QED
    BY <1>1, <1>2, <1>3, <1>4, <1>5, <1>6, WorkerCases

\* A controller may make a directory only after its own dispatch.
LEMMA MakingCases ==
    ASSUME IInv, [Next]_vars, NEW c \in Controller, NEW a \in Attempt, Making(c, a)'
    PROVE  \/ /\ Making(c, a)
              /\ ctl'[c].at = ctl[c].at \/ MakeDirectory(c)
              /\ ~Materialize(c)
           \/ Dispatch(c, a) /\ ctl'[c].at = "dispatched"
  <1> USE DEF IInv, TypeOK
  <1>0. ctl \in [Controller -> ControllerState] /\ ctl[c] \in ControllerState
    OBVIOUS
  <1>1. ASSUME NEW d \in Controller, d # c, ControllerStep(d)
        PROVE  ctl'[c] = ctl[c]
    BY <1>0, <1>1 DEF ControllerStep, Dispatch, Reconcile, MakeDirectory, Materialize, Spawn,
       Import, FinalizeImported, Cleanup, ControllerStops, Goto
  <1>2. ~Materialize(c)
    <2> SUFFICES ASSUME Materialize(c) PROVE FALSE
      OBVIOUS
    <2>1. ctl'[c] = [ctl[c] EXCEPT !.at = "spawning"]
      BY <1>0 DEF Materialize, Goto
    <2> QED
      BY <1>0, <2>1 DEF Making, ControllerState
  <1>3. CASE ctl'[c] = ctl[c]
    BY <1>2, <1>3 DEF Making
  <1>4. ASSUME NEW b \in Attempt, Dispatch(c, b)
        PROVE  b = a /\ ctl'[c].at = "dispatched"
    BY <1>0, <1>4 DEF Dispatch, Making, Idle
  <1>5. CASE MakeDirectory(c)
    <2>1. ctl'[c] = [ctl[c] EXCEPT !.at = "making"] /\ ctl[c].at = "dispatched"
      BY <1>0, <1>5 DEF MakeDirectory, Goto
    <2> QED
      BY <1>0, <1>2, <1>5, <2>1 DEF Making, ControllerState
  <1>6. ASSUME NEW step \in {"waiting", "cleaning"}, Goto(c, step)
        PROVE  FALSE
    <2>1. ctl'[c] = [ctl[c] EXCEPT !.at = step]
      BY <1>0, <1>6 DEF Goto
    <2> QED
      BY <1>0, <2>1 DEF Making, ControllerState
  <1>7. ctl'[c].at # "idle" /\ ctl'[c].at # "reconcile" /\ ctl'[c].at # "imported"
    BY DEF Making
  <1>8. ~Import(c)
    <2> SUFFICES ASSUME Import(c) PROVE FALSE
      OBVIOUS
    <2>1. ctl'[c] = [ctl[c] EXCEPT !.at = "imported",
                                   !.completion = dir[ctl[c].attempt].completion]
      BY <1>0 DEF Import
    <2> QED
      BY <1>0, <1>7, <2>1 DEF ControllerState
  <1>9. ctl'[c] # Idle /\ ~ \E b \in Attempt : Reconcile(c, b)
    <2>1. \A b \in Attempt : Reconcile(c, b) =>
            ctl'[c] = [Idle EXCEPT !.at = "reconcile", !.attempt = b]
      BY <1>0 DEF Reconcile
    <2>2. \A b \in Attempt : [Idle EXCEPT !.at = "reconcile", !.attempt = b].at = "reconcile"
      BY DEF Idle
    <2>3. Idle.at = "idle"
      BY DEF Idle
    <2> QED
      BY <1>7, <2>1, <2>2, <2>3
  <1> QED
    BY <1>0, <1>1, <1>2, <1>3, <1>4, <1>5, <1>6, <1>8, <1>9, ControllerSteps
       DEF ControllerStep, Spawn, FinalizeImported, Cleanup, ControllerStops

LEMMA PayloadCases ==
    ASSUME IInv, [Next]_vars, NEW a \in Attempt
    PROVE  \/ starts'[a] = starts[a] /\ (a \in alive' => a \in alive)
           \/ \E w \in Worker : /\ StartPayload(w) /\ worker[w].attempt = a
                                /\ starts[a] = 0 /\ starts'[a] = 1
  <1> USE DEF IInv, TypeOK
  <1>1. ASSUME NEW w \in Worker, StartPayload(w)
        PROVE  \/ starts'[a] = starts[a] /\ (a \in alive' => a \in alive)
               \/ worker[w].attempt = a /\ starts[a] = 0 /\ starts'[a] = 1
    <2>1. worker[w].attempt \in Attempt /\ starts[worker[w].attempt] = 0
      BY <1>1 DEF StartPayload, Step, WorkerKnows
    <2> QED
      BY <1>1, <2>1 DEF StartPayload
  <1> QED
    BY <1>1, PayloadSteps DEF StopConfirmed

LEMMA EventsGrow ==
    ASSUME IInv, [Next]_vars
    PROVE  /\ dispatched \subseteq dispatched'
           /\ \A a \in dispatched' \ dispatched : \E c \in Controller : Dispatch(c, a)
           /\ \A a \in Attempt : final[a] # None => final'[a] = final[a]
  <1> USE DEF IInv, TypeOK
  <1>1. ASSUME NEW a \in Attempt, NEW m, Finalize(a, m)
        PROVE  /\ \A b \in Attempt : final[b] # None => final'[b] = final[b]
               /\ UNCHANGED dispatched
    BY <1>1 DEF Finalize, MayFinalize
  <1>2. ASSUME NEW c \in Controller, FinalizeImported(c)
        PROVE  ctl[c].attempt \in Attempt
    BY <1>2 DEF FinalizeImported, ControllerKnows
  <1>3. ASSUME NEW c \in Controller, NEW a \in Attempt, Dispatch(c, a)
        PROVE  dispatched' = dispatched \cup {a} /\ UNCHANGED final
    BY <1>3 DEF Dispatch
  <1> QED
    BY <1>1, <1>2, <1>3, EventSteps DEF events, FinalizeByHand, FinalizeImported

\* An attempt for which nothing has been run stays so until a worker takes the
\* marker in its directory.
LEMMA UntouchedKept ==
    ASSUME IInv, [Next]_vars, NEW a \in Attempt, Untouched(a)
    PROVE  Untouched(a)' \/ \E w \in Worker : TakeMarker(w) /\ worker[w].attempt = a
  <1> USE DEF IInv, TypeOK
  <1> SUFFICES ASSUME \A w \in Worker : TakeMarker(w) => worker[w].attempt # a
               PROVE  Untouched(a)'
    OBVIOUS
  <1>1. \A w \in Worker : worker[w].attempt = a => ~PastMarker(w)
    BY DEF Untouched
  <1>2. \A w \in Worker : worker'[w].attempt = a => ~PastMarker(w)'
    BY <1>1, MarkerCases
  <1>3. starts'[a] = 0 /\ a \notin alive'
    BY <1>1, PayloadCases DEF Untouched, StartPayload, Step, PastMarker
  <1>4. dir'[a].output = None /\ dir'[a].completion = None /\ dir'[a].lock = "none"
    <2>1. dir[a] \in Directory
      OBVIOUS
    <2>2. ASSUME NEW w \in Worker, Realize(w) \/ Record(w)
          PROVE  worker[w].attempt # a
      BY <1>1, <2>2 DEF Realize, Record, Step, PastMarker
    <2>3. ~Payload(a)
      BY DEF Untouched, Payload
    <2>4. CASE dir'[a] \in {dir[a], NoDirectory}
      BY <2>4 DEF Untouched, NoDirectory
    <2>5. CASE \/ dir'[a] = [dir[a] EXCEPT !.made = "partial"]
               \/ dir'[a] = [dir[a] EXCEPT !.made = "ready"]
               \/ dir'[a] = [dir[a] EXCEPT !.env = "none"]
      BY <2>1, <2>5 DEF Untouched, Directory
    <2> QED
      BY <2>2, <2>3, <2>4, <2>5, DirCases
  <1> QED
    BY <1>2, <1>3, <1>4 DEF Untouched

LEMMA StartsKept ==
    ASSUME IInv, [Next]_vars, NEW a \in Attempt
    PROVE  starts[a] = 1 => starts'[a] = 1
  BY PayloadCases

\* What is on record stays true of an attempt for which nothing can run.
LEMMA LeftByKept ==
    ASSUME IInv, [Next]_vars, NEW a \in Attempt, NEW m, LeftBy(a, m)
    PROVE  LeftBy(a, m)'
  <1> USE DEF IInv, TypeOK
  <1>0. dir[a] \in Directory
    OBVIOUS
  <1>1. \A w \in Worker : worker[w].attempt = a => ~PastMarker(w) /\ ~TakeMarker(w)
    BY DEF LeftBy, TakeMarker, Step
  <1>2. \A c \in Controller : ~Making(c, a)
    BY DEF LeftBy
  <1>3. a \in dispatched' /\ \A c \in Controller : ~Dispatch(c, a)
    BY EventsGrow DEF LeftBy, Dispatch, MayDispatch
  <1>4. \A w \in Worker : worker'[w].attempt = a => ~PastMarker(w)'
    BY <1>1, MarkerCases
  <1>5. \A c \in Controller : ~Making(c, a)'
    BY <1>2, <1>3, MakingCases
  <1>6. a \notin alive' /\ (starts[a] = 1 => starts'[a] = 1)
    BY <1>1, PayloadCases DEF LeftBy, StartPayload, Step, PastMarker
  <1>7. \/ dir'[a] = dir[a]
        \/ dir'[a] = [dir[a] EXCEPT !.env = "none"]
        \/ dir'[a] = NoDirectory
    <2>1. ASSUME NEW c \in Controller, MakeDirectory(c) \/ Materialize(c)
          PROVE  ctl[c].attempt # a
      BY <1>2, <2>1 DEF MakeDirectory, Materialize, Making
    <2>2. ASSUME NEW w \in Worker, TakeMarker(w) \/ Realize(w) \/ Record(w)
          PROVE  worker[w].attempt # a
      BY <1>1, <2>2 DEF Realize, Record, Step, PastMarker
    <2>3. ~Payload(a)
      BY DEF LeftBy, Payload
    <2> QED
      BY <2>1, <2>2, <2>3, DirCases
  <1>8. /\ dir'[a].made # "partial"
        /\ dir'[a].made = "ready" => dir'[a].lock = "taken" /\ m.output = dir'[a].output
        /\ m.status = "completed" => dir'[a].tree = "frozen" /\ dir'[a].env # "changed"
    <2>1. CASE dir'[a] = dir[a]
      BY <2>1 DEF LeftBy
    <2>2. CASE dir'[a] = NoDirectory
      BY <2>2 DEF NoDirectory
    <2>3. CASE dir'[a] = [dir[a] EXCEPT !.env = "none"]
      BY <1>0, <2>3 DEF LeftBy, Directory
    <2> QED
      BY <1>7, <2>1, <2>2, <2>3
  <1> QED
    BY <1>3, <1>4, <1>5, <1>6, <1>8 DEF LeftBy

-----------------------------------------------------------------------------
\* Every step keeps the invariant.

LEMMA StepDispatch ==
    ASSUME IInv, [Next]_vars
    PROVE  DispatchFirst'
  <1> USE DEF IInv, TypeOK
  <1>1. ASSUME NEW a \in Attempt \ dispatched'
        PROVE  Untouched(a)' /\ dir'[a].made = "absent" /\ final'[a] = None
    <2>1. /\ a \in Attempt /\ a \notin dispatched
          /\ Untouched(a) /\ dir[a].made = "absent" /\ dir[a] = NoDirectory /\ final[a] = None
      BY <1>1, EventsGrow DEF DispatchFirst, DirectoryHistory
    <2>2. \A w \in Worker : TakeMarker(w) \/ Realize(w) \/ Record(w) => worker[w].attempt # a
      BY <2>1 DEF TakeMarker, Realize, Record, Step, WorkerKnows
    <2>3. \A c \in Controller : MakeDirectory(c) \/ Materialize(c) => ctl[c].attempt # a
      BY <2>1 DEF MakeDirectory, Materialize, ControllerKnows
    <2>4. dir'[a] \in {dir[a], NoDirectory} \/ dir'[a] = [dir[a] EXCEPT !.env = "none"]
      BY <2>1, <2>2, <2>3, DirCases DEF Payload, Untouched
    <2>5. dir'[a].made = "absent"
      BY <2>1, <2>4 DEF NoDirectory
    <2>6. final'[a] = None
      <3>1. ASSUME NEW b \in Attempt, NEW m, Finalize(b, m)
            PROVE  final'[a] = final[a]
        BY <2>1, <3>1 DEF Finalize, MayFinalize
      <3> QED
        BY <2>1, <3>1, EventSteps
           DEF events, Dispatch, FinalizeImported, FinalizeByHand, ControllerKnows
    <2> QED
      BY <2>1, <2>2, <2>5, <2>6, UntouchedKept
  <1>2. ASSUME NEW r \in Reproduction \cap dispatched'
        PROVE  final'[Original] # None
    <2>1. r \in dispatched \/ \E c \in Controller : Dispatch(c, r)
      BY <1>2, EventsGrow
    <2>2. final[Original] # None
      BY <1>2, <2>1 DEF DispatchFirst, Dispatch, MayDispatch
    <2> QED
      BY <2>2, EventsGrow DEF Attempt
  <1> QED
    BY <1>1, <1>2 DEF DispatchFirst

LEMMA StepMade ==
    ASSUME IInv, [Next]_vars
    PROVE  MadeOnce'
  <1> USE DEF IInv, TypeOK
  <1> SUFFICES ASSUME NEW c \in Controller, NEW a \in Attempt, Making(c, a)'
               PROVE  /\ a \in dispatched' /\ Untouched(a)' /\ dir'[a].made # "ready"
                      /\ ctl'[c].at = "dispatched" => dir'[a].made = "absent"
                      /\ \A d \in Controller : Making(d, a)' => d = c
    BY DEF MadeOnce, Making
  <1>0. dir[a] \in Directory
    OBVIOUS
  <1>1. ASSUME Untouched(a), dir[a].made # "ready"
        PROVE  /\ Untouched(a)'
               /\ \A w \in Worker :
                    TakeMarker(w) \/ Realize(w) \/ Record(w) => worker[w].attempt # a
               /\ ~Payload(a)
    <2>1. \A w \in Worker :
            TakeMarker(w) \/ Realize(w) \/ Record(w) => worker[w].attempt # a
      BY <1>1 DEF TakeMarker, Realize, Record, Step
    <2>2. ~Payload(a)
      BY <1>1 DEF Payload
    <2> QED
      BY <1>1, <2>1, <2>2, UntouchedKept
  <1>2. CASE Dispatch(c, a)
    <2>1. /\ a \notin dispatched /\ a \in dispatched' /\ Untouched(a)
          /\ dir[a].made = "absent" /\ UNCHANGED dir
          /\ ctl' = [ctl EXCEPT ![c] = [Idle EXCEPT !.at = "dispatched", !.attempt = a]]
      BY <1>2 DEF Dispatch, MayDispatch, DispatchFirst
    <2>2. \A d \in Controller : Making(d, a) => FALSE
      BY <2>1 DEF MadeOnce
    <2>3. \A d \in Controller : Making(d, a)' => d = c
      BY <2>1, <2>2 DEF Making
    <2> QED
      BY <1>1, <2>1, <2>3
  <1>3. CASE /\ Making(c, a)
             /\ ctl'[c].at = ctl[c].at \/ MakeDirectory(c)
             /\ ~Materialize(c)
    <2>1. /\ a \in dispatched' /\ Untouched(a) /\ dir[a].made # "ready"
          /\ ctl[c].at = "dispatched" => dir[a].made = "absent"
          /\ \A d \in Controller : Making(d, a) => d = c
      BY <1>3, EventsGrow DEF MadeOnce
    <2>2. \A d \in Controller : ~Dispatch(d, a)
      BY <1>3 DEF Dispatch, MayDispatch, MadeOnce
    <2>3. \A d \in Controller : Making(d, a)' => d = c
      BY <2>1, <2>2, MakingCases
    <2>4. \A d \in Controller : Materialize(d) => ctl[d].attempt # a
      BY <1>3, <2>1 DEF Materialize, Making
    <2>5. \A d \in Controller : MakeDirectory(d) /\ ctl[d].attempt = a => d = c
      BY <2>1 DEF MakeDirectory, Making
    <2>6. MakeDirectory(c) => ctl'[c].at = "making"
      BY DEF MakeDirectory, Goto, ControllerState
    <2>7. \/ dir'[a] \in {dir[a], NoDirectory}
          \/ MakeDirectory(c) /\ dir'[a] = [dir[a] EXCEPT !.made = "partial"]
          \/ dir'[a] = [dir[a] EXCEPT !.env = "none"]
      BY <1>1, <2>1, <2>4, <2>5, DirCases
    <2>8. /\ dir'[a].made # "ready"
          /\ ctl'[c].at = "dispatched" => dir'[a].made = "absent"
      <3>1. CASE dir'[a] \in {dir[a], NoDirectory}
        BY <1>3, <2>1, <2>6, <3>1 DEF NoDirectory
      <3>2. CASE MakeDirectory(c) /\ dir'[a] = [dir[a] EXCEPT !.made = "partial"]
        BY <1>0, <2>6, <3>2 DEF Directory
      <3>3. CASE dir'[a] = [dir[a] EXCEPT !.env = "none"]
        BY <1>0, <1>3, <2>1, <2>6, <3>3 DEF Directory
      <3> QED
        BY <2>7, <3>1, <3>2, <3>3
    <2> QED
      BY <1>1, <2>1, <2>3, <2>8
  <1> QED
    BY <1>2, <1>3, MakingCases

LEMMA StepDirectory ==
    ASSUME IInv, [Next]_vars
    PROVE  DirectoryHistory'
  <1> USE DEF IInv, TypeOK
  <1> SUFFICES ASSUME NEW a \in Attempt
               PROVE  /\ dir'[a].made = "absent" => dir'[a] = NoDirectory
                      /\ dir'[a].made = "partial" => Untouched(a)'
                      /\ dir'[a].made = "ready" /\ dir'[a].lock = "none" => Untouched(a)'
                      /\ dir'[a].output # None => starts'[a] = 1
                      /\ a \in alive' => starts'[a] = 1
                      /\ starts'[a] \in {0, 1}
    BY DEF DirectoryHistory
  <1>0. /\ dir[a] \in Directory
        /\ dir[a].made = "absent" => dir[a] = NoDirectory
        /\ dir[a].made = "partial" => Untouched(a)
        /\ dir[a].made = "ready" /\ dir[a].lock = "none" => Untouched(a)
        /\ dir[a].output # None => starts[a] = 1
        /\ a \in alive => starts[a] = 1
        /\ starts[a] \in {0, 1}
    BY DEF DirectoryHistory
  <1>1. /\ a \in alive' => starts'[a] = 1
        /\ starts'[a] \in {0, 1}
        /\ starts[a] = 1 => starts'[a] = 1
    BY <1>0, PayloadCases
  <1>2. ASSUME Untouched(a), \A w \in Worker : TakeMarker(w) => worker[w].attempt # a
        PROVE  Untouched(a)'
    BY <1>2, UntouchedKept
  <1>3. ASSUME NEW w \in Worker, TakeMarker(w) \/ Realize(w) \/ Record(w), worker[w].attempt = a
        PROVE  dir[a].made = "ready" /\ (Realize(w) \/ Record(w) => dir[a].lock = "taken")
    BY <1>0, <1>3 DEF TakeMarker, Realize, Record, Step, Untouched, PastMarker, Directory
  <1>4. ASSUME NEW w \in Worker, TakeMarker(w), worker[w].attempt = a
        PROVE  dir'[a].made = "ready" /\ dir'[a].lock = "taken" /\ dir'[a].output = dir[a].output
    <2>1. dir'[a] = [dir[a] EXCEPT !.lock = "taken"] /\ dir[a].made = "ready"
      BY <1>3, <1>4 DEF TakeMarker
    <2> QED
      BY <1>0, <2>1 DEF Directory
  <1>5. ASSUME NEW w \in Worker, Realize(w) \/ Record(w), worker[w].attempt = a
        PROVE  dir'[a].made = "ready" /\ dir'[a].lock = "taken" /\ dir'[a].output = dir[a].output
    <2>1. dir[a].made = "ready" /\ dir[a].lock = "taken"
      BY <1>3, <1>5
    <2>2. \/ dir'[a] = [dir[a] EXCEPT !.env = "locked"]
          \/ \E m : dir'[a] = [dir[a] EXCEPT !.completion = m]
      BY <1>5 DEF Realize, Record
    <2> QED
      BY <1>0, <2>1, <2>2 DEF Directory
  <1>6. ASSUME NEW c \in Controller, MakeDirectory(c) \/ Materialize(c), ctl[c].attempt = a,
               NEW made \in {"partial", "ready"}, dir'[a] = [dir[a] EXCEPT !.made = made]
        PROVE  Untouched(a) /\ dir'[a].made = made /\ dir'[a].output = dir[a].output
    <2>1. Making(c, a)
      BY <1>6 DEF MakeDirectory, Materialize, Making
    <2> QED
      BY <1>0, <1>6, <2>1 DEF MadeOnce, Directory
  <1>7. CASE dir'[a] = [dir[a] EXCEPT !.env = "none"]
    <2>1. /\ dir'[a].made = dir[a].made /\ dir'[a].lock = dir[a].lock
          /\ dir'[a].output = dir[a].output
          /\ dir[a] = NoDirectory => dir'[a] = NoDirectory
      BY <1>0, <1>7 DEF Directory, NoDirectory
    <2> QED
      BY <1>0, <1>1, <1>2, <1>4, <2>1
  <1>8. CASE Payload(a)
    <2>1. a \in alive /\ dir[a].made = "ready"
      BY <1>8 DEF Payload
    <2>2. dir[a].lock = "taken"
      BY <1>0, <2>1 DEF Untouched, Directory
    <2>3. \/ \E v \in Value : dir'[a] = [dir[a] EXCEPT !.output = v]
          \/ dir'[a] = [dir[a] EXCEPT !.tree = "changed"]
          \/ \E e \in {"changed", "none"} : dir'[a] = [dir[a] EXCEPT !.env = e]
      BY <1>8 DEF Payload
    <2>4. dir'[a].made = "ready" /\ dir'[a].lock = "taken"
      BY <1>0, <2>1, <2>2, <2>3 DEF Directory
    <2> QED
      BY <1>0, <1>1, <2>1, <2>4
  <1>9. CASE dir'[a] = NoDirectory
    BY <1>1, <1>9 DEF NoDirectory
  <1>10. CASE dir'[a] = dir[a]
    BY <1>0, <1>1, <1>2, <1>4, <1>10
  <1> QED
    BY <1>0, <1>1, <1>2, <1>4, <1>5, <1>6, <1>7, <1>8, <1>9, <1>10, DirCases

LEMMA StepController ==
    ASSUME IInv, [Next]_vars
    PROVE  ControllerKnows'
  <1> USE DEF IInv, TypeOK
  <1>0. /\ dispatched \subseteq dispatched' /\ cas \subseteq cas'
        /\ ctl \in [Controller -> ControllerState]
    BY EventsGrow, CasSteps DEF Import, PutByHand
  <1> SUFFICES ASSUME NEW c \in Controller, NEW d \in Controller, ControllerStep(d)
               PROVE  /\ ctl'[c].at # "idle" => ctl'[c].attempt \in dispatched'
                      /\ ctl'[c].at = "imported" => ctl'[c].completion \in cas'
    BY <1>0, ControllerSteps DEF ControllerKnows
  <1>1. CASE d # c
    <2>1. ctl'[c] = ctl[c]
      BY <1>0, <1>1 DEF ControllerStep, Dispatch, Reconcile, MakeDirectory, Materialize, Spawn,
         Import, FinalizeImported, Cleanup, ControllerStops, Goto
    <2> QED
      BY <1>0, <2>1 DEF ControllerKnows
  <1>2. ASSUME NEW step \in {"making", "spawning", "waiting", "cleaning"}, Goto(c, step),
               ctl[c].at # "idle"
        PROVE  ctl'[c].at = step /\ ctl'[c].attempt \in dispatched'
    <2>1. ctl'[c] = [ctl[c] EXCEPT !.at = step]
      BY <1>0, <1>2 DEF Goto
    <2> QED
      BY <1>0, <1>2, <2>1 DEF ControllerState, ControllerKnows
  <1>3. ASSUME NEW a \in dispatched', NEW step \in {"dispatched", "reconcile"},
               ctl' = [ctl EXCEPT ![c] = [Idle EXCEPT !.at = step, !.attempt = a]]
        PROVE  ctl'[c].at = step /\ ctl'[c].attempt \in dispatched'
    <2>1. ctl'[c] = [Idle EXCEPT !.at = step, !.attempt = a]
      BY <1>0, <1>3
    <2> QED
      BY <2>1 DEF Idle
  <1>4. CASE Import(c)
    <2>1. /\ ctl[c].at = "reconcile"
          /\ dir[ctl[c].attempt].completion \in cas'
          /\ ctl'[c] = [ctl[c] EXCEPT !.at = "imported",
                                      !.completion = dir[ctl[c].attempt].completion]
      BY <1>0, <1>4 DEF Import
    <2> QED
      BY <1>0, <2>1 DEF ControllerState, ControllerKnows
  <1>5. CASE ctl' = [ctl EXCEPT ![c] = Idle]
    BY <1>0, <1>5 DEF Idle
  <1>6. ASSUME NEW a \in Attempt, Dispatch(c, a) \/ Reconcile(c, a)
        PROVE  a \in dispatched'
    BY <1>0, <1>6 DEF Dispatch, Reconcile, ControllerKnows
  <1> QED
    BY <1>1, <1>2, <1>3, <1>4, <1>5, <1>6
       DEF ControllerStep, Dispatch, Reconcile, MakeDirectory, Materialize, Spawn,
           FinalizeImported, Cleanup, ControllerStops

LEMMA StepMarked ==
    ASSUME IInv, [Next]_vars
    PROVE  MarkedOnce'
  <1> USE DEF IInv, TypeOK
  <1> SUFFICES ASSUME NEW v \in Worker, NEW w \in Worker, PastMarker(v)', PastMarker(w)',
                      worker'[v].attempt = worker'[w].attempt, v # w
               PROVE  FALSE
    BY DEF MarkedOnce
  <1>1. worker[v].attempt = worker[w].attempt
    BY MarkerCases
  <1>2. ASSUME NEW x \in Worker, NEW y \in Worker, x # y, TakeMarker(x), PastMarker(y)'
        PROVE  PastMarker(y)
    <2>1. worker'[y] = worker[y]
      BY <1>2 DEF TakeMarker, Step
    <2> QED
      BY <1>2, <2>1 DEF PastMarker
  <1>3. ASSUME NEW x \in Worker, NEW y \in Worker, TakeMarker(x), PastMarker(y)
        PROVE  worker[x].attempt # worker[y].attempt
    <2>1. /\ worker[x].attempt \in Attempt
          /\ dir[worker[x].attempt].made = "ready" /\ dir[worker[x].attempt].lock = "none"
      BY <1>3 DEF TakeMarker, Step, WorkerKnows
    <2>2. Untouched(worker[x].attempt)
      BY <2>1 DEF DirectoryHistory
    <2> QED
      BY <1>3, <2>2 DEF Untouched
  <1> QED
    BY <1>1, <1>2, <1>3, MarkerCases DEF MarkedOnce

LEMMA StepWorker ==
    ASSUME IInv, [Next]_vars
    PROVE  WorkerKnows'
  <1> USE DEF IInv, TypeOK
  <1> SUFFICES ASSUME NEW w \in Worker
               PROVE  /\ worker'[w].at # "idle" => worker'[w].attempt \in dispatched'
                      /\ worker'[w].at \in {"marked", "realized"} =>
                           worker'[w].status = "failed" /\ starts'[worker'[w].attempt] = 0
                      /\ worker'[w].at = "started" => worker'[w].status = "failed"
                      /\ worker'[w].at = "running" => starts'[worker'[w].attempt] = 1
                      /\ worker'[w].at = "stopped" =>
                           /\ worker'[w].status # "unknown" => worker'[w].attempt \notin alive'
                           /\ worker'[w].status = "completed" =>
                                starts'[worker'[w].attempt] = 1
    BY DEF WorkerKnows
  <1> DEFINE a == worker[w].attempt
  <1>0. /\ worker[w] \in WorkerState
        /\ worker[w].at # "idle" => a \in dispatched' /\ a \in Attempt
        /\ worker[w].at \in {"marked", "realized"} => worker[w].status = "failed" /\ starts[a] = 0
        /\ worker[w].at = "started" => worker[w].status = "failed"
        /\ worker[w].at = "running" => starts[a] = 1
        /\ worker[w].at = "stopped" =>
             /\ worker[w].status # "unknown" => a \notin alive
             /\ worker[w].status = "completed" => starts[a] = 1
    BY EventsGrow DEF WorkerKnows
  <1>1. ASSUME PastMarker(w), ~StartPayload(w)
        PROVE  starts'[a] = starts[a] /\ (a \in alive' => a \in alive)
    <2>1. a \in Attempt
      BY <1>0, <1>1 DEF PastMarker
    <2>2. ASSUME NEW v \in Worker, StartPayload(v) PROVE worker[v].attempt # a
      BY <1>1, <2>2 DEF StartPayload, Step, PastMarker, MarkedOnce
    <2> HIDE DEF a
    <2> QED
      BY <2>1, <2>2, PayloadCases
  <1>2. CASE worker'[w] = worker[w]
    <2>1. ASSUME PastMarker(w) PROVE ~StartPayload(w)
      <3>1. StartPayload(w) => worker'[w] # worker[w]
        BY <1>0 DEF StartPayload, Step, WorkerState
      <3> QED
        BY <1>2, <3>1
    <2> QED
      BY <1>0, <1>1, <1>2, <2>1 DEF PastMarker
  <1>3. ASSUME NEW b \in dispatched,
               worker'[w] = [at |-> "started", attempt |-> b, status |-> "failed"]
        PROVE  /\ worker'[w].at = "started" /\ worker'[w].status = "failed"
               /\ worker'[w].attempt \in dispatched'
    BY <1>3, EventsGrow
  <1>4. ASSUME NEW step \in {"marked", "realized", "running", "stopped", "gone"},
               worker'[w] = [worker[w] EXCEPT !.at = step]
        PROVE  /\ worker'[w].at = step /\ worker'[w].attempt = a
               /\ worker'[w].status = worker[w].status
    BY <1>0, <1>4 DEF WorkerState
  <1>5. ASSUME NEW status \in {"completed", "failed", "unknown"},
               worker'[w] = [worker[w] EXCEPT !.at = "stopped", !.status = status]
        PROVE  /\ worker'[w].at = "stopped" /\ worker'[w].attempt = a
               /\ worker'[w].status = status
    BY <1>0, <1>5 DEF WorkerState
  <1>6. ASSUME TakeMarker(w)
        PROVE  starts'[a] = 0 /\ worker[w].at = "started" /\ a \in dispatched'
    <2>1. /\ a \in Attempt /\ dir[a].made = "ready" /\ dir[a].lock = "none"
          /\ worker[w].at = "started" /\ UNCHANGED starts
      BY <1>0, <1>6 DEF TakeMarker, Step
    <2>2. starts[a] = 0
      BY <2>1 DEF DirectoryHistory, Untouched
    <2> QED
      BY <1>0, <2>1, <2>2
  <1>7. ASSUME SetupFails(w)
        PROVE  worker[w].at \in {"marked", "realized"} /\ a \notin alive' /\ starts'[a] = 0
    BY <1>0, <1>7 DEF SetupFails, Step, DirectoryHistory
  <1>8. ASSUME Realize(w) PROVE worker[w].at = "marked" /\ starts'[a] = 0
    BY <1>0, <1>8 DEF Realize, Step
  <1>9. ASSUME StartPayload(w) PROVE worker[w].at = "realized" /\ starts'[a] = 1
    <2>1. /\ worker[w].at = "realized" /\ starts' = [starts EXCEPT ![a] = @ + 1]
          /\ starts \in [Attempt -> Nat]
      BY <1>9 DEF StartPayload, Step
    <2> HIDE DEF a
    <2> QED
      BY <1>0, <2>1
  <1>10. ASSUME StopConfirmed(w)
         PROVE  worker[w].at = "running" /\ a \notin alive' /\ starts'[a] = 1
    BY <1>0, <1>10 DEF StopConfirmed
  <1>11. ASSUME StopUnconfirmed(w) PROVE worker[w].at = "running"
    BY <1>11 DEF StopUnconfirmed
  <1> HIDE DEF a
  <1> QED
    BY <1>0, <1>2, <1>3, <1>4, <1>5, <1>6, <1>7, <1>8, <1>9, <1>10, <1>11, WorkerCases

\* The completion that a worker records is what its own stopped payload left.
LEMMA RecordLeaves ==
    ASSUME IInv, [Next]_vars, NEW w \in Worker, Record(w), NEW a, a = worker[w].attempt,
           NEW m, m = dir'[a].completion
    PROVE  m.attempt = a /\ (m.status # "unknown" => LeftBy(a, m)')
  <1> USE DEF IInv, TypeOK
  <1> DEFINE status == AsObserved(worker[w].status, dir[a])
             new == [attempt |-> a, status |-> status,
                     output |-> IF status = "unknown" THEN None ELSE dir[a].output]
  <1>1. /\ worker[w].at = "stopped" /\ worker[w] \in WorkerState
        /\ a \in Attempt /\ a \in dispatched /\ dir[a] \in Directory /\ dir[a].made = "ready"
        /\ dir' = [dir EXCEPT ![a] = [@ EXCEPT !.completion = new]]
        /\ worker' = [worker EXCEPT ![w] = [@ EXCEPT !.at = "gone"]]
        /\ UNCHANGED <<dispatched, ctl, alive, starts>>
    BY DEF Record, Step, WorkerKnows, events
  <1>2. dir'[a] = [dir[a] EXCEPT !.completion = new]
    BY <1>1
  <1>3. /\ dir'[a].made = "ready" /\ dir'[a].lock = dir[a].lock /\ dir'[a].output = dir[a].output
        /\ dir'[a].tree = dir[a].tree /\ dir'[a].env = dir[a].env /\ m = new
    <2> HIDE DEF new
    <2> QED
      BY <1>1, <1>2 DEF Directory
  <1>4. m.attempt = a /\ m.status = status /\ (status # "unknown" => m.output = dir[a].output)
    BY <1>3
  <1> HIDE DEF new
  <1> SUFFICES ASSUME status # "unknown" PROVE LeftBy(a, m)'
    BY <1>4
  <1>5. ~Untouched(a)
    BY <1>1 DEF Untouched, PastMarker
  <1>6. dir'[a].lock = "taken" /\ \A c \in Controller : ~Making(c, a)'
    BY <1>1, <1>3, <1>5 DEF DirectoryHistory, Directory, MadeOnce, Making
  <1>7. /\ worker[w].status # "unknown"
        /\ status = "completed" => worker[w].status = "completed" /\ dir[a].tree = "frozen"
                                   /\ dir[a].env = "locked"
    BY DEF AsObserved
  <1>8. a \notin alive' /\ (status = "completed" => starts'[a] = 1)
    BY <1>1, <1>7 DEF WorkerKnows
  <1>9. \A v \in Worker : worker'[v].attempt = a => ~PastMarker(v)'
    <2>1. worker'[w].at = "gone" /\ \A v \in Worker : v # w => worker'[v] = worker[v]
      BY <1>1 DEF WorkerState
    <2>2. \A v \in Worker : v # w /\ PastMarker(v) => worker[v].attempt # a
      BY <1>1 DEF MarkedOnce, PastMarker
    <2> QED
      BY <2>1, <2>2 DEF PastMarker
  <1>10. m.output # None => starts'[a] = 1
    BY <1>1, <1>4 DEF DirectoryHistory
  <1> HIDE DEF status
  <1> QED
    BY <1>1, <1>3, <1>4, <1>6, <1>7, <1>8, <1>9, <1>10 DEF LeftBy

LEMMA SameEvidence ==
    ASSUME NEW a, NEW m, NEW n, n.status \in {m.status, "failed"}, n.output = m.output, LeftBy(a, m)'
    PROVE  LeftBy(a, n)'
  BY DEF LeftBy

\* A finalization records an imported completion, or less: that it has failed.
LEMMA FinalizeSteps ==
    ASSUME IInv, [Next]_vars
    PROVE  UNCHANGED final \/ \E a \in Attempt, m \in cas : Finalize(a, m)
  BY EventSteps
     DEF IInv, TypeOK, events, Dispatch, FinalizeImported, FinalizeByHand, ControllerKnows

LEMMA StepEvidence ==
    ASSUME IInv, [Next]_vars
    PROVE  EvidenceTrue'
  <1> USE DEF IInv, TypeOK
  <1>1. ASSUME NEW m \in cas', m.status # "unknown"
        PROVE  LeftBy(m.attempt, m)'
    <2>1. m.attempt \in Attempt /\ LeftBy(m.attempt, m)
      <3>1. CASE m \in cas
        BY <1>1, <3>1 DEF EvidenceTrue, Completion
      <3>2. ASSUME NEW a \in Attempt, m = dir[a].completion, m # None
            PROVE  m.attempt = a /\ LeftBy(a, m)
        BY <1>1, <3>2 DEF EvidenceTrue
      <3>3. m \in cas \/ \E a \in Attempt : m = dir[a].completion /\ m # None
        BY <1>1, CasSteps DEF Import, PutByHand, ControllerKnows
      <3> QED
        BY <3>1, <3>2, <3>3
    <2> QED
      BY <2>1, LeftByKept
  <1>2. ASSUME NEW a \in Attempt, NEW m, m = dir'[a].completion, m # None
        PROVE  m.attempt = a /\ (m.status # "unknown" => LeftBy(a, m)')
    <2>0. dir[a] \in Directory
      OBVIOUS
    <2>1. CASE m = dir[a].completion
      BY <1>2, <2>1, LeftByKept DEF EvidenceTrue
    <2>2. ASSUME NEW w \in Worker, Record(w), worker[w].attempt = a
          PROVE  m.attempt = a /\ (m.status # "unknown" => LeftBy(a, m)')
      BY <1>2, <2>2, RecordLeaves
    <2>3. CASE dir'[a] = NoDirectory
      BY <1>2, <2>3 DEF NoDirectory
    <2>4. CASE \/ \E made : dir'[a] = [dir[a] EXCEPT !.made = made]
               \/ \E env : dir'[a] = [dir[a] EXCEPT !.env = env]
               \/ dir'[a] = [dir[a] EXCEPT !.lock = "taken"]
      BY <1>2, <2>0, <2>1, <2>4 DEF Directory
    <2>5. CASE Payload(a)
      <3>1. \/ \E v \in Value : dir'[a] = [dir[a] EXCEPT !.output = v]
            \/ dir'[a] = [dir[a] EXCEPT !.tree = "changed"]
            \/ \E e \in {"changed", "none"} : dir'[a] = [dir[a] EXCEPT !.env = e]
        BY <2>5 DEF Payload
      <3> QED
        BY <1>2, <2>0, <2>1, <3>1 DEF Directory
    <2> QED
      BY <1>2, <2>1, <2>2, <2>3, <2>4, <2>5, DirCases
  <1>3. ASSUME NEW a \in Attempt, NEW m, m = final'[a], m # None
        PROVE  LeftBy(a, m)'
    <2>1. CASE m = final[a]
      BY <1>3, <2>1, LeftByKept DEF EvidenceTrue
    <2>2. ASSUME NEW n \in cas, Finalize(a, n), m = Assess(a, n)
          PROVE  LeftBy(a, m)'
      <3>1. n.status # "unknown" /\ n.attempt = a
        BY <2>2 DEF Finalize, MayFinalize
      <3>2. LeftBy(a, n)'
        BY <3>1, LeftByKept DEF EvidenceTrue
      <3>3. m.status \in {n.status, "failed"} /\ m.output = n.output
        BY <2>2 DEF Assess, Verified
      <3> QED
        BY <3>2, <3>3, SameEvidence
    <2>3. ASSUME NEW b \in Attempt, NEW n, Finalize(b, n)
          PROVE  m = final[a] \/ (b = a /\ m = Assess(a, n))
      BY <1>3, <2>3 DEF Finalize
    <2> QED
      BY <1>3, <2>1, <2>2, <2>3, FinalizeSteps
  <1> QED
    BY <1>1, <1>2, <1>3 DEF EvidenceTrue

LEMMA StepMatched ==
    ASSUME IInv, [Next]_vars
    PROVE  MatchedWasRerun'
  <1> USE DEF IInv, TypeOK
  <1> SUFFICES ASSUME NEW r \in Reproduction, final'[r] # None, final'[r].verdict = "matched"
               PROVE  /\ starts'[r] = 1 /\ starts'[Original] = 1
                      /\ final'[r].output = final'[Original].output
    BY DEF MatchedWasRerun
  <1>0. r \in Attempt /\ Original \in Attempt
    BY DEF Attempt
  <1>1. CASE final'[r] = final[r]
    <2>1. final[Original] # None
      BY <1>0, <1>1 DEF EvidenceTrue, LeftBy, DispatchFirst
    <2> QED
      BY <1>0, <1>1, <2>1, EventsGrow, StartsKept DEF MatchedWasRerun
  <1>2. ASSUME NEW m \in cas, Finalize(r, m), final'[r] = Assess(r, m)
        PROVE  /\ starts'[r] = 1 /\ starts'[Original] = 1
               /\ final'[r].output = final'[Original].output
    <2>1. r # Original /\ SameOutputs(m) /\ final'[r].output = m.output
      BY <1>2 DEF Assess
    <2>2. m.status # "unknown" /\ m.attempt = r /\ r \in dispatched
      BY <1>2 DEF Finalize, MayFinalize
    <2>3. final[Original] # None /\ final'[Original] = final[Original]
      BY <1>0, <2>2, EventsGrow DEF DispatchFirst
    <2>4. starts[r] = 1 /\ starts[Original] = 1
      BY <1>0, <2>1, <2>2, <2>3 DEF SameOutputs, EvidenceTrue, LeftBy
    <2> QED
      BY <1>0, <2>1, <2>3, <2>4, StartsKept DEF SameOutputs
  <1>3. ASSUME NEW b \in Attempt, NEW n \in cas, Finalize(b, n)
        PROVE  final'[r] = final[r] \/ (b = r /\ final'[r] = Assess(r, n))
    BY <1>0, <1>3 DEF Finalize
  <1> QED
    BY <1>1, <1>2, <1>3, FinalizeSteps

\* Whoever may make a directory for an attempt has just dispatched it, and once
\* something is recorded of an attempt nothing can be run for it any more.
THEOREM LockedInvariant == Spec => []IInv
  <1>1. IInv /\ [Next]_vars => IInv'
    BY NextTyped, StepDispatch, StepMade, StepDirectory, StepController, StepMarked, StepWorker,
       StepEvidence, StepMatched DEF IInv
  <1> QED
    BY InitIInv, <1>1, PTL DEF Spec

\* Dispatches, directories, completions, controllers and workers keep their types.
THEOREM LockedTyped == Spec => []TypeOK
  BY LockedInvariant, PTL DEF IInv

\* A payload runs at most once per dispatch, although the directory with the
\* marker that keeps a second worker out may vanish (materialize, launch.lock).
THEOREM LockedStartsOnce == Spec => []OneStartPerDispatch
  <1>1. IInv => OneStartPerDispatch
    BY DEF IInv, TypeOK, DispatchFirst, DirectoryHistory, Untouched, OneStartPerDispatch
  <1> QED
    BY <1>1, LockedInvariant, PTL

\* What is recorded about an attempt is what its own stopped payload left; a
\* completed one has left program, inputs and environment as they were frozen
\* (inputs_after, environment_after, import_completion, check_completion).
THEOREM RecordsAreTrue == Spec => []RecordedIsWhatRan
  <1>1. IInv => RecordedIsWhatRan
    BY DEF IInv, EvidenceTrue, LeftBy, RecordedIsWhatRan
  <1> QED
    BY <1>1, LockedInvariant, PTL

\* A reproduction that matches has executed the program again and produced the
\* bytes of a result that an execution had produced (assess).
THEOREM MatchMeansRerun == Spec => []MatchedWasRerun
  BY LockedInvariant, PTL DEF IInv

=============================================================================
