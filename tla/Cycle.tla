------------------------------- MODULE Cycle -------------------------------
(***************************************************************************)
(* The research cycle: src/episteme/cycle.py over the batches, analyses    *)
(* and assignments of Analysis.tla.                                        *)
(*                                                                         *)
(* A call of cycle_step decides the next mechanical step from the log,     *)
(* remembers how long the log is, decides again, and has a routine perform *)
(* the step: the routine reads the log once more, then reads its length    *)
(* and sends one command that commits at that length only.  At the end the *)
(* call counts the commands that are new: if there is exactly one it       *)
(* reports that command, otherwise, and after an error, it reports that it *)
(* was blocked and whether the log has grown.  Calls may overlap with one  *)
(* another, with the analysis controllers, and with what others do.        *)
(***************************************************************************)
EXTENDS Analysis

CONSTANTS
    Caller,     \* processes that call cycle_step --apply, again and again
    Budget      \* per caller: attempts that a call may start

ASSUME CycleAssumption ==
    /\ Budget \in [Caller -> Nat]
    /\ \A c \in Caller : Names[c] \in Reviewer \cup {None}

VARIABLES
    evidence,   \* per batch and slot: the completion in the workspace, or None
    call        \* per caller: where its call is

vars == <<record, disk, fixed, spare, draft, evidence, call>>

-----------------------------------------------------------------------------
\* _decide

Step(kind, b, s) == [kind |-> kind, batch |-> b, slot |-> s]

Stop == Step("stop", None, None)

\* Slots in the order of the roster, the primary first.
Slots(b, states) == {s \in Slot : Status(b, s) \in states}

First(slots) == IF "primary" \in slots THEN "primary" ELSE "reanalysis"

\* A dispatched attempt without a completion: it is not started again.
Lost(b) == Open(b) /\ \E s \in Slot : jobs[b][s] = "unknown" /\ evidence[b][s] = None

\* Mutant: a roster with a failed attempt is not settled.
AllCompleted(b) == \A s \in Slot : Status(b, s) = "completed"

AllTerminal(b) == \A s \in Slot : Status(b, s) \in Terminal

BatchStep(b) ==
    LET unknown == Slots(b, {"unknown"})
        waiting == Slots(b, {"pending", "queued"})
    IN  IF unknown # {}
        THEN IF evidence[b][First(unknown)] # None THEN Step("finalize", b, First(unknown)) ELSE Stop
        ELSE IF waiting # {}
             THEN IF Status(b, First(waiting)) = "pending"
                  THEN Step("enqueue", b, First(waiting))
                  ELSE Step("launch", b, First(waiting))
        ELSE IF AllTerminal(b) THEN Step("settle", b, None)
        ELSE Stop

\* What next_action says of the claim of an analysis; follow-ups and
\* replacements are left out.
NextAction(b, i) ==
    IF b \in broken THEN "repair_evidence"
    ELSE IF analyses[b][i].opinion \in {"obliged", "vetoed"} THEN "replan"
    ELSE IF analyses[b][i].opinion = "approved" THEN "paper_candidate"
    ELSE "scientific_review"

Actions == {NextAction(x[1], x[2]) :
                x \in {y \in Batch \X (1 .. MaxAnalyses) : y[2] \in DOMAIN analyses[y[1]]}}

OpenBatches == {b \in Batch : Open(b)}

\* Batches that a command of the controller might advance after settlement.
Mechanical == {b \in Batch : settled[b] = "completed" /\ Progress(b) \in
                   {"awaiting_analysis", "awaiting_assignment", "stale_evidence"}}

AfterSettlement(b) ==
    CASE Progress(b) = "awaiting_analysis" -> Step("admit", b, None)
      [] Progress(b) = "awaiting_assignment" -> Step("assign", b, None)
      [] OTHER -> Stop

Decision ==
    IF Actions \cap {"replan", "paper_candidate"} # {} \/ Cardinality(OpenBatches) > 1 THEN Stop
    ELSE IF OpenBatches # {} THEN BatchStep(CHOOSE b \in OpenBatches : TRUE)
    ELSE IF Cardinality(Mechanical) = 1 THEN AfterSettlement(CHOOSE b \in Mechanical : TRUE)
    ELSE Stop

Consumes(step) == step.kind \in {"enqueue", "launch"}

-----------------------------------------------------------------------------
\* The call.

Idle == [pc |-> "idle", step |-> Stop, doing |-> Stop, since |-> 0, first |-> "none",
         spent |-> 0, revision |-> "none", entry |-> None]

At(c, pc) == call[c].pc = pc

\* The second decision or the routine raises, before its command, because of
\* it, or after it; the call goes on to its report.
Fails(c) == call' = [call EXCEPT ![c] = [@ EXCEPT !.pc = "failed"]]

\* What the caller must have said for this step: a budget for an attempt,
\* actors for an analysis, and no other reviewer than the analysis names.
Permitted(c, step) ==
    /\ step.kind # "stop"
    /\ Consumes(step) => Budget[c] >= 1
    /\ step.kind = "admit" => Names[c] # None
    /\ step.kind = "assign" => /\ Len(analyses[step.batch]) = 1
                               /\ Names[c] \in {None, analyses[step.batch][1].reviewer}

Decide(c) ==
    /\ At(c, "idle")
    /\ Permitted(c, Decision)
    /\ call' = [call EXCEPT ![c] = [Idle EXCEPT !.pc = "decided", !.step = Decision]]

\* The length of the log and its receipts, for the count at the end.
Mark(c) ==
    /\ At(c, "decided")
    /\ call' = [call EXCEPT ![c] = [@ EXCEPT !.pc = "marked"]]

\* Mutant: it is enough that the batch is the same.
SameBatch(fresh, step) == fresh.kind # "stop" /\ fresh.batch = step.batch

SameStep(fresh, step) == fresh = step

Confirm(c) ==
    /\ At(c, "marked")
    /\ IF SameStep(Decision, call[c].step)
       THEN call' = [call EXCEPT ![c] = [@ EXCEPT !.pc = "confirmed", !.doing = Decision]]
       ELSE Fails(c)

\* The conditions under which a handler admits each command; the routines
\* that perform a step ask the same before they send it.
Admissible(kind, b, s) ==
    CASE kind = "enqueue" -> Open(b) /\ Status(b, s) = "pending"
      [] kind = "launch" -> Open(b) /\ jobs[b][s] = "queued"
      [] kind = "finalize" -> Planned(b) /\ jobs[b][s] = "unknown"
      [] kind = "settle" -> Open(b) /\ AllTerminal(b)
      [] kind = "admit" -> settled[b] = "completed"
      [] kind = "assign" -> analyses[b] # << >> /\ MayAssign(b, 1)

Prepared(c, entry) ==
    call' = [call EXCEPT ![c] = [@ EXCEPT !.pc = "checked", !.entry = entry]]

\* _enqueue, _settle, _launch, reconcile_job, _admit, _assign up to the
\* command.  Somebody else may have finalized: then there is nothing to send.
Check(c) ==
    LET d == call[c].doing
    IN  /\ At(c, "confirmed")
        /\ CASE d.kind \in {"enqueue", "launch", "settle"} ->
                  IF Admissible(d.kind, d.batch, d.slot) THEN Prepared(c, None) ELSE Fails(c)
             [] d.kind = "finalize" ->
                  IF Admissible(d.kind, d.batch, d.slot) THEN Prepared(c, None)
                  ELSE call' = [call EXCEPT ![c] = [@ EXCEPT !.pc = "returning"]]
             [] d.kind = "admit" ->
                  \/ /\ Progress(d.batch) = "awaiting_analysis"
                     /\ \E memory \in Memory(d.batch) :
                          /\ Prepares(d.batch, memory)
                          /\ Prepared(c, Entry(d.batch, memory, Names[c]))
                  \/ /\ ~ /\ Progress(d.batch) = "awaiting_analysis"
                          /\ \E memory \in Memory(d.batch) : Prepares(d.batch, memory)
                     /\ Fails(c)
             [] d.kind = "assign" ->
                  IF Progress(d.batch) = "awaiting_assignment" /\ Len(analyses[d.batch]) = 1
                  THEN Prepared(c, None) ELSE Fails(c)

\* _execute: the revision that the command expects is read here, after the
\* checks.
Stamp(c) ==
    /\ At(c, "checked")
    /\ call' = [call EXCEPT ![c] = [@ EXCEPT !.pc = "stamped", !.revision = "current"]]

\* What each call sees of a commit of the command "step".
Sees(c, step) ==
    IF call[c].pc \in {"idle", "decided"} THEN call[c]
    ELSE [call[c] EXCEPT
            !.since = IF @ = 0 THEN 1 ELSE 2,
            !.first = IF @ # "none" THEN @ ELSE IF step = call[c].step THEN "step" ELSE "other",
            !.revision = "passed"]

Committed(step) ==
    /\ call' = [c \in Caller |-> Sees(c, step)]
    /\ draft' = Outdated

\* The handlers' effect.
Effect(step, entry) ==
    LET b == step.batch
        s == step.slot
    IN  CASE step.kind = "enqueue" ->
               /\ jobs' = [jobs EXCEPT ![b] = [@ EXCEPT ![s] = "queued"]]
               /\ UNCHANGED <<recipes, settled, analyses, broken>>
          [] step.kind = "launch" ->
               /\ jobs' = [jobs EXCEPT ![b] = [@ EXCEPT ![s] = "unknown"]]
               /\ UNCHANGED <<recipes, settled, analyses, broken>>
          [] step.kind = "finalize" ->
               /\ jobs' = [jobs EXCEPT ![b] = [@ EXCEPT ![s] = evidence[b][s]]]
               /\ UNCHANGED <<recipes, settled, analyses, broken>>
          [] step.kind = "settle" ->
               /\ settled' = [settled EXCEPT ![b] = IF AllCompleted(b) THEN "completed" ELSE "failed"]
               /\ UNCHANGED <<recipes, jobs, analyses, broken>>
          [] step.kind = "admit" -> Analysed(b, entry) /\ UNCHANGED <<recipes, jobs, settled, broken>>
          [] step.kind = "assign" -> Assigned(b, 1) /\ UNCHANGED <<recipes, jobs, settled, broken>>

MaySend(c) ==
    LET d == call[c].doing
    IN  /\ call[c].revision = "current"
        /\ Admissible(d.kind, d.batch, d.slot)
        /\ d.kind = "admit" => MayAnalyse(d.batch, call[c].entry)

Commit(c) ==
    LET d == call[c].doing
    IN  /\ At(c, "stamped")
        /\ MaySend(c)
        /\ Effect(d, call[c].entry)
        /\ draft' = Outdated
        /\ call' = [x \in Caller |->
                      IF x # c THEN Sees(x, d)
                      ELSE [Sees(c, d) EXCEPT
                              !.pc = IF d.kind = "launch" THEN "launched" ELSE "returning",
                              !.spent = IF Consumes(d) THEN 1 ELSE 0]]
        /\ UNCHANGED <<disk, fixed, spare, evidence>>

Refuse(c) ==
    /\ At(c, "stamped")
    /\ ~MaySend(c)
    /\ Fails(c)

\* The workspace cannot be made, or the worker runs and leaves a completion
\* or none.
Work(c) ==
    LET d == call[c].doing
    IN  /\ At(c, "launched")
        /\ \/ Fails(c) /\ UNCHANGED evidence
           \/ \E outcome \in Outcome :
                /\ evidence' = [evidence EXCEPT ![d.batch] = [@ EXCEPT ![d.slot] = outcome]]
                /\ call' = [call EXCEPT ![c] = [@ EXCEPT !.pc = "returning"]]
        /\ UNCHANGED <<record, disk, fixed, spare, draft>>

\* Mutant: the first new command is reported, however many there are.
AtLeastOne(c) == call[c].since >= 1

ExactlyOne(c) == call[c].since = 1

\* The call counts what is new and returns its report.
Reports(c) == call[c].pc \in {"failed", "returning"}

\* The report names no command.
Blocked(c) == At(c, "failed") \/ ~ExactlyOne(c)

\* len(store.events()) != before_events: anybody's command makes the log grow.
Grown(c) == call[c].since > 0

\* What the report says was applied and consumed.
Applied(c) == Blocked(c) => Grown(c)

Consumed(c) == IF ~Blocked(c) /\ Consumes(call[c].step) THEN 1 ELSE 0

Return(c) ==
    /\ Reports(c)
    /\ call' = [call EXCEPT ![c] = Idle]

Own(c) == Decide(c) \/ Mark(c) \/ Confirm(c) \/ Check(c) \/ Stamp(c) \/ Refuse(c) \/ Return(c)

CallStep(c) ==
    /\ c \in crew
    /\ \/ Own(c) /\ UNCHANGED <<record, disk, fixed, spare, draft, evidence>>
       \/ Commit(c)
       \/ Work(c)

-----------------------------------------------------------------------------
\* What the others do, as the calls see it.

\* Another controller advances a batch; its worker runs at once.
Elsewhere(step) ==
    /\ Spend
    /\ step.kind = "finalize" => evidence[step.batch][step.slot] # None
    /\ Admissible(step.kind, step.batch, step.slot)
    /\ Effect(step, None)
    /\ \/ step.kind # "launch" /\ UNCHANGED evidence
       \/ /\ step.kind = "launch"
          /\ \E outcome \in Outcome : evidence' = [evidence EXCEPT ![step.batch] = [@ EXCEPT ![step.slot] = outcome]]
    /\ Committed(step)
    /\ UNCHANGED <<disk, fixed>>

BatchSteps == {Step(kind, b, s) : kind \in {"enqueue", "launch", "finalize"}, b \in Batch, s \in Slot}
              \cup {Step("settle", b, None) : b \in Batch}

OtherCommit ==
    /\ \E b \in Batch :
         \/ \E route \in {"manual", "model"} :
              \E version \in Pinnable(route) : Bind(b, route, version)
         \/ Plan(b)
         \/ Respond(b)
         \/ RunAfterwards(b)
         \/ \E i \in DOMAIN analyses[b] : \E verdict \in {"approved", "vetoed", "obliged"} :
              Opinion(b, i, verdict)
    /\ Committed(Stop)
    /\ UNCHANGED evidence

OtherEdit == Edit /\ UNCHANGED <<draft, evidence, call>>

AnalyserSends(a) ==
    /\ Send(a)
    /\ draft' = [Outdated EXCEPT ![a] = None]
    /\ call' = [c \in Caller |-> Sees(c, Step(draft[a].kind, draft[a].batch, None))]
    /\ UNCHANGED evidence

AnalyserStep(a) ==
    \/ (\E b \in Batch : Read(a, b)) /\ UNCHANGED <<evidence, call>>
    \/ Drop(a) /\ UNCHANGED <<evidence, call>>
    \/ AnalyserSends(a)

Init ==
    \E h \in Start :
        /\ code = h.code /\ imported = {h.code}
        /\ binding = h.binding /\ asked = [b \in Batch |-> None] /\ jobs = h.jobs /\ settled = h.settled
        /\ analyses = [b \in Batch |-> << >>]
        /\ broken = {}
        /\ report = h.report /\ planned = h.design /\ spare = h.spare /\ crew = h.crew
        /\ draft = [a \in Analyser |-> None]
        /\ evidence = [b \in Batch |-> [s \in Slot |-> None]]
        /\ call = [c \in Caller |-> Idle]

Next ==
    \/ \E c \in Caller : CallStep(c)
    \/ \E a \in Analyser : AnalyserStep(a)
    \/ \E step \in BatchSteps : Elsewhere(step)
    \/ OtherCommit
    \/ OtherEdit

\* Every call that was begun goes on, and somebody keeps calling.
Fairness == \A c \in Caller : WF_vars(CallStep(c))

Spec == Init /\ [][Next]_vars /\ Fairness

-----------------------------------------------------------------------------
\* Properties.

\* A call starts no attempt beyond its budget, although the second decision
\* and the routine that performs it read a log that others may have moved.
AttemptsWithinBudget == \A c \in Caller : call[c].spent <= Budget[c]

\* A report that names a command names the step of the call, the one command
\* that is new, even where another process finalized first, and it counts an
\* attempt exactly if this call started it.  A blocked report counts none; it
\* says that something was applied whoever committed, so it may leave out an
\* attempt that this call started, but then it does not say that nothing was
\* applied.
ReportIsTrue ==
    \A c \in Caller : Reports(c) =>
        /\ ~Blocked(c) => call[c].first = "step" /\ Consumed(c) = call[c].spent
        /\ Consumed(c) <= call[c].spent
        /\ call[c].spent > 0 => Applied(c)

\* The replay accepts the analyses of every batch, and a pack-bound batch is
\* analysed once, however many controllers race.
AnalysedOnce == \A b \in Batch : Accepts(b) /\ (IsPack(b) => Len(analyses[b]) <= 1)

\* The code that a pack's binding pins reproduces the protocol and every
\* analysis: verification finds a mismatch only if the code on the disk is not
\* the pinned one, although the code may change between loading, computing and
\* committing.
PackReportsReproduce ==
    \A b \in Batch : IsPack(b) =>
        Recompiles(b) /\ \A i \in DOMAIN analyses[b] : Matches(b, analyses[b][i])

\* An admitted pack claim is no stronger than its report: a confirmatory claim
\* discloses everything that applies and deviates nowhere else, a conclusion has
\* an interval and an effect or covers the analysed units only, and with one more
\* field filled in truthfully the same claim would be admitted too.
ClaimsWithinReport ==
    \A b \in Batch : IsPack(b) /\ analyses[b] # << >> =>
        /\ report.mode = "confirmatory" =>
             /\ planned.mode = "confirmatory"
             /\ \A f \in Field : report.status[f] # "not_supplied"
             /\ report.differs \subseteq NotApplicable(planned)
             /\ Listed(report) = {} /\ report.holds
        /\ report.outcome # "inconclusive" =>
             \/ Estimated(report)
             \/ report.mode = "descriptive" /\ UnitsOnly(planned)
        /\ \A f \in Field \ report.differs :
             report.status[f] = "not_supplied" => WithinCeiling(FilledIn(report, f), planned)

\* Where the study needs a person: competing batches, a lost attempt, or an
\* opinion.
NeedsHuman ==
    \/ Cardinality(OpenBatches) > 1
    \/ Cardinality(Mechanical) > 1
    \/ \E b \in Batch : Lost(b)
    \/ Actions \cap {"replan", "paper_candidate"} # {}

\* An analysis that no caller can have admitted now.
Inadmissible(b) ==
    \A memory \in Memory(b) :
        ~(Prepares(b, memory) /\ \E r \in Reviewer : MayAnalyse(b, Entry(b, memory, r)))

Advanced(b) ==
    \/ ~Planned(b)
    \/ settled[b] = "failed"
    \/ /\ settled[b] = "completed"
       /\ \/ b \in broken
          \/ analyses[b] = << >> /\ Inadmissible(b)
          \/ /\ analyses[b] # << >>
             /\ \/ Len(analyses[b]) > 1
                \/ analyses[b][1].assigned > 0

Served == \E c \in crew \cap Caller : Budget[c] >= 1 /\ Names[c] # None

\* If somebody keeps calling with a budget and with actors, the study gets
\* through its batches to their assigned reviews, or to where a person must
\* decide.
StudyAdvances == Served => <>[](NeedsHuman \/ \A b \in Batch : Advanced(b))

\* ADR 0020 and the command reference: a call sees the log before it writes,
\* and the same review is not assigned a second time.
AssignedOnce == \A b \in Batch : \A i \in DOMAIN analyses[b] : analyses[b][i].assigned <= 1

=============================================================================
