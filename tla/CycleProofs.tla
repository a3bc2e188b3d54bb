----------------------------- MODULE CycleProofs -----------------------------
(***************************************************************************)
(* Cycle.tla, and with it Analysis.tla, for every number of batches,       *)
(* versions of the code, analysers and callers, and every history to start *)
(* from.                                                                   *)
(***************************************************************************)
EXTENDS Cycle, FiniteSetTheorems, TLAPS

-----------------------------------------------------------------------------
\* Types.

Entries == [source : Version, computed : Version, reviewer : Reviewer \cup {None},
            assigned : Nat, opinion : {None, "approved", "vetoed", "obliged"}]

Requests == [pin : Version, stage : {"requested", "dispatched", "answered", "applied"}]

Drafts == [kind : {"preregister", "request", "dispatch", "apply", "plan", "admit", "assign"},
           batch : Batch, entry : Entries \cup [source : Version, computed : Version] \cup {None},
           revision : {"current", "passed"}]

OnSlot == {"enqueue", "launch", "finalize"}

Steps == [kind : OnSlot \cup {"settle", "admit", "assign", "stop"}, batch : Batch \cup {None},
          slot : Slot \cup {None}]

\* A step to perform says of which batch and slot.
Directed(step) ==
    /\ step \in Steps
    /\ step.kind # "stop" => step.batch \in Batch
    /\ step.kind \in OnSlot => step.slot \in Slot

Calls == [pc : {"idle", "decided", "marked", "confirmed", "checked", "stamped", "launched",
                "returning", "failed"},
          step : Steps, doing : Steps, since : {0, 1, 2}, first : {"none", "step", "other"},
          spent : {0, 1}, revision : {"none", "current", "passed"}, entry : Entries \cup {None}]

LogTyped ==
    /\ binding \in [Batch -> Recipes \cup {None}]
    /\ asked \in [Batch -> Requests \cup {None}]
    /\ jobs \in [Batch -> Plans \cup {None}]
    /\ settled \in [Batch -> {"completed", "failed", None}]
    /\ analyses \in [Batch -> Seq(Entries)]

CodeTyped == code \in Version /\ imported \subseteq Version

ActorsTyped ==
    /\ evidence \in [Batch -> [Slot -> Outcome]]
    /\ draft \in [Analyser -> Drafts \cup {None}]
    /\ call \in [Caller -> Calls]

-----------------------------------------------------------------------------
\* The inductive invariant.

\* A recipe precedes the plan, the plan the settlement, the settlement the
\* analyses; a pack's recipe was compiled by the code it pins, and a model's
\* proposal that was applied gave the recipe.
RecordOrdered ==
    \A b \in Batch :
        /\ jobs[b] # None => binding[b] # None
        /\ settled[b] # None => jobs[b] # None
        /\ analyses[b] # << >> => settled[b] = "completed"
        /\ IsPack(b) => binding[b].version \in Version /\ binding[b].compiled = binding[b].version
        /\ AcceptsProposal(b)

\* An analysis of a pack's batch was computed by the pinned code.
Pinned(b, entry) ==
    IsPack(b) => entry.source = binding[b].version /\ entry.computed = binding[b].version

Admitted(b, entry) ==
    /\ Pinned(b, entry)
    /\ IF IsPack(b) THEN WithinCeiling(report, planned) ELSE PinnedSource(b, entry.source)

AnalysesPinned ==
    \A b \in Batch :
        OneTaskEach(b) /\ \A i \in DOMAIN analyses[b] : Admitted(b, analyses[b][i])

\* What a prepared command still knows: some of it always, the rest while
\* nothing else is committed.
DraftKnows(d) ==
    /\ d.kind \in {"preregister", "apply", "request"} =>
         d.entry.source \in Version /\ d.entry.computed = d.entry.source
    /\ d.kind = "admit" => d.entry \in Entries
    /\ d.revision = "current" =>
         /\ d.kind \in {"dispatch", "apply"} =>
              asked[d.batch] # None /\ asked[d.batch].pin = d.entry.source
         /\ d.kind = "admit" => Pinned(d.batch, d.entry)
         /\ d.kind = "assign" => analyses[d.batch] # << >>

DraftsKnow == \A a \in Analyser : draft[a] # None => DraftKnows(draft[a])

\* The call has sent its command, or found that it was sent by somebody else.
Sent(k) == k.pc \in {"launched", "returning"}

\* The count of new commands, and what the call has spent.
Counted(c) ==
    LET k == call[c]
    IN  /\ k.since = 0 <=> k.first = "none"
        /\ k.pc \in {"idle", "decided"} => k.since = 0
        /\ k.pc # "idle" /\ Consumes(k.step) => Budget[c] >= 1
        /\ Sent(k) => k.spent = (IF Consumes(k.step) THEN 1 ELSE 0) /\ k.since # 0
                      /\ (k.since = 1 => k.first = "step")
        /\ k.pc = "failed" /\ k.spent # 0 => Consumes(k.step) /\ k.since # 0
        /\ ~Sent(k) /\ k.pc # "failed" => k.spent = 0

\* The step that is performed is the one that was decided, and what makes it
\* admissible still holds or was undone by the same step at other hands.
Performs(c) ==
    LET k == call[c]
        b == k.step.batch
        s == k.step.slot
    IN  /\ k.pc # "idle" => Directed(k.step) /\ k.step.kind # "stop"
        /\ k.pc \notin {"idle", "decided", "marked", "failed"} => k.doing = k.step
        /\ k.pc \in {"confirmed", "checked", "stamped"} /\ k.step.kind = "finalize" =>
             /\ jobs[b] # None
             /\ \/ jobs[b][s] = "unknown"
                \/ k.since # 0 /\ (k.since = 1 => k.first = "step")
        /\ k.pc \in {"checked", "stamped"} /\ k.step.kind = "admit" =>
             k.entry \in Entries /\ settled[b] = "completed" /\ Pinned(b, k.entry)

CallsKnow == \A c \in Caller : Counted(c) /\ Performs(c)

IInv == /\ LogTyped /\ CodeTyped /\ ActorsTyped /\ report \in Report /\ planned \in Design
        /\ RecordOrdered /\ AnalysesPinned /\ DraftsKnow /\ CallsKnow

-----------------------------------------------------------------------------
\* What a step may do to the log.

\* A protocol gets its recipe, perhaps by applying a proposal.
NewRecipe(b) ==
    /\ binding[b] = None /\ jobs[b] = None
    /\ \E r \in Recipes :
         /\ r.route = "pack" => r.version \in Version /\ r.compiled = r.version
         /\ binding' = [binding EXCEPT ![b] = r]
         /\ \/ asked' = asked
            \/ /\ asked[b] # None /\ r.route = "pack" /\ r.version = asked[b].pin
               /\ asked' = [asked EXCEPT ![b] = [@ EXCEPT !.stage = "applied"]]
    /\ UNCHANGED <<jobs, settled, analyses>>

NewRequest(b) ==
    /\ \E q \in Requests : q.stage # "applied" /\ asked' = [asked EXCEPT ![b] = q]
    /\ UNCHANGED <<binding, jobs, settled, analyses>>

Scheduled(b) ==
    /\ jobs[b] = None /\ binding[b] # None
    /\ jobs' = [jobs EXCEPT ![b] = NewPlan]
    /\ UNCHANGED <<recipes, settled, analyses>>

Moved(b) ==
    /\ jobs[b] # None
    /\ \E p \in Plans : jobs' = [jobs EXCEPT ![b] = p]
    /\ UNCHANGED <<recipes, settled, analyses>>

Settles(b) ==
    /\ jobs[b] # None /\ settled[b] = None
    /\ \E x \in {"completed", "failed"} : settled' = [settled EXCEPT ![b] = x]
    /\ UNCHANGED <<recipes, jobs, analyses>>

Annotates(b) ==
    /\ \E i \in DOMAIN analyses[b], e \in Entries :
         /\ e.source = analyses[b][i].source /\ e.computed = analyses[b][i].computed
         /\ analyses' = [analyses EXCEPT ![b] = [@ EXCEPT ![i] = e]]
    /\ UNCHANGED <<recipes, jobs, settled>>

Adds(b) ==
    /\ \E e \in Entries : Pinned(b, e) /\ MayAnalyse(b, e) /\ Analysed(b, e)
    /\ UNCHANGED <<recipes, jobs, settled>>

LogStep ==
    \/ UNCHANGED <<recipes, jobs, settled, analyses>>
    \/ \E b \in Batch : \/ NewRecipe(b) \/ NewRequest(b) \/ Scheduled(b) \/ Moved(b)
                         \/ Settles(b) \/ Annotates(b) \/ Adds(b)

LEMMA Distinct == /\ None \notin Recipes \cup Plans /\ None # "completed" /\ None # "failed"
                  /\ None \notin Version /\ NewPlan \in Plans
  BY AnalysisAssumption, StartAssumption DEF NewPlan, Plans

LEMMA LogStepTyped ==
  ASSUME LogTyped, LogStep
  PROVE  LogTyped'
<1>1. CASE UNCHANGED <<recipes, jobs, settled, analyses>>
  BY <1>1 DEF LogTyped, recipes
<1>2. CASE \E b \in Batch : NewRecipe(b)
  <2>1. PICK b \in Batch : NewRecipe(b)
    BY <1>2
  <2>2. binding' \in [Batch -> Recipes \cup {None}]
    BY <2>1 DEF LogTyped, NewRecipe
  <2>3. asked' \in [Batch -> Requests \cup {None}]
    <3>1. CASE asked' = asked
      BY <3>1 DEF LogTyped
    <3>2. CASE asked[b] # None /\ asked' = [asked EXCEPT ![b] = [@ EXCEPT !.stage = "applied"]]
      <4>1. asked[b] \in Requests
        BY <3>2 DEF LogTyped
      <4>2. [asked[b] EXCEPT !.stage = "applied"] \in Requests
        BY <4>1 DEF Requests
      <4>3. asked' = [asked EXCEPT ![b] = [asked[b] EXCEPT !.stage = "applied"]]
        BY <3>2
      <4> QED BY <4>2, <4>3 DEF LogTyped
    <3> QED BY <2>1, <3>1, <3>2 DEF NewRecipe
  <2> QED BY <2>1, <2>2, <2>3 DEF LogTyped, NewRecipe
<1>3. CASE \E b \in Batch : NewRequest(b)
  BY <1>3 DEF LogTyped, NewRequest
<1>4. CASE \E b \in Batch : Scheduled(b) \/ Moved(b)
  BY <1>4, Distinct DEF LogTyped, Scheduled, Moved, recipes
<1>5. CASE \E b \in Batch : Settles(b)
  BY <1>5 DEF LogTyped, Settles, recipes
<1>6. CASE \E b \in Batch : Annotates(b)
  <2>0. PICK b \in Batch : Annotates(b)
    BY <1>6
  <2>1. PICK i \in DOMAIN analyses[b], e \in Entries :
          analyses' = [analyses EXCEPT ![b] = [@ EXCEPT ![i] = e]]
    BY <2>0 DEF Annotates
  <2>2. analyses[b] \in Seq(Entries)
    BY DEF LogTyped
  <2>3. [analyses[b] EXCEPT ![i] = e] \in Seq(Entries)
    BY <2>2
  <2> QED BY <2>0, <2>1, <2>3 DEF LogTyped, Annotates, recipes
<1>7. CASE \E b \in Batch : Adds(b)
  <2>1. PICK b \in Batch, e \in Entries : Analysed(b, e)
    BY <1>7 DEF Adds
  <2>2. analyses[b] \in Seq(Entries)
    BY DEF LogTyped
  <2>3. Append(analyses[b], e) \in Seq(Entries)
    BY <2>2
  <2> QED BY <1>7, <2>1, <2>3 DEF LogTyped, Adds, Analysed, recipes
<1> QED BY <1>1, <1>2, <1>3, <1>4, <1>5, <1>6, <1>7 DEF LogStep

\* A recipe, a plan and a settlement last.
LEMMA LogLasts ==
  ASSUME LogTyped, LogStep, NEW b \in Batch
  PROVE  /\ binding[b] # None => binding'[b] = binding[b]
         /\ jobs[b] # None => jobs'[b] # None
         /\ settled[b] # None => settled'[b] = settled[b]
         /\ analyses[b] # << >> => analyses'[b] # << >>
<1>1. CASE UNCHANGED <<recipes, jobs, settled, analyses>>
  BY <1>1 DEF recipes
<1>2. CASE \E x \in Batch : NewRecipe(x) \/ NewRequest(x)
  BY <1>2 DEF NewRecipe, NewRequest, LogTyped
<1>3. CASE \E x \in Batch : Scheduled(x) \/ Moved(x)
  BY <1>3, Distinct DEF Scheduled, Moved, LogTyped, recipes
<1>4. CASE \E x \in Batch : Settles(x)
  BY <1>4 DEF Settles, LogTyped, recipes
<1>5. CASE \E x \in Batch : Annotates(x)
  <2>0. PICK x \in Batch : Annotates(x)
    BY <1>5
  <2>1. PICK i \in DOMAIN analyses[x], e \in Entries :
          analyses' = [analyses EXCEPT ![x] = [@ EXCEPT ![i] = e]]
    BY <2>0 DEF Annotates
  <2>2. analyses[x] \in Seq(Entries) /\ analyses[b] \in Seq(Entries)
    BY DEF LogTyped
  <2>3. Len([analyses[x] EXCEPT ![i] = e]) = Len(analyses[x]) /\ analyses[x] # << >>
    BY <2>2
  <2>4. x = b => analyses'[b] # << >>
    BY <2>1, <2>2, <2>3 DEF LogTyped
  <2> QED BY <2>0, <2>1, <2>4 DEF Annotates, LogTyped, recipes
<1>6. CASE \E x \in Batch : Adds(x)
  <2>1. PICK x \in Batch, e \in Entries : Analysed(x, e)
    BY <1>6 DEF Adds
  <2>2. Append(analyses[x], e) # << >>
    <3>1. analyses[x] \in Seq(Entries) /\ Len(<< >>) = 0
      BY DEF LogTyped
    <3>2. Len(Append(analyses[x], e)) = Len(analyses[x]) + 1 /\ Len(analyses[x]) \in Nat
      BY <3>1
    <3> QED BY <3>1, <3>2
  <2> QED BY <1>6, <2>1, <2>2 DEF Adds, Analysed, LogTyped, recipes
<1> QED BY <1>1, <1>2, <1>3, <1>4, <1>5, <1>6 DEF LogStep

\* Each step keeps the order of the record.
LEMMA OrderKept ==
  ASSUME LogTyped, RecordOrdered, LogStep
  PROVE  RecordOrdered'
<1> SUFFICES ASSUME NEW b \in Batch
             PROVE  /\ jobs'[b] # None => binding'[b] # None
                    /\ settled'[b] # None => jobs'[b] # None
                    /\ analyses'[b] # << >> => settled'[b] = "completed"
                    /\ IsPack(b)' => /\ binding'[b].version \in Version
                                     /\ binding'[b].compiled = binding'[b].version
                    /\ AcceptsProposal(b)'
  BY DEF RecordOrdered
<1>0. /\ jobs[b] # None => binding[b] # None
      /\ settled[b] # None => jobs[b] # None
      /\ analyses[b] # << >> => settled[b] = "completed"
      /\ IsPack(b) => binding[b].version \in Version /\ binding[b].compiled = binding[b].version
      /\ AcceptsProposal(b)
  BY DEF RecordOrdered
<1>1. CASE UNCHANGED <<recipes, jobs, settled, analyses>>
  BY <1>0, <1>1 DEF recipes, IsPack, AcceptsProposal
<1>2. CASE \E x \in Batch : NewRecipe(x)
  <2>1. PICK x \in Batch : NewRecipe(x)
    BY <1>2
  <2>2. CASE x # b
    <3>1. binding'[b] = binding[b] /\ asked'[b] = asked[b] /\ UNCHANGED <<jobs, settled, analyses>>
      BY <2>1, <2>2 DEF NewRecipe, LogTyped
    <3> QED BY <1>0, <3>1 DEF IsPack, AcceptsProposal
  <2>3. CASE x = b
    <3>1. PICK r \in Recipes :
            /\ r.route = "pack" => r.version \in Version /\ r.compiled = r.version
            /\ binding' = [binding EXCEPT ![b] = r]
            /\ \/ asked' = asked
               \/ /\ asked[b] # None /\ r.route = "pack" /\ r.version = asked[b].pin
                  /\ asked' = [asked EXCEPT ![b] = [@ EXCEPT !.stage = "applied"]]
      BY <2>1, <2>3 DEF NewRecipe
    <3>2. binding'[b] = r /\ r # None /\ binding[b] = None /\ jobs'[b] = None
          /\ UNCHANGED <<jobs, settled, analyses>>
      BY <2>1, <2>3, <3>1, Distinct DEF NewRecipe, LogTyped
    <3>3. AcceptsProposal(b)'
      <4>1. CASE asked' = asked
        BY <1>0, <3>2, <4>1 DEF AcceptsProposal, IsPack
      <4>2. CASE /\ asked[b] # None /\ r.route = "pack" /\ r.version = asked[b].pin
                 /\ asked' = [asked EXCEPT ![b] = [@ EXCEPT !.stage = "applied"]]
        <5>1. asked'[b] = [asked[b] EXCEPT !.stage = "applied"] /\ asked[b] \in Requests
          BY <4>2 DEF LogTyped
        <5>2. asked'[b].pin = asked[b].pin
          BY <5>1 DEF Requests
        <5> QED BY <3>2, <4>2, <5>2 DEF AcceptsProposal, IsPack
      <4> QED BY <3>1, <4>1, <4>2
    <3> QED BY <1>0, <3>1, <3>2, <3>3 DEF IsPack
  <2> QED BY <2>2, <2>3
<1>3. CASE \E x \in Batch : NewRequest(x)
  <2>1. PICK x \in Batch : NewRequest(x)
    BY <1>3
  <2>2. UNCHANGED <<binding, jobs, settled, analyses>>
    BY <2>1 DEF NewRequest
  <2>3. asked'[b] = asked[b] \/ asked'[b].stage # "applied"
    BY <2>1 DEF NewRequest, LogTyped
  <2> QED BY <1>0, <2>2, <2>3 DEF IsPack, AcceptsProposal
<1>4. CASE \E x \in Batch : Scheduled(x) \/ Moved(x)
  <2>1. /\ UNCHANGED <<binding, asked, settled, analyses>>
        /\ jobs[b] # None => jobs'[b] # None
        /\ jobs'[b] # None => binding[b] # None
    BY <1>0, <1>4, LogLasts DEF Scheduled, Moved, recipes, LogTyped
  <2> QED BY <1>0, <2>1 DEF IsPack, AcceptsProposal
<1>5. CASE \E x \in Batch : Settles(x)
  <2>1. /\ UNCHANGED <<binding, asked, jobs, analyses>>
        /\ settled[b] # None => settled'[b] = settled[b]
        /\ settled'[b] # None => jobs[b] # None
    BY <1>0, <1>5, LogLasts DEF Settles, recipes, LogTyped
  <2>2. analyses[b] # << >> => settled'[b] = "completed"
    BY <1>0, <2>1, Distinct
  <2> QED BY <1>0, <2>1, <2>2 DEF IsPack, AcceptsProposal
<1>6. CASE \E x \in Batch : Annotates(x)
  <2>1. PICK x \in Batch : Annotates(x)
    BY <1>6
  <2>2. UNCHANGED <<binding, asked, jobs, settled>>
    BY <2>1 DEF Annotates, recipes
  <2>3. analyses'[b] # << >> => analyses[b] # << >>
    <3>1. x # b => analyses'[b] = analyses[b]
      BY <2>1 DEF Annotates, LogTyped
    <3>2. x = b => DOMAIN analyses[b] # {}
      BY <2>1 DEF Annotates
    <3>3. DOMAIN << >> = {}
      OBVIOUS
    <3> QED BY <3>1, <3>2, <3>3
  <2> QED BY <1>0, <2>2, <2>3 DEF IsPack, AcceptsProposal
<1>7. CASE \E x \in Batch : Adds(x)
  <2>1. PICK x \in Batch : Adds(x)
    BY <1>7
  <2>2. UNCHANGED <<binding, asked, jobs, settled>>
    BY <2>1 DEF Adds, recipes
  <2>3. analyses'[b] # << >> => settled[b] = "completed"
    <3>1. x # b => analyses'[b] = analyses[b]
      BY <2>1 DEF Adds, Analysed, LogTyped
    <3>2. x = b => settled[b] = "completed"
      BY <2>1 DEF Adds, MayAnalyse, Settled
    <3> QED BY <1>0, <3>1, <3>2
  <2> QED BY <1>0, <2>2, <2>3 DEF IsPack, AcceptsProposal
<1> QED BY <1>1, <1>2, <1>3, <1>4, <1>5, <1>6, <1>7 DEF LogStep

\* An analysis that is added or annotated keeps its code.
LEMMA PinnedKept ==
  ASSUME LogTyped, RecordOrdered, AnalysesPinned, LogStep, UNCHANGED <<report, planned>>
  PROVE  AnalysesPinned'
<1> SUFFICES ASSUME NEW b \in Batch
             PROVE  /\ OneTaskEach(b)'
                    /\ \A i \in DOMAIN analyses'[b] : Admitted(b, analyses[b][i])'
  BY DEF AnalysesPinned
<1>0. OneTaskEach(b) /\ \A i \in DOMAIN analyses[b] : Admitted(b, analyses[b][i])
  BY DEF AnalysesPinned
<1>1. analyses[b] # << >> => binding'[b] = binding[b]
  BY Distinct, LogLasts DEF RecordOrdered
<1>2. CASE analyses'[b] = analyses[b]
  <2>1. CASE analyses[b] = << >>
    BY <1>2, <2>1 DEF OneTaskEach
  <2>2. CASE analyses[b] # << >>
    BY <1>0, <1>1, <1>2, <2>2 DEF OneTaskEach, Admitted, Pinned, IsPack, PinnedSource
  <2> QED BY <2>1, <2>2
<1>3. CASE Annotates(b)
  <2>1. PICK i \in DOMAIN analyses[b], e \in Entries :
          /\ e.source = analyses[b][i].source /\ e.computed = analyses[b][i].computed
          /\ analyses' = [analyses EXCEPT ![b] = [@ EXCEPT ![i] = e]]
    BY <1>3 DEF Annotates
  <2>2. analyses'[b] = [analyses[b] EXCEPT ![i] = e] /\ analyses[b] \in Seq(Entries)
    BY <2>1 DEF LogTyped
  <2>3. /\ DOMAIN analyses'[b] = DOMAIN analyses[b]
        /\ \A k \in DOMAIN analyses[b] :
             /\ analyses'[b][k].source = analyses[b][k].source
             /\ analyses'[b][k].computed = analyses[b][k].computed
    BY <2>1, <2>2
  <2>4. UNCHANGED binding
    BY <1>3 DEF Annotates, recipes
  <2> QED BY <1>0, <2>3, <2>4 DEF OneTaskEach, Task, Admitted, Pinned, IsPack, PinnedSource
<1>4. CASE Adds(b)
  <2>1. PICK e \in Entries : Pinned(b, e) /\ MayAnalyse(b, e) /\ Analysed(b, e)
    BY <1>4 DEF Adds
  <2>2. analyses'[b] = Append(analyses[b], e) /\ analyses[b] \in Seq(Entries)
    BY <2>1 DEF LogTyped, Analysed
  <2> DEFINE n == Len(analyses[b])
  <2>3. /\ n \in Nat /\ DOMAIN analyses[b] = 1 .. n /\ DOMAIN analyses'[b] = 1 .. n + 1
        /\ analyses'[b][n + 1] = e
        /\ \A k \in 1 .. n : analyses'[b][k] = analyses[b][k]
    BY <2>2
  <2>4. UNCHANGED binding
    BY <1>4 DEF Adds, recipes
  <2>5. \A k \in 1 .. n : Task(analyses[b][k]) # Task(e)
    BY <2>1, <2>3 DEF MayAnalyse, NewTask
  <2>6. IF IsPack(b) THEN WithinCeiling(report, planned) ELSE PinnedSource(b, e.source)
    BY <2>1 DEF MayAnalyse, MayAnalysePack, MayAnalyseBatch
  <2> HIDE DEF n
  <2>7. \A k \in 1 .. n + 1 : k \in 1 .. n \/ k = n + 1
    BY <2>3
  <2>8. OneTaskEach(b)'
    <3> SUFFICES ASSUME NEW i \in 1 .. n + 1, NEW j \in 1 .. n + 1,
                        Task(analyses'[b][i]) = Task(analyses'[b][j])
                 PROVE  i = j
      BY <2>3 DEF OneTaskEach, Task
    <3>1. \A k, m \in 1 .. n : Task(analyses[b][k]) = Task(analyses[b][m]) => k = m
      BY <1>0, <2>3 DEF OneTaskEach
    <3> QED BY <2>3, <2>5, <2>7, <3>1
  <2>9. \A k \in 1 .. n + 1 : Admitted(b, analyses'[b][k])
    BY <1>0, <2>1, <2>3, <2>6, <2>7 DEF Admitted
  <2> QED BY <2>3, <2>4, <2>8, <2>9 DEF Admitted, Pinned, IsPack, PinnedSource
<1>5. analyses'[b] = analyses[b] \/ Annotates(b) \/ Adds(b)
  <2>1. \/ UNCHANGED analyses
        \/ \E x \in Batch : Annotates(x) \/ Adds(x)
    BY DEF LogStep, NewRecipe, NewRequest, Scheduled, Moved, Settles
  <2>2. \A x \in Batch : x # b /\ (Annotates(x) \/ Adds(x)) => analyses'[b] = analyses[b]
    BY DEF LogTyped, Annotates, Adds, Analysed
  <2> QED BY <2>1, <2>2
<1> QED BY <1>2, <1>3, <1>4, <1>5

-----------------------------------------------------------------------------
\* Which steps these are.

\* A dispatched attempt gets its end from the one command that finalizes it.
Lasts(step) ==
    \A b \in Batch, s \in Slot :
        jobs[b] # None /\ jobs[b][s] = "unknown" =>
            jobs'[b][s] = "unknown" \/ step = Step("finalize", b, s)

PlansLast == \A b \in Batch : jobs[b] # None => jobs'[b] = jobs[b]

LEMMA AnnotatesLog ==
  ASSUME LogTyped, NEW b \in Batch, NEW i \in DOMAIN analyses[b],
         UNCHANGED <<recipes, jobs, settled>>,
         Assigned(b, i) \/ \E verdict \in {"approved", "vetoed", "obliged"} :
           Annotated(b, i, [analyses[b][i] EXCEPT !.opinion = verdict])
  PROVE  LogStep
<1>1. analyses[b][i] \in Entries
  BY DEF LogTyped
<1>2. CASE Assigned(b, i)
  <2> DEFINE e == [analyses[b][i] EXCEPT !.assigned = @ + 1]
  <2>1. e \in Entries /\ e.source = analyses[b][i].source /\ e.computed = analyses[b][i].computed
    BY <1>1 DEF Entries
  <2>2. analyses' = [analyses EXCEPT ![b] = [@ EXCEPT ![i] = e]]
    BY <1>2 DEF Assigned, Annotated
  <2> QED BY <2>1, <2>2 DEF LogStep, Annotates
<1>3. ASSUME NEW verdict \in {"approved", "vetoed", "obliged"},
             Annotated(b, i, [analyses[b][i] EXCEPT !.opinion = verdict])
      PROVE  LogStep
  <2> DEFINE e == [analyses[b][i] EXCEPT !.opinion = verdict]
  <2>1. e \in Entries /\ e.source = analyses[b][i].source /\ e.computed = analyses[b][i].computed
    BY <1>1 DEF Entries
  <2>2. analyses' = [analyses EXCEPT ![b] = [@ EXCEPT ![i] = e]]
    BY <1>3 DEF Annotated
  <2> QED BY <2>1, <2>2 DEF LogStep, Annotates
<1> QED BY <1>2, <1>3

\* The commands of the controllers.
LEMMA EffectLogs ==
  ASSUME LogTyped, ActorsTyped, NEW step, NEW entry,
         Directed(step), step.kind # "stop",
         Admissible(step.kind, step.batch, step.slot),
         step.kind = "admit" =>
           entry \in Entries /\ Pinned(step.batch, entry) /\ MayAnalyse(step.batch, entry),
         Effect(step, entry)
  PROVE  LogStep /\ Lasts(step)
<1> DEFINE b == step.batch
           s == step.slot
<1>0. b \in Batch /\ (step.kind \in OnSlot => s \in Slot) /\ step \in Steps
  BY DEF Directed
<1>1. ASSUME step.kind \in OnSlot
      PROVE  LogStep /\ Lasts(step)
  <2>1. jobs[b] # None /\ jobs[b] \in Plans
    BY <1>0, <1>1 DEF Admissible, Open, Planned, OnSlot, LogTyped
  <2>2. PICK x \in {"queued", "unknown"} \cup Outcome :
          /\ jobs' = [jobs EXCEPT ![b] = [@ EXCEPT ![s] = x]]
          /\ UNCHANGED <<recipes, settled, analyses>>
    <3>1. CASE step.kind = "enqueue"
      BY <3>1 DEF Effect
    <3>2. CASE step.kind = "launch"
      BY <3>2 DEF Effect
    <3>3. CASE step.kind = "finalize"
      <4>1. evidence[b][s] \in Outcome
        BY <1>0, <1>1 DEF ActorsTyped
      <4> QED BY <3>3, <4>1 DEF Effect
    <3> QED BY <1>1, <3>1, <3>2, <3>3 DEF OnSlot
  <2>3. [jobs[b] EXCEPT ![s] = x] \in Plans
    BY <1>0, <1>1, <2>1, <2>2 DEF Plans
  <2>4. LogStep
    BY <1>0, <2>1, <2>2, <2>3 DEF LogStep, Moved
  <2>5. Lasts(step)
    <3> SUFFICES ASSUME NEW b1 \in Batch, NEW s1 \in Slot, jobs[b1] # None,
                        jobs[b1][s1] = "unknown", jobs'[b1][s1] # "unknown"
                 PROVE  step = Step("finalize", b1, s1)
      BY DEF Lasts
    <3>1. b1 = b
      BY <1>0, <2>2 DEF LogTyped
    <3>2. jobs'[b] = [jobs[b] EXCEPT ![s] = x]
      BY <1>0, <2>2 DEF LogTyped
    <3>3. s1 = s
      BY <2>1, <3>1, <3>2 DEF Plans
    <3>4. step.kind # "enqueue"
      BY <1>0, <3>1, <3>3 DEF Admissible, Status
    <3>5. step.kind # "launch"
      BY <1>0, <3>1, <3>3 DEF Admissible
    <3> QED BY <1>0, <1>1, <3>1, <3>3, <3>4, <3>5 DEF OnSlot, Step, Steps
  <2> QED BY <2>4, <2>5
<1>2. CASE step.kind = "settle"
  <2>1. jobs[b] # None /\ settled[b] = None
    BY <1>2 DEF Admissible, Open, Planned
  <2>2. /\ \E x \in {"completed", "failed"} : settled' = [settled EXCEPT ![b] = x]
        /\ UNCHANGED <<recipes, jobs, analyses>>
    BY <1>2 DEF Effect
  <2> QED BY <1>0, <2>1, <2>2 DEF LogStep, Settles, Lasts
<1>3. CASE step.kind = "admit"
  <2>1. Analysed(b, entry) /\ UNCHANGED <<recipes, jobs, settled>>
    BY <1>3 DEF Effect
  <2> QED BY <1>0, <1>3, <2>1 DEF LogStep, Adds, Lasts
<1>4. CASE step.kind = "assign"
  <2>1. Assigned(b, 1) /\ UNCHANGED <<recipes, jobs, settled>>
    BY <1>4 DEF Effect
  <2>2. 1 \in DOMAIN analyses[b]
    <3>1. analyses[b] \in Seq(Entries) /\ analyses[b] # << >>
      BY <1>0, <1>4 DEF LogTyped, Admissible
    <3> QED BY <3>1
  <2>3. LogStep
    BY <1>0, <2>1, <2>2, AnnotatesLog
  <2> QED BY <2>1, <2>3 DEF Lasts
<1> QED BY <1>0, <1>1, <1>2, <1>3, <1>4 DEF Steps

\* The commands of the analysers.
LEMMA SendLogs ==
  ASSUME LogTyped, ActorsTyped, DraftsKnow, NEW a \in Analyser, Send(a)
  PROVE  LogStep /\ PlansLast
<1> DEFINE d == draft[a]
           b == d.batch
<1>0. d # None /\ d \in Drafts /\ b \in Batch /\ DraftKnows(d) /\ Sendable(d)
      /\ d.revision = "current"
  BY DEF Send, Sendable, ActorsTyped, Drafts, DraftsKnow
<1>1. ASSUME d.kind \in {"preregister", "apply"}, Bound(b, d.entry),
             UNCHANGED <<jobs, settled, analyses>>,
             d.kind = "preregister" => UNCHANGED asked,
             d.kind = "apply" => Reached(b, "applied")
      PROVE  LogStep /\ PlansLast
  <2> DEFINE r == Recipe("pack", d.entry.source, d.entry.computed)
  <2>1. /\ binding[b] = None /\ jobs[b] = None
        /\ d.entry.source \in Version /\ d.entry.computed = d.entry.source
    BY <1>0, <1>1 DEF Sendable, MayBind, Planned, DraftKnows
  <2>2. r \in Recipes /\ r.route = "pack" /\ r.version = d.entry.source
        /\ r.version \in Version /\ r.compiled = r.version
    BY <2>1 DEF Recipe, Recipes
  <2>3. binding' = [binding EXCEPT ![b] = r]
    BY <1>1 DEF Bound
  <2>4. \/ asked' = asked
        \/ /\ asked[b] # None /\ r.version = asked[b].pin
           /\ asked' = [asked EXCEPT ![b] = [@ EXCEPT !.stage = "applied"]]
    <3>1. CASE d.kind = "apply"
      BY <1>0, <1>1, <2>2, <3>1 DEF Reached, DraftKnows
    <3> QED BY <1>1, <3>1
  <2> HIDE DEF r
  <2>5. NewRecipe(b)
    BY <1>1, <2>1, <2>2, <2>3, <2>4 DEF NewRecipe
  <2> QED BY <1>0, <1>1, <2>5 DEF LogStep, PlansLast
<1>2. ASSUME d.kind = "request",
             asked' = [asked EXCEPT ![b] = [pin |-> d.entry.source, stage |-> "requested"]],
             UNCHANGED <<binding, jobs, settled, analyses>>
      PROVE  LogStep /\ PlansLast
  <2>1. [pin |-> d.entry.source, stage |-> "requested"] \in Requests
    BY <1>0, <1>2 DEF DraftKnows, Requests
  <2>2. NewRequest(b)
    BY <1>2, <2>1 DEF NewRequest
  <2> QED BY <1>0, <1>2, <2>2 DEF LogStep, PlansLast
<1>3. ASSUME d.kind = "dispatch", Reached(b, "dispatched"),
             UNCHANGED <<binding, jobs, settled, analyses>>
      PROVE  LogStep /\ PlansLast
  <2>1. asked[b] \in Requests
    BY <1>0, <1>3 DEF DraftKnows, LogTyped
  <2> DEFINE q == [asked[b] EXCEPT !.stage = "dispatched"]
  <2>2. q \in Requests /\ q.stage = "dispatched"
    BY <2>1 DEF Requests
  <2>3. asked' = [asked EXCEPT ![b] = q]
    BY <1>3 DEF Reached
  <2>4. NewRequest(b)
    BY <1>3, <2>2, <2>3 DEF NewRequest
  <2> QED BY <1>0, <1>3, <2>4 DEF LogStep, PlansLast
<1>4. ASSUME d.kind = "plan", jobs' = [jobs EXCEPT ![b] = NewPlan],
             UNCHANGED <<recipes, settled, analyses>>
      PROVE  LogStep /\ PlansLast
  <2>1. binding[b] # None /\ jobs[b] = None
    BY <1>0, <1>4 DEF Sendable, MayPlan, Planned
  <2> QED BY <1>0, <1>4, <2>1 DEF LogStep, Scheduled, PlansLast, LogTyped
<1>5. ASSUME d.kind = "admit", Analysed(b, d.entry), UNCHANGED <<recipes, jobs, settled>>
      PROVE  LogStep /\ PlansLast
  <2>1. d.entry \in Entries /\ Pinned(b, d.entry) /\ MayAnalyse(b, d.entry)
    BY <1>0, <1>5 DEF Sendable, DraftKnows
  <2> QED BY <1>0, <1>5, <2>1 DEF LogStep, Adds, PlansLast
<1>6. ASSUME d.kind = "assign", Assigned(b, 1), UNCHANGED <<recipes, jobs, settled>>
      PROVE  LogStep /\ PlansLast
  <2>1. analyses[b] \in Seq(Entries) /\ analyses[b] # << >>
    BY <1>0, <1>6 DEF DraftKnows, LogTyped
  <2>2. 1 \in DOMAIN analyses[b]
    BY <2>1
  <2> QED BY <1>0, <1>6, <2>2, AnnotatesLog DEF PlansLast
<1> HIDE DEF d, b
<1> QED BY <1>1, <1>2, <1>3, <1>4, <1>5, <1>6 DEF Send, d, b, recipes

\* What others commit.
LEMMA OthersLog ==
  ASSUME LogTyped, OtherCommit
  PROVE  LogStep /\ PlansLast
<1>1. CASE \E b \in Batch : \E route \in {"manual", "model"} :
             \E version \in Pinnable(route) : Bind(b, route, version)
  <2>1. PICK b \in Batch, route \in {"manual", "model"} :
          \E version \in Pinnable(route) : Bind(b, route, version)
    BY <1>1
  <2>2. PICK version \in Pinnable(route) : Bind(b, route, version)
    BY <2>1
  <2> DEFINE r == Recipe(route, version, None)
  <2>3. r \in Recipes /\ r.route # "pack"
    BY <2>1, <2>2 DEF Recipe, Recipes, Pinnable
  <2>4. NewRecipe(b)
    BY <2>2, <2>3 DEF NewRecipe, Bind, MayBind, Planned
  <2> QED BY <2>2, <2>4 DEF LogStep, PlansLast, Bind
<1>2. CASE \E b \in Batch : Plan(b)
  BY <1>2 DEF LogStep, Scheduled, PlansLast, Plan, MayPlan, Planned, LogTyped
<1>3. CASE \E b \in Batch : Respond(b)
  <2>1. PICK b \in Batch : Respond(b)
    BY <1>3
  <2>2. asked[b] \in Requests
    BY <2>1 DEF Respond, LogTyped
  <2> DEFINE q == [asked[b] EXCEPT !.stage = "answered"]
  <2>3. q \in Requests /\ q.stage = "answered"
    BY <2>2 DEF Requests
  <2>4. asked' = [asked EXCEPT ![b] = q]
    BY <2>1 DEF Respond
  <2>5. NewRequest(b)
    BY <2>1, <2>3, <2>4 DEF NewRequest, Respond
  <2> QED BY <2>1, <2>5 DEF LogStep, PlansLast, Respond
<1>4. CASE \E b \in Batch : RunAfterwards(b)
  BY <1>4 DEF LogStep, PlansLast, RunAfterwards
<1>5. CASE \E b \in Batch : \E i \in DOMAIN analyses[b] :
             \E verdict \in {"approved", "vetoed", "obliged"} : Opinion(b, i, verdict)
  <2>1. PICK b \in Batch : \E i \in DOMAIN analyses[b] :
             \E verdict \in {"approved", "vetoed", "obliged"} : Opinion(b, i, verdict)
    BY <1>5
  <2>2. PICK i \in DOMAIN analyses[b] :
             \E verdict \in {"approved", "vetoed", "obliged"} : Opinion(b, i, verdict)
    BY <2>1
  <2>3. /\ UNCHANGED <<recipes, jobs, settled>>
        /\ \E verdict \in {"approved", "vetoed", "obliged"} :
             Annotated(b, i, [analyses[b][i] EXCEPT !.opinion = verdict])
    BY <2>2 DEF Opinion
  <2>4. LogStep
    BY <2>2, <2>3, AnnotatesLog
  <2> QED BY <2>3, <2>4 DEF PlansLast
<1> QED BY <1>1, <1>2, <1>3, <1>4, <1>5 DEF OtherCommit

-----------------------------------------------------------------------------
\* What is prepared, and what is decided.

LEMMA EntryIsPinned ==
  ASSUME LogTyped, CodeTyped, RecordOrdered, NEW b \in Batch, NEW memory \in Memory(b),
         Prepares(b, memory), NEW reviewer \in Reviewer \cup {None}
  PROVE  Entry(b, memory, reviewer) \in Entries /\ Pinned(b, Entry(b, memory, reviewer))
<1>1. memory \in Version /\ code \in Version
  BY DEF CodeTyped, Memory, Loaded
<1>2. IsPack(b) => binding[b].version \in Version /\ memory = binding[b].version
  BY DEF RecordOrdered, Prepares, Pins
<1> QED BY <1>1, <1>2 DEF Entry, Entries, Pinned, Hooks

\* What an analyser prepares is true of the log that it reads.
LEMMA ReadKnows ==
  ASSUME LogTyped, CodeTyped, RecordOrdered, NEW a \in Analyser, NEW b \in Batch, Read(a, b)
  PROVE  \E d \in Drafts : DraftKnows(d) /\ draft' = [draft EXCEPT ![a] = d]
<1>1. \A memory \in Loaded : memory = code /\ memory \in Version
  BY DEF Loaded, CodeTyped
<1>2. ASSUME NEW kind \in {"preregister", "request", "dispatch", "apply", "plan"},
             NEW v \in Version, Prepare(a, kind, b, [source |-> v, computed |-> v]),
             kind \in {"dispatch", "apply"} => asked[b] # None /\ asked[b].pin = v
      PROVE  \E d \in Drafts : DraftKnows(d) /\ draft' = [draft EXCEPT ![a] = d]
  <2> DEFINE d == Draft(kind, b, [source |-> v, computed |-> v])
  <2>1. d \in Drafts /\ DraftKnows(d)
    BY <1>2 DEF Draft, Drafts, DraftKnows
  <2> QED BY <1>2, <2>1 DEF Prepare
<1>3. CASE Compile(a, b)
  BY <1>1, <1>2, <1>3 DEF Compile, Pins, Hooks
<1>4. CASE Ask(a, b)
  BY <1>1, <1>2, <1>4 DEF Ask, Pins, Hooks
<1>5. CASE Validate(a, b)
  BY <1>1, <1>2, <1>5 DEF Validate, Pins, Hooks
<1>6. ASSUME NEW kind \in {"dispatch", "apply"}, OnProposal(a, kind, b)
      PROVE  \E d \in Drafts : DraftKnows(d) /\ draft' = [draft EXCEPT ![a] = d]
  <2>1. asked[b] # None /\ asked[b].pin = code
        /\ Prepare(a, kind, b, [source |-> code, computed |-> code])
    BY <1>1, <1>6 DEF OnProposal, Pins, Hooks, Loaded
  <2> QED BY <1>1, <1>2, <2>1 DEF CodeTyped
<1>7. CASE DispatchProposal(a, b) \/ ApplyProposal(a, b)
  BY <1>6, <1>7 DEF DispatchProposal, ApplyProposal
<1>8. CASE Analyse(a, b)
  <2>1. PICK memory \in Memory(b) :
          Prepares(b, memory) /\ Prepare(a, "admit", b, Entry(b, memory, Names[a]))
    BY <1>8 DEF Analyse
  <2> DEFINE e == Entry(b, memory, Names[a])
             d == Draft("admit", b, e)
  <2>2. e \in Entries /\ Pinned(b, e)
    BY <2>1, EntryIsPinned, AnalysisAssumption
  <2>3. draft' = [draft EXCEPT ![a] = d]
    BY <2>1 DEF Prepare
  <2> HIDE DEF e
  <2>4. d \in Drafts /\ DraftKnows(d)
    BY <2>2 DEF Draft, Drafts, DraftKnows
  <2> QED BY <2>3, <2>4
<1>9. CASE NameReviewer(a, b)
  <2> DEFINE d == Draft("assign", b, None)
  <2>1. analyses[b] # << >> /\ draft' = [draft EXCEPT ![a] = d]
    BY <1>9 DEF NameReviewer, Prepare
  <2>2. d \in Drafts /\ DraftKnows(d)
    BY <2>1 DEF Draft, Drafts, DraftKnows
  <2> QED BY <2>1, <2>2
<1> QED BY <1>3, <1>4, <1>5, <1>7, <1>8, <1>9 DEF Read

LEMMA FirstOf ==
  ASSUME NEW slots \in SUBSET Slot, slots # {}
  PROVE  First(slots) \in slots
BY DEF First, Slot

\* The decision is about a batch, and it finalizes only a dispatched attempt.
LEMMA DecisionIsDirected ==
  LET step == Decision
  IN  /\ Directed(step)
      /\ step.kind = "finalize" => jobs[step.batch] # None /\ jobs[step.batch][step.slot] = "unknown"
<1> DEFINE Fine(step) ==
             /\ Directed(step)
             /\ step.kind = "finalize" =>
                  jobs[step.batch] # None /\ jobs[step.batch][step.slot] = "unknown"
<1>1. Fine(Stop)
  BY DEF Directed, Stop, Step, Steps, OnSlot
<1>2. ASSUME NEW b \in Batch, NEW kind \in {"enqueue", "launch"}, NEW s \in Slot
      PROVE  Fine(Step(kind, b, s))
  BY DEF Directed, Step, Steps, OnSlot
<1>3. ASSUME NEW b \in Batch, NEW kind \in {"settle", "admit", "assign"}
      PROVE  Fine(Step(kind, b, None))
  BY DEF Directed, Step, Steps, OnSlot
<1>4. ASSUME NEW b \in OpenBatches
      PROVE  Fine(BatchStep(b))
  <2>0. b \in Batch /\ jobs[b] # None
    BY DEF OpenBatches, Open, Planned
  <2> DEFINE unknown == Slots(b, {"unknown"})
             waiting == Slots(b, {"pending", "queued"})
  <2>1. unknown \in SUBSET Slot /\ waiting \in SUBSET Slot
    BY DEF Slots
  <2>2. ASSUME unknown # {}
        PROVE  Fine(Step("finalize", b, First(unknown)))
    <3>1. First(unknown) \in unknown /\ First(unknown) \in Slot
      BY <2>1, <2>2, FirstOf
    <3>2. Status(b, First(unknown)) = "unknown"
      BY <3>1 DEF Slots
    <3>3. jobs[b][First(unknown)] = "unknown"
      BY <3>2 DEF Status
    <3> QED BY <2>0, <3>1, <3>3 DEF Directed, Step, Steps, OnSlot
  <2>3. waiting # {} => First(waiting) \in Slot
    BY <2>1, FirstOf
  <2> HIDE DEF Fine
  <2> QED BY <1>1, <1>2, <1>3, <2>0, <2>2, <2>3 DEF BatchStep
<1>5. ASSUME NEW b \in Mechanical
      PROVE  Fine(AfterSettlement(b))
  <2>1. b \in Batch
    BY DEF Mechanical
  <2> HIDE DEF Fine
  <2> QED BY <1>1, <1>3, <2>1 DEF AfterSettlement
<1>6. OpenBatches # {} => (CHOOSE b \in OpenBatches : TRUE) \in OpenBatches
  OBVIOUS
<1>7. Cardinality(Mechanical) = 1 => (CHOOSE b \in Mechanical : TRUE) \in Mechanical
  <2>1. Mechanical = {} => Cardinality(Mechanical) = 0
    BY FS_EmptySet
  <2> QED BY <2>1
<1>8. Fine(Decision)
  <2> HIDE DEF Fine
  <2> QED BY <1>1, <1>4, <1>5, <1>6, <1>7 DEF Decision
<1> QED BY <1>8

-----------------------------------------------------------------------------
\* The calls.

Knows(c) == call[c] \in Calls /\ Counted(c) /\ Performs(c)

LEMMA IdleKnows ==
  ASSUME NEW c \in Caller, call'[c] = Idle
  PROVE  Knows(c)'
<1>1. Idle \in Calls
  BY DEF Idle, Calls, Stop, Step, Steps
<1>2. /\ Idle.pc = "idle" /\ Idle.since = 0 /\ Idle.first = "none" /\ Idle.spent = 0
  BY DEF Idle
<1>3. Counted(c)'
  BY <1>2 DEF Counted, Sent
<1>4. Performs(c)'
  BY <1>2 DEF Performs
<1> QED BY <1>1, <1>3, <1>4 DEF Knows

\* A call that fails forgets nothing that its report needs.
LEMMA FailKnows ==
  ASSUME ActorsTyped, CallsKnow, NEW c \in Caller, Fails(c), call[c].pc # "idle"
  PROVE  Knows(c)' /\ \A x \in Caller \ {c} : call'[x] = call[x]
<1> DEFINE k == call[c]
           n == [k EXCEPT !.pc = "failed"]
<1>0. k \in Calls /\ call \in [Caller -> Calls] /\ Counted(c) /\ Performs(c) /\ k.pc # "idle"
  BY DEF ActorsTyped, CallsKnow
<1>1. call'[c] = n /\ \A x \in Caller \ {c} : call'[x] = call[x]
  BY <1>0 DEF Fails
<1>2. /\ n \in Calls /\ n.pc = "failed" /\ n.step = k.step /\ n.since = k.since
      /\ n.first = k.first /\ n.spent = k.spent
  BY <1>0 DEF Calls
<1> HIDE DEF n
<1>3. Counted(c)'
  BY <1>0, <1>1, <1>2 DEF Counted, Sent
<1>4. Performs(c)'
  BY <1>0, <1>1, <1>2 DEF Performs
<1> QED BY <1>1, <1>2, <1>3, <1>4 DEF Knows

\* A step of a call that sends nothing.
LEMMA OwnKnows ==
  ASSUME LogTyped, CodeTyped, ActorsTyped, RecordOrdered, CallsKnow, NEW c \in Caller, Own(c),
         UNCHANGED <<binding, jobs, settled>>
  PROVE  Knows(c)' /\ \A x \in Caller \ {c} : call'[x] = call[x]
<1> DEFINE k == call[c]
           b == k.step.batch
           s == k.step.slot
<1>0. k \in Calls /\ call \in [Caller -> Calls] /\ Counted(c) /\ Performs(c)
  BY DEF ActorsTyped, CallsKnow
<1>1. CASE Return(c)
  <2>1. call'[c] = Idle /\ \A x \in Caller \ {c} : call'[x] = call[x]
    BY <1>0, <1>1 DEF Return
  <2> QED BY <2>1, IdleKnows
<1>10. ASSUME Fails(c), At(c, "marked") \/ At(c, "confirmed") \/ At(c, "stamped")
       PROVE  Knows(c)' /\ \A x \in Caller \ {c} : call'[x] = call[x]
  BY <1>10, FailKnows DEF At
<1>2. CASE Decide(c)
  <2> DEFINE d == Decision
             n == [Idle EXCEPT !.pc = "decided", !.step = d]
  <2>1. Directed(d) /\ d.kind # "stop" /\ d \in Steps
        /\ (Consumes(d) => Budget[c] >= 1)
    BY <1>2, DecisionIsDirected DEF Decide, Permitted, Directed
  <2>2. call' = [call EXCEPT ![c] = n]
    BY <1>2 DEF Decide
  <2>3. call'[c] = n /\ \A x \in Caller \ {c} : call'[x] = call[x]
    BY <1>0, <2>2
  <2> HIDE DEF d
  <2>4. n \in Calls /\ n.pc = "decided" /\ n.step = d /\ n.since = 0 /\ n.first = "none" /\ n.spent = 0
    BY <2>1 DEF Idle, Calls, Stop, Step, Steps
  <2> HIDE DEF n
  <2>5. Counted(c)'
    BY <2>1, <2>3, <2>4 DEF Counted, Sent
  <2>6. Performs(c)'
    BY <2>1, <2>3, <2>4 DEF Performs
  <2> QED BY <2>3, <2>4, <2>5, <2>6 DEF Knows
<1>3. CASE Mark(c)
  <2> DEFINE n == [k EXCEPT !.pc = "marked"]
  <2>1. k.pc = "decided" /\ call'[c] = n /\ \A x \in Caller \ {c} : call'[x] = call[x]
    BY <1>0, <1>3 DEF Mark, At
  <2>2. n \in Calls /\ n.pc = "marked" /\ n.step = k.step /\ n.since = k.since
        /\ n.first = k.first /\ n.spent = k.spent
    BY <1>0 DEF Calls
  <2> HIDE DEF n
  <2>3. Counted(c)'
    BY <1>0, <2>1, <2>2 DEF Counted, Sent
  <2>4. Performs(c)'
    BY <1>0, <2>1, <2>2 DEF Performs
  <2> QED BY <2>1, <2>2, <2>3, <2>4 DEF Knows
<1>4. CASE At(c, "marked") /\ SameStep(Decision, k.step)
           /\ call' = [call EXCEPT ![c] = [@ EXCEPT !.pc = "confirmed", !.doing = Decision]]
  <2> DEFINE d == Decision
             n == [k EXCEPT !.pc = "confirmed", !.doing = d]
  <2>1. k.pc = "marked" /\ d = k.step /\ call'[c] = n
        /\ \A x \in Caller \ {c} : call'[x] = call[x]
    BY <1>0, <1>4 DEF SameStep, At
  <2>2. Directed(d) /\ d \in Steps
        /\ (d.kind = "finalize" => jobs[d.batch] # None /\ jobs[d.batch][d.slot] = "unknown")
    BY DecisionIsDirected DEF Directed
  <2> HIDE DEF d
  <2>3. n \in Calls /\ n.pc = "confirmed" /\ n.step = k.step /\ n.doing = d /\ n.since = k.since
        /\ n.first = k.first /\ n.spent = k.spent
    BY <1>0, <2>2 DEF Calls
  <2> HIDE DEF n
  <2>4. Counted(c)'
    BY <1>0, <2>1, <2>3 DEF Counted, Sent
  <2>5. Performs(c)'
    BY <1>0, <2>1, <2>2, <2>3 DEF Performs
  <2> QED BY <2>1, <2>3, <2>4, <2>5 DEF Knows
<1>5. ASSUME At(c, "confirmed"), NEW e \in Entries \cup {None}, Prepared(c, e),
             k.doing.kind = "finalize" => jobs[b] # None /\ jobs[b][s] = "unknown",
             k.doing.kind = "admit" => e \in Entries /\ settled[b] = "completed" /\ Pinned(b, e)
      PROVE  Knows(c)' /\ \A x \in Caller \ {c} : call'[x] = call[x]
  <2> DEFINE n == [k EXCEPT !.pc = "checked", !.entry = e]
  <2>1. k.pc = "confirmed" /\ k.doing = k.step /\ call'[c] = n
        /\ \A x \in Caller \ {c} : call'[x] = call[x]
    BY <1>0, <1>5 DEF Performs, Prepared, At
  <2>2. n \in Calls /\ n.pc = "checked" /\ n.step = k.step /\ n.doing = k.doing
        /\ n.since = k.since /\ n.first = k.first /\ n.spent = k.spent /\ n.entry = e
    BY <1>0, <1>5 DEF Calls
  <2> HIDE DEF n
  <2>3. Counted(c)'
    BY <1>0, <2>1, <2>2 DEF Counted, Sent
  <2>4. Performs(c)'
    BY <1>0, <1>5, <2>1, <2>2 DEF Performs, Pinned, IsPack
  <2> QED BY <2>1, <2>2, <2>3, <2>4 DEF Knows
<1>6. ASSUME At(c, "confirmed"), k.doing.kind = "finalize",
             ~Admissible("finalize", k.doing.batch, k.doing.slot),
             call' = [call EXCEPT ![c] = [@ EXCEPT !.pc = "returning"]]
      PROVE  Knows(c)' /\ \A x \in Caller \ {c} : call'[x] = call[x]
  <2> DEFINE n == [k EXCEPT !.pc = "returning"]
  <2>1. k.pc = "confirmed" /\ k.doing = k.step /\ call'[c] = n
        /\ \A x \in Caller \ {c} : call'[x] = call[x]
    BY <1>0, <1>6 DEF Performs, At
  <2>2. n \in Calls /\ n.pc = "returning" /\ n.step = k.step /\ n.doing = k.doing
        /\ n.since = k.since /\ n.first = k.first /\ n.spent = k.spent
    BY <1>0 DEF Calls
  <2>3. k.step.kind = "finalize" /\ k.since # 0 /\ (k.since = 1 => k.first = "step")
    BY <1>0, <1>6, <2>1 DEF Performs, Admissible, Planned
  <2>4. k.spent = 0 /\ ~Consumes(k.step)
    BY <1>0, <2>1, <2>3 DEF Counted, Sent, Consumes
  <2> HIDE DEF n
  <2>5. Counted(c)'
    BY <1>0, <2>1, <2>2, <2>3, <2>4 DEF Counted, Sent
  <2>6. Performs(c)'
    BY <1>0, <2>1, <2>2 DEF Performs
  <2> QED BY <2>1, <2>2, <2>5, <2>6 DEF Knows
<1>7. CASE Check(c) /\ ~Fails(c)
  <2> DEFINE d == k.doing
  <2>0. d = k.step /\ Directed(d) /\ d.kind # "stop" /\ At(c, "confirmed") /\ d.batch \in Batch
    BY <1>0, <1>7 DEF Check, At, Performs, Directed
  <2>1. CASE d.kind \in {"enqueue", "launch", "settle"}
    <3>1. Prepared(c, None)
      BY <1>7, <2>1 DEF Check
    <3> QED BY <1>5, <2>0, <2>1, <3>1
  <2>2. CASE d.kind = "finalize"
    <3>1. CASE Admissible(d.kind, d.batch, d.slot)
      <4>1. Prepared(c, None)
        BY <1>7, <2>2, <3>1 DEF Check
      <4>2. jobs[b] # None /\ jobs[b][s] = "unknown"
        BY <2>0, <2>2, <3>1 DEF Admissible, Planned
      <4> QED BY <1>5, <2>0, <2>2, <4>1, <4>2
    <3>2. CASE ~Admissible(d.kind, d.batch, d.slot)
      <4>1. call' = [call EXCEPT ![c] = [@ EXCEPT !.pc = "returning"]]
        BY <1>7, <2>2, <3>2 DEF Check
      <4> QED BY <1>6, <2>0, <2>2, <3>2, <4>1
    <3> QED BY <3>1, <3>2
  <2>3. CASE d.kind = "admit"
    <3>1. /\ Progress(d.batch) = "awaiting_analysis"
          /\ \E memory \in Memory(d.batch) :
               Prepares(d.batch, memory) /\ Prepared(c, Entry(d.batch, memory, Names[c]))
      BY <1>7, <2>3 DEF Check
    <3>2. PICK memory \in Memory(d.batch) :
               Prepares(d.batch, memory) /\ Prepared(c, Entry(d.batch, memory, Names[c]))
      BY <3>1
    <3> DEFINE e == Entry(d.batch, memory, Names[c])
    <3>3. e \in Entries /\ Pinned(d.batch, e)
      BY <2>0, <3>2, EntryIsPinned, CycleAssumption
    <3>4. settled[d.batch] = "completed"
      BY <2>0, <3>1 DEF Progress, LogTyped
    <3> HIDE DEF e
    <3>5. Prepared(c, e)
      BY <3>2 DEF e
    <3> QED BY <1>5, <2>0, <2>3, <3>3, <3>4, <3>5
  <2>4. CASE d.kind = "assign"
    <3>1. Prepared(c, None)
      BY <1>7, <2>4 DEF Check
    <3> QED BY <1>5, <2>0, <2>4, <3>1
  <2>5. d \in Steps
    BY <2>0 DEF Directed
  <2> QED BY <2>0, <2>1, <2>2, <2>3, <2>4, <2>5 DEF Steps, OnSlot
<1>8. CASE Stamp(c)
  <2> DEFINE n == [k EXCEPT !.pc = "stamped", !.revision = "current"]
  <2>1. k.pc = "checked" /\ call'[c] = n /\ \A x \in Caller \ {c} : call'[x] = call[x]
    BY <1>0, <1>8 DEF Stamp, At
  <2>2. n \in Calls /\ n.pc = "stamped" /\ n.step = k.step /\ n.doing = k.doing
        /\ n.since = k.since /\ n.first = k.first /\ n.spent = k.spent /\ n.entry = k.entry
    BY <1>0 DEF Calls
  <2> HIDE DEF n
  <2>3. Counted(c)'
    BY <1>0, <2>1, <2>2 DEF Counted, Sent
  <2>4. Performs(c)'
    BY <1>0, <2>1, <2>2 DEF Performs, Pinned, IsPack
  <2> QED BY <2>1, <2>2, <2>3, <2>4 DEF Knows
<1>9. \/ Return(c) \/ Decide(c) \/ Mark(c) \/ (Check(c) /\ ~Fails(c)) \/ Stamp(c)
      \/ Fails(c) /\ (At(c, "marked") \/ At(c, "confirmed") \/ At(c, "stamped"))
      \/ /\ At(c, "marked") /\ SameStep(Decision, k.step)
         /\ call' = [call EXCEPT ![c] = [@ EXCEPT !.pc = "confirmed", !.doing = Decision]]
  BY DEF Own, Confirm, Check, Refuse
<1> QED BY <1>1, <1>10, <1>2, <1>3, <1>4, <1>7, <1>8, <1>9

\* The log as a call sees it while others commit.
LEMMA SeesKnows ==
  ASSUME LogTyped, RecordOrdered, LogStep, NEW c \in Caller, Knows(c), NEW step, Lasts(step),
         call'[c] = Sees(c, step)
  PROVE  Knows(c)'
<1> DEFINE k == call[c]
           b == k.step.batch
           s == k.step.slot
           n == Sees(c, step)
<1>0. k \in Calls /\ Counted(c) /\ Performs(c)
  BY DEF Knows
<1>1. /\ n \in Calls /\ n.pc = k.pc /\ n.step = k.step /\ n.doing = k.doing
      /\ n.spent = k.spent /\ n.entry = k.entry
      /\ k.pc \in {"idle", "decided"} => n.since = k.since /\ n.first = k.first
      /\ k.pc \notin {"idle", "decided"} =>
           /\ n.since = (IF k.since = 0 THEN 1 ELSE 2)
           /\ n.first = (IF k.first # "none" THEN k.first
                         ELSE IF step = k.step THEN "step" ELSE "other")
  <2>1. CASE k.pc \in {"idle", "decided"}
    BY <1>0, <2>1 DEF Sees
  <2>2. CASE k.pc \notin {"idle", "decided"}
    <3> DEFINE since == IF k.since = 0 THEN 1 ELSE 2
               first == IF k.first # "none" THEN k.first
                        ELSE IF step = k.step THEN "step" ELSE "other"
    <3>1. n = [k EXCEPT !.since = since, !.first = first, !.revision = "passed"]
      BY <2>2 DEF Sees
    <3>2. since \in {0, 1, 2} /\ first \in {"none", "step", "other"}
      BY <1>0 DEF Calls
    <3> HIDE DEF since, first, n
    <3>3. /\ n \in Calls /\ n.pc = k.pc /\ n.step = k.step /\ n.doing = k.doing
          /\ n.spent = k.spent /\ n.entry = k.entry /\ n.since = since /\ n.first = first
      BY <1>0, <3>1, <3>2 DEF Calls
    <3> QED BY <2>2, <3>3 DEF since, first
  <2> QED BY <2>1, <2>2
<1> HIDE DEF n
<1>2. call'[c] = n
  BY DEF n
<1>3. Counted(c)'
  <2>1. n.since = 0 <=> n.first = "none"
    BY <1>0, <1>1 DEF Counted
  <2>2. n.pc \in {"idle", "decided"} => n.since = 0
    BY <1>0, <1>1 DEF Counted
  <2>3. Sent(n) => /\ n.spent = (IF Consumes(n.step) THEN 1 ELSE 0) /\ n.since # 0
                   /\ (n.since = 1 => n.first = "step")
    BY <1>0, <1>1 DEF Counted, Sent
  <2>4. /\ n.pc = "failed" /\ n.spent # 0 => Consumes(n.step) /\ n.since # 0
        /\ ~Sent(n) /\ n.pc # "failed" => n.spent = 0
    BY <1>0, <1>1 DEF Counted, Sent
  <2>5. n.pc # "idle" /\ Consumes(n.step) => Budget[c] >= 1
    BY <1>0, <1>1 DEF Counted
  <2> QED BY <1>2, <2>1, <2>2, <2>3, <2>4, <2>5 DEF Counted
<1>4. Performs(c)'
  <2>1. n.pc # "idle" => Directed(n.step) /\ n.step.kind # "stop"
    BY <1>0, <1>1 DEF Performs
  <2>2. n.pc \notin {"idle", "decided", "marked", "failed"} => n.doing = n.step
    BY <1>0, <1>1 DEF Performs
  <2>3. ASSUME n.pc \in {"confirmed", "checked", "stamped"}, n.step.kind = "finalize"
        PROVE  /\ jobs'[b] # None
               /\ \/ jobs'[b][s] = "unknown"
                  \/ n.since # 0 /\ (n.since = 1 => n.first = "step")
    <3>1. /\ b \in Batch /\ s \in Slot /\ jobs[b] # None /\ k.step \in Steps
          /\ \/ jobs[b][s] = "unknown"
             \/ k.since # 0 /\ (k.since = 1 => k.first = "step")
      BY <1>0, <1>1, <2>3 DEF Performs, Directed, OnSlot
    <3>2. jobs'[b] # None
      BY <3>1, LogLasts
    <3>3. n.since # 0 /\ (k.since # 0 => n.since = 2)
      BY <1>1, <2>3
    <3>4. CASE k.since = 0 /\ jobs'[b][s] # "unknown"
      <4>1. step = Step("finalize", b, s)
        BY <3>1, <3>4 DEF Lasts
      <4>2. step = k.step
        BY <1>1, <2>3, <3>1, <4>1 DEF Step, Steps
      <4>3. n.first = "step"
        BY <1>0, <1>1, <2>3, <3>4, <4>2 DEF Counted
      <4> QED BY <3>2, <3>3, <4>3
    <3> QED BY <3>2, <3>3, <3>4
  <2>4. ASSUME n.pc \in {"checked", "stamped"}, n.step.kind = "admit"
        PROVE  n.entry \in Entries /\ settled'[b] = "completed" /\ Pinned(b, n.entry)
               /\ binding'[b] = binding[b]
    <3>1. n.entry \in Entries /\ settled[b] = "completed" /\ Pinned(b, n.entry) /\ b \in Batch
      BY <1>0, <1>1, <2>4 DEF Performs, Directed
    <3>2. jobs[b] # None /\ binding[b] # None
      BY <3>1, Distinct DEF RecordOrdered
    <3> QED BY <3>1, <3>2, LogLasts, Distinct
  <2>5. n.step = k.step
    BY <1>1
  <2> HIDE DEF k
  <2> QED BY <1>2, <2>1, <2>2, <2>3, <2>4, <2>5 DEF Performs, Pinned, IsPack
<1> QED BY <1>1, <1>2, <1>3, <1>4 DEF Knows

\* A call that commits its command has met its budget, and the command is its
\* first new one or the second.
LEMMA CommitKnows ==
  ASSUME ActorsTyped, CallsKnow, NEW c \in Caller, Commit(c)
  PROVE  Knows(c)'
<1> DEFINE k == call[c]
           d == k.doing
           pc == IF d.kind = "launch" THEN "launched" ELSE "returning"
           spent == IF Consumes(d) THEN 1 ELSE 0
           seen == Sees(c, d)
           n == [seen EXCEPT !.pc = pc, !.spent = spent]
<1>0. k \in Calls /\ Counted(c) /\ Performs(c) /\ k.pc = "stamped"
  BY DEF ActorsTyped, CallsKnow, Commit, At
<1>1. d = k.step /\ Directed(d) /\ d.kind # "stop" /\ (Consumes(d) => Budget[c] >= 1)
  BY <1>0 DEF Performs, Counted
<1>2. call'[c] = n
  BY DEF Commit
<1>3. seen \in Calls /\ seen.step = k.step /\ seen.doing = k.doing
      /\ seen.since \in {1, 2} /\ (seen.since = 1 => seen.first = "step") /\ seen.first # "none"
  <2> DEFINE since == IF k.since = 0 THEN 1 ELSE 2
             first == IF k.first # "none" THEN k.first
                      ELSE IF d = k.step THEN "step" ELSE "other"
  <2>1. seen = [k EXCEPT !.since = since, !.first = first, !.revision = "passed"]
    BY <1>0 DEF Sees
  <2>2. since \in {1, 2} /\ first \in {"step", "other"} /\ (since = 1 => first = "step")
    BY <1>0, <1>1 DEF Calls, Counted
  <2> HIDE DEF since, first, seen
  <2> QED BY <1>0, <2>1, <2>2 DEF Calls
<1>4. pc \in {"launched", "returning"} /\ spent \in {0, 1}
  OBVIOUS
<1> HIDE DEF seen, pc, spent
<1>5. n \in Calls /\ n.pc = pc /\ n.spent = spent /\ n.step = k.step /\ n.doing = k.doing
      /\ n.since = seen.since /\ n.first = seen.first
  BY <1>3, <1>4 DEF Calls
<1> HIDE DEF n
<1>6. Counted(c)'
  BY <1>1, <1>2, <1>3, <1>4, <1>5 DEF Counted, Sent, spent
<1>7. Performs(c)'
  BY <1>1, <1>2, <1>4, <1>5 DEF Performs
<1> QED BY <1>2, <1>5, <1>6, <1>7 DEF Knows

\* The worker's end changes nothing that a call knows.
LEMMA WorkKnows ==
  ASSUME ActorsTyped, CallsKnow, NEW c \in Caller, Work(c)
  PROVE  /\ Knows(c)' /\ \A x \in Caller \ {c} : call'[x] = call[x]
         /\ evidence' \in [Batch -> [Slot -> Outcome]]
<1> DEFINE k == call[c]
           d == k.doing
<1>0. k \in Calls /\ Counted(c) /\ Performs(c) /\ k.pc = "launched" /\ call \in [Caller -> Calls]
      /\ evidence \in [Batch -> [Slot -> Outcome]]
  BY DEF ActorsTyped, CallsKnow, Work, At
<1>1. CASE Fails(c) /\ UNCHANGED evidence
  BY <1>0, <1>1, FailKnows
<1>2. ASSUME NEW outcome \in Outcome,
             evidence' = [evidence EXCEPT ![d.batch] = [@ EXCEPT ![d.slot] = outcome]],
             call' = [call EXCEPT ![c] = [@ EXCEPT !.pc = "returning"]]
      PROVE  /\ Knows(c)' /\ \A x \in Caller \ {c} : call'[x] = call[x]
             /\ evidence' \in [Batch -> [Slot -> Outcome]]
  <2> DEFINE n == [k EXCEPT !.pc = "returning"]
  <2>1. call'[c] = n /\ \A x \in Caller \ {c} : call'[x] = call[x]
    BY <1>0, <1>2
  <2>2. n \in Calls /\ n.pc = "returning" /\ n.step = k.step /\ n.doing = k.doing
        /\ n.since = k.since /\ n.first = k.first /\ n.spent = k.spent
    BY <1>0 DEF Calls
  <2> HIDE DEF n
  <2>3. Counted(c)'
    BY <1>0, <2>1, <2>2 DEF Counted, Sent
  <2>4. Performs(c)'
    BY <1>0, <2>1, <2>2 DEF Performs
  <2>5. evidence' \in [Batch -> [Slot -> Outcome]]
    BY <1>0, <1>2
  <2> QED BY <2>1, <2>2, <2>3, <2>4, <2>5 DEF Knows
<1> QED BY <1>1, <1>2 DEF Work

-----------------------------------------------------------------------------
\* The prepared commands.

LEMMA DraftsSame ==
  ASSUME DraftsKnow, UNCHANGED <<draft, binding, asked, analyses>>
  PROVE  DraftsKnow'
BY DEF DraftsKnow, DraftKnows, Pinned, IsPack

LEMMA DraftsOutdated ==
  ASSUME ActorsTyped, DraftsKnow,
         draft' = Outdated \/ \E a \in Analyser : draft' = [Outdated EXCEPT ![a] = None]
  PROVE  DraftsKnow' /\ draft' \in [Analyser -> Drafts \cup {None}]
<1>1. ASSUME NEW a \in Analyser, draft[a] # None
      PROVE  LET d == [draft[a] EXCEPT !.revision = "passed"]
             IN  /\ d \in Drafts /\ d.kind = draft[a].kind /\ d.entry = draft[a].entry
                 /\ d.revision = "passed"
  <2>1. draft[a] \in Drafts
    BY <1>1 DEF ActorsTyped
  <2> QED BY <2>1 DEF Drafts
<1>2. \A a \in Analyser :
        \/ draft'[a] = None
        \/ draft[a] # None /\ draft'[a] = [draft[a] EXCEPT !.revision = "passed"]
  BY DEF Outdated
<1>3. draft' \in [Analyser -> Drafts \cup {None}]
  <2>1. Outdated \in [Analyser -> Drafts \cup {None}]
    BY <1>1 DEF Outdated
  <2> QED BY <2>1
<1>4. DraftsKnow'
  <2> SUFFICES ASSUME NEW a \in Analyser, draft'[a] # None
               PROVE  DraftKnows(draft[a])'
    BY DEF DraftsKnow
  <2>1. /\ DraftKnows(draft[a]) /\ draft'[a].kind = draft[a].kind
        /\ draft'[a].entry = draft[a].entry /\ draft'[a].revision = "passed"
    BY <1>1, <1>2 DEF DraftsKnow
  <2> QED BY <2>1 DEF DraftKnows
<1> QED BY <1>3, <1>4

LEMMA DraftsPrepared ==
  ASSUME ActorsTyped, DraftsKnow, UNCHANGED <<binding, asked, analyses>>,
         NEW a \in Analyser, NEW d \in Drafts \cup {None}, d # None => DraftKnows(d),
         draft' = [draft EXCEPT ![a] = d]
  PROVE  DraftsKnow' /\ draft' \in [Analyser -> Drafts \cup {None}]
<1>1. draft \in [Analyser -> Drafts \cup {None}]
  BY DEF ActorsTyped
<1>2. draft' \in [Analyser -> Drafts \cup {None}]
  BY <1>1
<1>3. \A x \in Analyser : draft'[x] # None => DraftKnows(draft'[x])
  BY <1>1 DEF DraftsKnow
<1>4. DraftsKnow'
  BY <1>3 DEF DraftsKnow, DraftKnows, Pinned, IsPack
<1> QED BY <1>2, <1>4

-----------------------------------------------------------------------------
\* Every step keeps the invariant.

Kept == /\ LogStep /\ UNCHANGED <<report, planned>>
        /\ CodeTyped' /\ ActorsTyped' /\ DraftsKnow' /\ CallsKnow'

LEMMA CallsTyped ==
  ASSUME DOMAIN call' = Caller, call' = [x \in DOMAIN call' |-> call'[x]],
         \A c \in Caller : Knows(c)'
  PROVE  call' \in [Caller -> Calls] /\ CallsKnow'
<1>1. \A c \in Caller : call'[c] \in Calls /\ Counted(c)' /\ Performs(c)'
  BY DEF Knows
<1> QED BY <1>1 DEF CallsKnow

LEMMA OwnKeeps ==
  ASSUME IInv, NEW c \in Caller, CallStep(c)
  PROVE  Kept
<1>0. /\ call \in [Caller -> Calls] /\ \A x \in Caller : Knows(x)
      /\ evidence \in [Batch -> [Slot -> Outcome]] /\ draft \in [Analyser -> Drafts \cup {None}]
  BY DEF IInv, ActorsTyped, CallsKnow, Knows
<1>1. ASSUME UNCHANGED <<record, disk, fixed, spare, draft>>,
             Knows(c)', \A x \in Caller \ {c} : call'[x] = call[x],
             \E n : call' = [call EXCEPT ![c] = n],
             evidence' \in [Batch -> [Slot -> Outcome]]
      PROVE  Kept
  <2>1. UNCHANGED <<recipes, jobs, settled, analyses, binding, asked, report, planned>>
    BY <1>1 DEF record, fixed, recipes
  <2>2. LogStep /\ CodeTyped' /\ DraftsKnow'
    BY <1>1, <2>1, DraftsSame DEF IInv, LogStep, CodeTyped, disk
  <2>3. ASSUME NEW x \in Caller \ {c}
        PROVE  Knows(x)'
    <3>1. call'[x] = call[x] /\ Knows(x)
      BY <1>0, <1>1
    <3> QED BY <2>1, <3>1 DEF Knows, Counted, Performs, Pinned, IsPack
  <2>4. DOMAIN call' = Caller /\ call' = [x \in DOMAIN call' |-> call'[x]]
    BY <1>0, <1>1
  <2>5. call' \in [Caller -> Calls] /\ CallsKnow'
    BY <1>1, <2>3, <2>4, CallsTyped
  <2> QED BY <1>0, <1>1, <2>1, <2>2, <2>5 DEF Kept, ActorsTyped
<1>2. CASE Own(c) /\ UNCHANGED <<record, disk, fixed, spare, draft, evidence>>
  <2>1. \E n : call' = [call EXCEPT ![c] = n]
    <3>1. CASE Fails(c)
      BY <3>1 DEF Fails
    <3>2. CASE Decide(c) \/ Mark(c) \/ Confirm(c) \/ Stamp(c) \/ Refuse(c) \/ Return(c)
      BY <3>1, <3>2 DEF Decide, Mark, Confirm, Stamp, Refuse, Return
    <3>3. CASE Check(c)
      <4>0. call[c].doing.kind \in {"enqueue", "launch", "settle", "finalize", "admit", "assign"}
        BY <1>0, <3>3 DEF Check, At, Knows, Performs, Directed, Steps, OnSlot
      <4>1. (\E e : Prepared(c, e)) => \E n : call' = [call EXCEPT ![c] = n]
        BY DEF Prepared
      <4>2. \/ Fails(c) \/ \E e : Prepared(c, e)
            \/ call' = [call EXCEPT ![c] = [@ EXCEPT !.pc = "returning"]]
        BY <3>3, <4>0 DEF Check
      <4> QED BY <3>1, <4>1, <4>2
    <3> QED BY <1>2, <3>2, <3>3 DEF Own
  <2>2. Knows(c)' /\ \A x \in Caller \ {c} : call'[x] = call[x]
    BY <1>2, OwnKnows DEF IInv, record, recipes
  <2> QED BY <1>0, <1>1, <1>2, <2>1, <2>2
<1>3. CASE Work(c)
  <2>1. UNCHANGED <<record, disk, fixed, spare, draft>> /\ \E n : call' = [call EXCEPT ![c] = n]
    BY <1>3 DEF Work, Fails
  <2>2. /\ Knows(c)' /\ \A x \in Caller \ {c} : call'[x] = call[x]
        /\ evidence' \in [Batch -> [Slot -> Outcome]]
    BY <1>3, WorkKnows DEF IInv
  <2> QED BY <1>1, <2>1, <2>2
<1>4. CASE Commit(c)
  <2> DEFINE d == call[c].doing
             e == call[c].entry
  <2>0. call[c].pc = "stamped" /\ Performs(c) /\ MaySend(c) /\ Effect(d, e)
    BY <1>0, <1>4 DEF Commit, At, Knows
  <2>1. d = call[c].step /\ Directed(d) /\ d.kind # "stop"
    BY <2>0 DEF Performs
  <2>2. Admissible(d.kind, d.batch, d.slot)
        /\ (d.kind = "admit" => e \in Entries /\ Pinned(d.batch, e) /\ MayAnalyse(d.batch, e))
    BY <2>0, <2>1 DEF MaySend, Performs
  <2>3. LogStep /\ Lasts(d)
    <3> HIDE DEF d, e
    <3> QED BY <2>0, <2>1, <2>2, EffectLogs DEF IInv
  <2>4. \A x \in Caller \ {c} : Knows(x)'
    <3> SUFFICES ASSUME NEW x \in Caller, x # c
                 PROVE  Knows(x)'
      OBVIOUS
    <3>1. call'[x] = Sees(x, d)
      BY <1>4 DEF Commit
    <3> QED BY <1>0, <2>3, <3>1, SeesKnows DEF IInv
  <2>5. Knows(c)'
    BY <1>4, CommitKnows DEF IInv
  <2>6. DOMAIN call' = Caller /\ call' = [x \in DOMAIN call' |-> call'[x]]
    BY <1>4 DEF Commit
  <2>7. call' \in [Caller -> Calls] /\ CallsKnow'
    BY <2>4, <2>5, <2>6, CallsTyped
  <2>8. draft' = Outdated /\ UNCHANGED <<disk, fixed, evidence>>
    BY <1>4 DEF Commit
  <2>9. DraftsKnow' /\ draft' \in [Analyser -> Drafts \cup {None}]
    BY <2>8, DraftsOutdated DEF IInv
  <2> QED BY <1>0, <2>3, <2>7, <2>8, <2>9 DEF Kept, ActorsTyped, CodeTyped, IInv, disk, fixed
<1> QED BY <1>2, <1>3, <1>4 DEF CallStep

\* A commit at other hands.
LEMMA CommitKeeps ==
  ASSUME IInv, LogStep, NEW step, Lasts(step), call' = [c \in Caller |-> Sees(c, step)],
         UNCHANGED <<disk, fixed>>, evidence' \in [Batch -> [Slot -> Outcome]],
         draft' = Outdated \/ \E a \in Analyser : draft' = [Outdated EXCEPT ![a] = None]
  PROVE  Kept
<1>1. \A c \in Caller : Knows(c)'
  <2> SUFFICES ASSUME NEW c \in Caller
               PROVE  Knows(c)'
    OBVIOUS
  <2>1. Knows(c) /\ call'[c] = Sees(c, step)
    BY DEF IInv, ActorsTyped, CallsKnow, Knows
  <2> QED BY <2>1, SeesKnows DEF IInv
<1>2. call' \in [Caller -> Calls] /\ CallsKnow'
  BY <1>1, CallsTyped
<1>3. DraftsKnow' /\ draft' \in [Analyser -> Drafts \cup {None}]
  BY DraftsOutdated DEF IInv
<1> QED BY <1>2, <1>3 DEF Kept, ActorsTyped, CodeTyped, IInv, disk, fixed

LEMMA OthersKeep ==
  ASSUME IInv,
         \/ \E a \in Analyser : AnalyserStep(a)
         \/ \E step \in BatchSteps : Elsewhere(step)
         \/ OtherCommit
         \/ OtherEdit
  PROVE  Kept
<1>0. /\ call \in [Caller -> Calls]
      /\ evidence \in [Batch -> [Slot -> Outcome]] /\ draft \in [Analyser -> Drafts \cup {None}]
  BY DEF IInv, ActorsTyped
<1>1. PlansLast => \A step : Lasts(step)
  BY DEF PlansLast, Lasts
<1>2. ASSUME UNCHANGED <<record, fixed, evidence, call>>,
             CodeTyped', DraftsKnow', draft' \in [Analyser -> Drafts \cup {None}]
      PROVE  Kept
  <2>1. UNCHANGED <<recipes, jobs, settled, analyses, binding, asked, report, planned>>
    BY <1>2 DEF record, fixed, recipes
  <2>2. CallsKnow'
    BY <1>2, <2>1 DEF IInv, CallsKnow, Counted, Performs, Pinned, IsPack
  <2> QED BY <1>0, <1>2, <2>1, <2>2 DEF Kept, ActorsTyped, LogStep
<1>3. ASSUME NEW a \in Analyser, NEW b \in Batch, Read(a, b), UNCHANGED <<evidence, call>>
      PROVE  Kept
  <2>1. PICK d \in Drafts : DraftKnows(d) /\ draft' = [draft EXCEPT ![a] = d]
    BY <1>3, ReadKnows DEF IInv
  <2>2. UNCHANGED <<record, disk, fixed>>
    BY <1>3 DEF Read
  <2>3. DraftsKnow' /\ draft' \in [Analyser -> Drafts \cup {None}]
    BY <2>1, <2>2, DraftsPrepared DEF IInv, record, recipes
  <2> QED BY <1>2, <1>3, <2>2, <2>3 DEF IInv, CodeTyped, disk
<1>4. ASSUME NEW a \in Analyser, Drop(a), UNCHANGED <<evidence, call>>
      PROVE  Kept
  <2>1. draft' = [draft EXCEPT ![a] = None] /\ UNCHANGED <<record, disk, fixed>>
    BY <1>4 DEF Drop
  <2>2. DraftsKnow' /\ draft' \in [Analyser -> Drafts \cup {None}]
    BY <2>1, DraftsPrepared DEF IInv, record, recipes
  <2> QED BY <1>2, <1>4, <2>1, <2>2 DEF IInv, CodeTyped, disk
<1>5. ASSUME NEW a \in Analyser, AnalyserSends(a)
      PROVE  Kept
  <2>1. LogStep /\ PlansLast
    BY <1>5, SendLogs DEF IInv, AnalyserSends
  <2>2. UNCHANGED <<disk, fixed, evidence>>
    BY <1>5 DEF AnalyserSends, Send
  <2> DEFINE step == Step(draft[a].kind, draft[a].batch, None)
  <2>3. call' = [c \in Caller |-> Sees(c, step)]
        /\ \E x \in Analyser : draft' = [Outdated EXCEPT ![x] = None]
    BY <1>5 DEF AnalyserSends
  <2>4. Lasts(step)
    BY <1>1, <2>1
  <2> HIDE DEF step
  <2> QED BY <1>0, <2>1, <2>2, <2>3, <2>4, CommitKeeps
<1>6. ASSUME NEW step \in BatchSteps, Elsewhere(step)
      PROVE  Kept
  <2>1. Directed(step) /\ step.kind \notin {"stop", "admit"}
    BY DEF BatchSteps, Step, Directed, Steps, OnSlot
  <2>2. LogStep /\ Lasts(step)
    BY <1>6, <2>1, EffectLogs DEF IInv, Elsewhere
  <2>3. evidence' \in [Batch -> [Slot -> Outcome]]
    <3>1. CASE UNCHANGED evidence
      BY <1>0, <3>1
    <3>2. ASSUME NEW outcome \in Outcome,
                 evidence' = [evidence EXCEPT ![step.batch] = [@ EXCEPT ![step.slot] = outcome]]
          PROVE  evidence' \in [Batch -> [Slot -> Outcome]]
      BY <1>0, <3>2
    <3> QED BY <1>6, <3>1, <3>2 DEF Elsewhere
  <2>4. Committed(step) /\ UNCHANGED <<disk, fixed>>
    BY <1>6 DEF Elsewhere
  <2> QED BY <2>2, <2>3, <2>4, CommitKeeps DEF Committed
<1>7. CASE OtherCommit
  <2>1. LogStep /\ PlansLast
    BY <1>7, OthersLog DEF IInv
  <2>2. Committed(Stop) /\ UNCHANGED <<disk, fixed, evidence>>
    BY <1>7 DEF OtherCommit, Bind, Plan, Respond, RunAfterwards, Opinion
  <2> QED BY <1>0, <1>1, <2>1, <2>2, CommitKeeps DEF Committed
<1>8. CASE OtherEdit
  <2>1. UNCHANGED <<record, fixed, draft, evidence, call>> /\ CodeTyped'
    BY <1>8 DEF OtherEdit, Edit, IInv, CodeTyped
  <2>2. DraftsKnow'
    BY <2>1, DraftsSame DEF IInv, record, recipes
  <2> QED BY <1>0, <1>2, <2>1, <2>2
<1> QED BY <1>3, <1>4, <1>5, <1>6, <1>7, <1>8 DEF AnalyserStep

LEMMA Preserved ==
  ASSUME IInv, [Next]_vars
  PROVE  IInv'
<1>1. CASE UNCHANGED vars
  <2>1. UNCHANGED <<binding, asked, jobs, settled, analyses, broken, code, imported, report, planned,
                    draft, evidence, call>>
    BY <1>1 DEF vars, record, recipes, disk, fixed
  <2>2. LogTyped' /\ CodeTyped' /\ ActorsTyped' /\ (report \in Report /\ planned \in Design)'
    BY <2>1 DEF IInv, LogTyped, CodeTyped, ActorsTyped
  <2>3. RecordOrdered' /\ AnalysesPinned'
    BY <2>1 DEF IInv, RecordOrdered, AnalysesPinned, Admitted, Pinned, IsPack, OneTaskEach,
                PinnedSource, AcceptsProposal
  <2>4. DraftsKnow' /\ CallsKnow'
    BY <2>1, DraftsSame DEF IInv, CallsKnow, Counted, Performs, Pinned, IsPack
  <2> QED BY <2>2, <2>3, <2>4 DEF IInv
<1>2. CASE Next
  <2>1. Kept
    BY <1>2, OwnKeeps, OthersKeep DEF Next
  <2>2. LogTyped' /\ RecordOrdered' /\ AnalysesPinned'
    BY <2>1, LogStepTyped, OrderKept, PinnedKept DEF Kept, IInv
  <2>3. (report \in Report /\ planned \in Design)'
    BY <2>1 DEF Kept, IInv
  <2> QED BY <2>1, <2>2, <2>3 DEF Kept, IInv
<1> QED BY <1>1, <1>2

LEMMA Initially ==
  ASSUME Init
  PROVE  IInv
<1>1. PICK h \in Start :
        /\ code = h.code /\ imported = {h.code}
        /\ binding = h.binding /\ asked = [b \in Batch |-> None] /\ jobs = h.jobs /\ settled = h.settled
        /\ analyses = [b \in Batch |-> << >>]
        /\ report = h.report /\ planned = h.design
        /\ draft = [a \in Analyser |-> None]
        /\ evidence = [b \in Batch |-> [s \in Slot |-> None]]
        /\ call = [c \in Caller |-> Idle]
  BY DEF Init
<1>2. /\ h.code \in Version /\ h.report \in Report /\ h.design \in Design
      /\ h.binding \in [Batch -> Recipes \cup {None}]
      /\ h.jobs \in [Batch -> Plans \cup {None}]
      /\ h.settled \in [Batch -> {"completed", "failed", None}]
      /\ \A b \in Batch :
           /\ h.jobs[b] # None => h.binding[b] # None
           /\ h.settled[b] # None => h.jobs[b] # None
           /\ h.binding[b] # None /\ h.binding[b].route = "pack" =>
                h.binding[b].version \in Version /\ h.binding[b].compiled = h.binding[b].version
  BY StartAssumption
<1>3. LogTyped
  <2>1. << >> \in Seq(Entries)
    OBVIOUS
  <2> QED BY <1>1, <1>2, <2>1 DEF LogTyped
<1>4. CodeTyped
  BY <1>1, <1>2 DEF CodeTyped
<1>5. Idle \in Calls /\ Idle.pc = "idle" /\ Idle.since = 0 /\ Idle.first = "none" /\ Idle.spent = 0
  BY DEF Idle, Calls, Stop, Step, Steps
<1>6. ActorsTyped
  BY <1>1, <1>5 DEF ActorsTyped, Outcome
<1>7. RecordOrdered
  BY <1>1, <1>2 DEF RecordOrdered, IsPack, AcceptsProposal
<1>8. AnalysesPinned
  BY <1>1 DEF AnalysesPinned, OneTaskEach
<1>9. DraftsKnow
  BY <1>1 DEF DraftsKnow
<1>10. CallsKnow
  <2> SUFFICES ASSUME NEW c \in Caller
               PROVE  Counted(c) /\ Performs(c)
    BY DEF CallsKnow
  <2>1. call[c] = Idle
    BY <1>1
  <2> QED BY <1>5, <2>1 DEF Counted, Performs, Sent
<1> QED BY <1>1, <1>2, <1>3, <1>4, <1>6, <1>7, <1>8, <1>9, <1>10 DEF IInv

\* The invariant holds in every state.
THEOREM CycleInvariant == Spec => []IInv
<1>1. Init => IInv
  BY Initially
<1>2. IInv /\ [Next]_vars => IInv'
  BY Preserved
<1> QED BY <1>1, <1>2, PTL DEF Spec

-----------------------------------------------------------------------------
\* What follows from it.

\* A call starts no attempt beyond its budget.
THEOREM BudgetsHold == Spec => []AttemptsWithinBudget
<1>1. IInv => AttemptsWithinBudget
  <2> SUFFICES ASSUME IInv, NEW c \in Caller
               PROVE  call[c].spent <= Budget[c]
    BY DEF AttemptsWithinBudget
  <2>1. Counted(c) /\ Budget[c] \in Nat /\ call[c] \in Calls
    BY CycleAssumption DEF IInv, CallsKnow, ActorsTyped
  <2>2. call[c].spent \in {0, 1}
    BY <2>1 DEF Calls
  <2>3. call[c].spent = 1 => Consumes(call[c].step) /\ call[c].pc # "idle"
    BY <2>1 DEF Counted, Sent
  <2>4. call[c].spent = 1 => Budget[c] >= 1
    BY <2>1, <2>3 DEF Counted
  <2> QED BY <2>1, <2>2, <2>4
<1> QED BY <1>1, CycleInvariant, PTL

\* A report that names a command names the call's own step and counts the
\* attempt that the call started; a blocked report, after an error before or
\* after the command or with two new commands, counts none that the call did not
\* start and does not deny that one was (cycle.py:133-147).
THEOREM ReportsAreTrue == Spec => []ReportIsTrue
<1>1. IInv => ReportIsTrue
  <2> SUFFICES ASSUME IInv, NEW c \in Caller, Reports(c)
               PROVE  /\ ~Blocked(c) => call[c].first = "step" /\ Consumed(c) = call[c].spent
                      /\ Consumed(c) <= call[c].spent
                      /\ call[c].spent > 0 => Applied(c)
    BY DEF ReportIsTrue
  <2>1. Counted(c) /\ call[c].since \in {0, 1, 2} /\ call[c].spent \in {0, 1}
    BY DEF IInv, CallsKnow, ActorsTyped, Calls
  <2>2. ~Blocked(c) => call[c].since = 1 /\ Sent(call[c])
    BY DEF Blocked, Reports, At, Sent, ExactlyOne
  <2>3. ~Blocked(c) => call[c].first = "step" /\ Consumed(c) = call[c].spent
    BY <2>1, <2>2 DEF Counted, Consumed
  <2>4. Blocked(c) => Consumed(c) = 0
    BY DEF Consumed
  <2>5. call[c].spent > 0 => call[c].since > 0
    BY <2>1 DEF Counted, Reports, Sent
  <2> QED BY <2>1, <2>3, <2>4, <2>5 DEF Applied, Grown
<1> QED BY <1>1, CycleInvariant, PTL

\* The tasks of a pack's batch are one and the same, and no task is applied
\* twice.
LEMMA PackOnce ==
  ASSUME IInv, NEW b \in Batch, IsPack(b)
  PROVE  Len(analyses[b]) <= 1
<1>1. analyses[b] \in Seq(Entries) /\ OneTaskEach(b)
      /\ \A i \in DOMAIN analyses[b] : Pinned(b, analyses[b][i])
  BY DEF IInv, LogTyped, AnalysesPinned, Admitted
<1>2. \A i, j \in DOMAIN analyses[b] : Task(analyses[b][i]) = Task(analyses[b][j])
  BY <1>1 DEF Pinned, Task
<1>3. \A i, j \in DOMAIN analyses[b] : i = j
  BY <1>1, <1>2 DEF OneTaskEach
<1>4. Len(analyses[b]) \in Nat /\ DOMAIN analyses[b] = 1 .. Len(analyses[b])
  BY <1>1
<1>5. Len(analyses[b]) > 1 => 1 \in DOMAIN analyses[b] /\ 2 \in DOMAIN analyses[b]
  BY <1>4
<1> QED BY <1>3, <1>4, <1>5

\* The replay accepts the analyses of every batch, and a pack's batch has one
\* at most.
THEOREM BatchesAnalysedOnce == Spec => []AnalysedOnce
<1>1. IInv => AnalysedOnce
  <2> SUFFICES ASSUME IInv, NEW b \in Batch
               PROVE  Accepts(b) /\ (IsPack(b) => Len(analyses[b]) <= 1)
    BY DEF AnalysedOnce
  <2>1. /\ jobs[b] # None => binding[b] # None
        /\ settled[b] # None => jobs[b] # None
        /\ analyses[b] # << >> => settled[b] = "completed"
        /\ IsPack(b) => binding[b].version \in Version
        /\ AcceptsProposal(b)
    BY DEF IInv, RecordOrdered
  <2>2. OneTaskEach(b) /\ \A i \in DOMAIN analyses[b] : Admitted(b, analyses[b][i])
    BY DEF IInv, AnalysesPinned
  <2>3. analyses[b] # << >> => AcceptsBinding(b)
    BY <2>1, Distinct DEF AcceptsBinding
  <2>4. IF IsPack(b) THEN AcceptsPack(b) ELSE AcceptsBatch(b)
    BY <2>2 DEF Admitted, Pinned, AcceptsPack, AcceptsBatch
  <2>5. Accepts(b)
    BY <2>1, <2>2, <2>3, <2>4 DEF Accepts
  <2> QED BY <2>5, PackOnce
<1> QED BY <1>1, CycleInvariant, PTL

\* The pinned code reproduces the protocol and every analysis of a pack's
\* batch.
THEOREM PacksReproduce == Spec => []PackReportsReproduce
<1>1. IInv => PackReportsReproduce
  <2> SUFFICES ASSUME IInv, NEW b \in Batch, IsPack(b)
               PROVE  Recompiles(b) /\ \A i \in DOMAIN analyses[b] : Matches(b, analyses[b][i])
    BY DEF PackReportsReproduce
  <2>1. binding[b].compiled = binding[b].version
        /\ \A i \in DOMAIN analyses[b] : Pinned(b, analyses[b][i])
    BY DEF IInv, RecordOrdered, AnalysesPinned, Admitted
  <2> QED BY <2>1 DEF Recompiles, Matches, Pinned
<1> QED BY <1>1, CycleInvariant, PTL

-----------------------------------------------------------------------------
\* The ceiling, for every report and every design.

LEMMA Ranks ==
  /\ Rank["descriptive"] = 0 /\ Rank["exploratory"] = 1 /\ Rank["confirmatory"] = 2
  /\ \A m, n \in Mode : Lower(m, n) \in {m, n} /\ Rank[Lower(m, n)] <= Rank[m]
                       /\ Rank[Lower(m, n)] <= Rank[n]
<1>1. Rank["descriptive"] = 0 /\ Rank["exploratory"] = 1 /\ Rank["confirmatory"] = 2
  BY DEF Rank, Mode
<1>2. \A m \in Mode : Rank[m] \in {0, 1, 2}
  BY <1>1 DEF Mode
<1> QED BY <1>1, <1>2 DEF Lower

\* A field more, if it does not deviate, takes no claim away.
LEMMA FilledInIsWithin ==
  ASSUME NEW rep \in Report, NEW design \in Design, WithinCeiling(rep, design),
         NEW f \in Field \ rep.differs, rep.status[f] = "not_supplied"
  PROVE  WithinCeiling(FilledIn(rep, f), design)
<1> DEFINE new == FilledIn(rep, f)
<1>1. /\ new.status = [rep.status EXCEPT ![f] = "supplied"] /\ new.listed = rep.listed \ {f}
      /\ new.differs = rep.differs /\ new.holds = rep.holds /\ new.mode = rep.mode
      /\ new.outcome = rep.outcome
  BY DEF Report, FilledIn
<1>2. rep.status \in [Field -> {"supplied", "not_supplied", "not_applicable"}]
  BY DEF Report
<1> HIDE DEF new
<1>3. /\ new.status[f] = "supplied"
      /\ \A g \in Field \ {f} : new.status[g] = rep.status[g]
  BY <1>1, <1>2
<1>4. WellFormed(new, design)
  BY <1>2, <1>3 DEF WithinCeiling, WellFormed
<1>5. Detected(new) = Detected(rep)
  BY <1>1, <1>3 DEF Detected, Supplied, Report, Field
<1>6. f \notin Detected(rep) /\ Detected(rep) \subseteq Listed(rep)
  BY DEF Detected, WithinCeiling
<1>7. "deviations" \in Field /\ "deviations" # "sample_size"
      /\ "confidence_interval" \in Field /\ "confidence_interval" # "sample_size"
      /\ "effect_size" \in Field /\ "effect_size" # "sample_size"
  BY DEF Field
<1>8. /\ Detected(new) \subseteq Listed(new)
      /\ Supplied(rep, "deviations") => Supplied(new, "deviations") /\ Listed(new) \subseteq Listed(rep)
  <2>1. CASE f = "deviations"
    BY <1>5, <1>6, <1>7, <2>1 DEF Listed, Supplied
  <2>2. CASE f # "deviations"
    <3>1. Supplied(new, "deviations") <=> Supplied(rep, "deviations")
      BY <1>3, <1>7, <2>2 DEF Supplied
    <3> QED BY <1>1, <1>5, <1>6, <3>1 DEF Listed
  <2> QED BY <2>1, <2>2
<1>9. Rank[Cap(rep, design)] <= Rank[Cap(new, design)]
  <2>1. design.mode \in Mode /\ "exploratory" \in Mode
    BY DEF Design, Mode
  <2>2. ~Complete(rep)
    BY DEF Complete
  <2>3. \/ Cap(rep, design) = Lower(design.mode, "exploratory")
        \/ Supplied(rep, "deviations") /\ Listed(rep) = {} /\ design.mode # "confirmatory"
    BY <2>2 DEF Cap
  <2>4. Cap(new, design) \in {Lower(design.mode, "exploratory"), design.mode}
    BY DEF Cap
  <2>5. CASE Cap(rep, design) = Lower(design.mode, "exploratory")
    BY <2>1, <2>4, <2>5, Ranks DEF Mode
  <2>6. CASE Supplied(rep, "deviations") /\ Listed(rep) = {} /\ design.mode # "confirmatory"
    <3>1. Cap(new, design) = design.mode /\ Cap(rep, design) = design.mode
      BY <1>8, <2>6 DEF Cap
    <3> QED BY <2>1, <3>1, Ranks DEF Mode
  <2> QED BY <2>3, <2>5, <2>6
<1>10. Estimated(rep) => Estimated(new)
  BY <1>3, <1>7 DEF Estimated, Supplied
<1>11. Rank[new.mode] <= Rank[Cap(new, design)]
  <2>1. design.mode \in Mode /\ "exploratory" \in Mode /\ rep.mode \in Mode
    BY DEF Design, Mode, Report
  <2>2. Cap(rep, design) \in Mode /\ Cap(new, design) \in Mode
    BY <2>1, Ranks DEF Cap
  <2>3. \A m \in Mode : Rank[m] \in Nat
    BY Ranks DEF Mode
  <2>4. Rank[rep.mode] <= Rank[Cap(rep, design)]
    BY DEF WithinCeiling
  <2> QED BY <1>1, <1>9, <2>1, <2>2, <2>3, <2>4
<1> QED BY <1>1, <1>4, <1>8, <1>10, <1>11 DEF WithinCeiling, new

\* A confirmatory claim says everything that applies and deviates nowhere else.
LEMMA ConfirmatoryIsComplete ==
  ASSUME NEW rep \in Report, NEW design \in Design, WithinCeiling(rep, design),
         rep.mode = "confirmatory"
  PROVE  /\ design.mode = "confirmatory"
         /\ \A f \in Field : rep.status[f] # "not_supplied"
         /\ rep.differs \subseteq NotApplicable(design)
         /\ Listed(rep) = {} /\ rep.holds
<1>1. design.mode \in Mode /\ Mode = {"descriptive", "exploratory", "confirmatory"}
  BY DEF Design, Mode
<1>2. 2 <= Rank[Cap(rep, design)]
  BY Ranks DEF WithinCeiling
<1>3. Cap(rep, design) # Lower(design.mode, "exploratory")
  BY <1>1, <1>2, Ranks
<1>4. Cap(rep, design) = design.mode /\ Listed(rep) = {} /\ (design.mode = "confirmatory" => Complete(rep))
  BY <1>3 DEF Cap
<1>5. design.mode = "confirmatory" /\ Complete(rep)
  BY <1>1, <1>2, <1>4, Ranks
<1>6. rep.differs \subseteq NotApplicable(design)
  <2> SUFFICES ASSUME NEW f \in rep.differs
               PROVE  f \in NotApplicable(design)
    OBVIOUS
  <2>1. f \in Field
    BY <1>5 DEF Complete, Report, Field
  <2>2. f \notin Detected(rep)
    BY <1>4 DEF WithinCeiling
  <2>3. rep.status[f] = "not_applicable"
    <3>1. rep.status[f] \in {"supplied", "not_supplied", "not_applicable"}
      BY <2>1 DEF Report
    <3> QED BY <1>5, <2>1, <2>2, <3>1 DEF Detected, Supplied, Complete
  <2> QED BY <2>1, <2>3 DEF WithinCeiling, WellFormed
<1> QED BY <1>4, <1>5, <1>6 DEF Complete

\* An admitted claim of a pack is no stronger than its report.
THEOREM ClaimsStayWithinReport == Spec => []ClaimsWithinReport
<1>1. IInv => ClaimsWithinReport
  <2> SUFFICES ASSUME IInv, NEW b \in Batch, IsPack(b), analyses[b] # << >>
               PROVE  /\ report.mode = "confirmatory" =>
                           /\ planned.mode = "confirmatory"
                           /\ \A f \in Field : report.status[f] # "not_supplied"
                           /\ report.differs \subseteq NotApplicable(planned)
                           /\ Listed(report) = {} /\ report.holds
                      /\ report.outcome # "inconclusive" =>
                           \/ Estimated(report)
                           \/ report.mode = "descriptive" /\ UnitsOnly(planned)
                      /\ \A f \in Field \ report.differs :
                           report.status[f] = "not_supplied" =>
                               WithinCeiling(FilledIn(report, f), planned)
    BY DEF ClaimsWithinReport
  <2>1. report \in Report /\ planned \in Design
    BY DEF IInv
  <2>2. WithinCeiling(report, planned)
    <3>1. analyses[b] \in Seq(Entries)
      BY DEF IInv, LogTyped
    <3>2. 1 \in DOMAIN analyses[b]
      BY <3>1
    <3> QED BY <3>2 DEF IInv, AnalysesPinned, Admitted
  <2> QED BY <2>1, <2>2, FilledInIsWithin, ConfirmatoryIsComplete DEF WithinCeiling
<1> QED BY <1>1, CycleInvariant, PTL
=============================================================================
