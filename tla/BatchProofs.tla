----------------------------- MODULE BatchProofs -----------------------------
(***************************************************************************)
(* The safety of experiment batches (Batch.tla) for every number of state  *)
(* roots, selections, protocols, seeds and controllers.                    *)
(*                                                                         *)
(* The properties hold one another up.  A batch owns its protocol only     *)
(* because its selection is still open, its selection is open only because *)
(* nothing but the settlement closes it, and the settlement stays exact    *)
(* only because a settled roster has no queued or dispatched attempt left. *)
(* So they are proved together, as one inductive invariant.                *)
(***************************************************************************)
EXTENDS Batch, TLAPS, FunctionTheorems, FiniteSetTheorems, WellFoundedInduction

\* What advance_batch remembers is a batch, and a slot where it needs one.
Remembers ==
    \A c \in Controller :
        /\ ctl[c].at # "idle" => ctl[c].batch \in Selection
        /\ ctl[c].at \in {"enqueue", "work", "waiting"} => ctl[c].slot \in Slot

\* A batch and a terminal have their selection in the same log, and a site that does not exist
\* has an empty log and no marker.
Linked ==
    /\ Home \in opened /\ marker \subseteq opened
    /\ \A s \in Site : s \notin opened => selected[s] = {}
    /\ \A s \in Site, b \in Selection :
         HasBatch(s, b) \/ closed[s][b] # None => b \in selected[s]

\* A site launches only batches that were planned at that very site.
LaunchesAreHome ==
    /\ started \subseteq permits
    /\ \A s \in Site, b \in Selection, x \in Slot :
         <<s, <<b, x>>>> \in permits => s \in opened /\ plan[s][b] = s

IInv ==
    /\ TypeOK /\ Remembers /\ Linked /\ LaunchesAreHome
    /\ ProtocolIsOwned /\ ReanalysisHasPrimary /\ SettlementIsExact /\ ClosedBySettlement

-----------------------------------------------------------------------------
\* The roster.

LEMMA RankTyped ==
    ASSUME NEW x \in Slot
    PROVE  Rank(x) \in 2 .. 2 * Seeds + 1
  BY BatchAssumption DEF Slot, Rank

LEMMA RankIsInjective ==
    ASSUME NEW x \in Slot, NEW y \in Slot, Rank(x) = Rank(y)
    PROVE  x = y
  <1>1. x.seed \in Int /\ y.seed \in Int
    BY BatchAssumption DEF Slot
  <1>2. x.mode \in {"primary", "reanalysis"} /\ y.mode \in {"primary", "reanalysis"}
    BY DEF Slot
  <1>3. CASE x.mode = y.mode
    BY <1>1, <1>3 DEF Rank, Slot
  <1>4. CASE x.mode # y.mode
    <2>1. \A m, n \in Int : 2 * m # 2 * n + 1 /\ 2 * m + 1 # 2 * n
      OBVIOUS
    <2>2. \/ Rank(x) = 2 * x.seed /\ Rank(y) = 2 * y.seed + 1
          \/ Rank(x) = 2 * x.seed + 1 /\ Rank(y) = 2 * y.seed
      BY <1>1, <1>2, <1>4 DEF Rank
    <2> QED
      BY <1>1, <2>1, <2>2
  <1> QED
    BY <1>3, <1>4

LEMMA PrimaryIsSlot ==
    ASSUME NEW x \in Slot
    PROVE  Primary(x) \in Slot /\ Primary(x).mode = "primary"
  BY DEF Slot, Primary

LEMMA RosterIsFinite ==
    IsFiniteSet(Slot) /\ Cardinality(Slot) \in 0 .. 2 * Seeds
  <1> DEFINE ranks == 2 .. 2 * Seeds + 1
             rank == [x \in Slot |-> Rank(x)]
  <1>1. IsFiniteSet(ranks) /\ Cardinality(ranks) = 2 * Seeds
    BY FS_Interval, BatchAssumption
  <1>2. rank \in Injection(Slot, ranks)
    <2>1. rank \in [Slot -> ranks]
      BY RankTyped
    <2>2. \A x, y \in Slot : rank[x] = rank[y] => x = y
      BY RankIsInjective
    <2> QED
      BY <2>1, <2>2 DEF Injection, IsInjective
  <1> HIDE DEF ranks, rank
  <1>3. IsFiniteSet(Slot) /\ Cardinality(Slot) =< Cardinality(ranks)
    BY <1>1, <1>2, FS_Injection
  <1> QED
    BY <1>1, <1>3, FS_CardinalityType, BatchAssumption

LEMMA CostTyped ==
    ASSUME NEW s, NEW b
    PROVE  Cardinality(Bound(s, b)) \in 0 .. 2 * Seeds
  <1>1. Bound(s, b) \subseteq Slot
    BY DEF Bound
  <1>2. /\ IsFiniteSet(Bound(s, b))
        /\ Cardinality(Bound(s, b)) =< Cardinality(Slot)
    BY <1>1, RosterIsFinite, FS_Subset
  <1> QED
    BY <1>2, RosterIsFinite, FS_CardinalityType, BatchAssumption

LEMMA OutcomeTyped ==
    ASSUME NEW s, NEW b
    PROVE  /\ OutcomeOf(s, b) \in Outcome
           /\ OutcomeOf(s, b).by = "batch" /\ OutcomeOf(s, b) # None
  <1>1. OutcomeOf(s, b) \in Outcome
    BY CostTyped DEF OutcomeOf, Outcome
  <1>2. OutcomeOf(s, b).by = "batch"
    BY DEF OutcomeOf
  <1> QED
    BY <1>1, <1>2, NoneAssumption

LEMMA FirstOfRoster ==
    ASSUME NEW S \in SUBSET Slot, S # {}
    PROVE  First(S) \in S
  <1> DEFINE less == OpToRel(<, Nat)
             ranks == {Rank(x) : x \in S}
  <1>1. ranks \subseteq Nat /\ ranks # {}
    BY RankTyped, BatchAssumption
  <1>2. IsWellFoundedOn(less, Nat)
    BY NatLessThanWellFounded
  <1>3. \A m, n \in Nat : m < n => <<m, n>> \in less
    BY DEF OpToRel
  <1> HIDE DEF less
  <1>4. PICK r \in ranks : \A q \in ranks : ~ (<<q, r>> \in less)
    <2> HIDE DEF ranks
    <2> QED
      BY <1>1, <1>2, WFMin
  <1>5. PICK x \in S : r = Rank(x)
    BY <1>4
  <1>6. \A y \in S : Rank(x) =< Rank(y)
    <2> TAKE y \in S
    <2>1. Rank(y) \in ranks /\ Rank(y) \in Nat /\ Rank(x) \in Nat
      BY <1>1, <1>5
    <2>2. ~ (Rank(y) < Rank(x))
      BY <1>3, <1>4, <1>5, <2>1
    <2> QED
      BY <2>1, <2>2
  <1> QED
    BY <1>6 DEF First

-----------------------------------------------------------------------------
\* The steps that change a log, a marker or a launch; the other steps of
\* advance_batch only move a controller.

data == <<opened, marker, log, permits, started>>

SelectionStep(s, b) ==
    \/ Select(s, b) \/ Outdate(s, b)
    \/ \E status \in DirectVerdict \cup {"cancelled"} : FinishSelection(s, b, status)

PlanningStep(s, b) == Plan(s, b) \/ PlanRefused(s, b) \/ PrepareFollowup(s, b)

DirectStep(s, p) ==
    \/ StartDirect(s, p)
    \/ \E status \in DirectVerdict : FinishDirect(s, p, status)

LEMMA StepKinds ==
    ASSUME Remembers, TypeOK, [Next]_vars
    PROVE  \/ UNCHANGED data
           \/ \E s \in Site, b \in Selection :
                SelectionStep(s, b) \/ PlanningStep(s, b) \/ Settle(s, b)
           \/ \E s \in Site, b \in Selection, x \in Slot : Enqueue(s, b, x) \/ Dispatch(s, b, x)
           \/ \E s \in Site, b \in Selection, x \in Slot : Attempting(s, <<b, x>>)
           \/ \E s \in Site, p \in Protocol : DirectStep(s, p)
           \/ \E from, to \in Site : Restore(from, to)
  <1>1. CASE UNCHANGED vars
    BY <1>1 DEF vars, data
  <1>2. ASSUME NEW s \in Site, NEW b \in Selection, ByHand(s, b)
        PROVE  \/ SelectionStep(s, b) \/ PlanningStep(s, b) \/ Settle(s, b)
               \/ \E x \in Slot : Enqueue(s, b, x) \/ Dispatch(s, b, x)
    BY <1>2 DEF ByHand, SelectionStep, PlanningStep
  <1>3. ASSUME NEW s \in Site, NEW a \in Attempt, Attempting(s, a)
        PROVE  \E b \in Selection, x \in Slot : Attempting(s, <<b, x>>)
    BY <1>3 DEF Attempt
  <1>4. ASSUME NEW c \in Controller, ControllerStep(c)
        PROVE  \/ UNCHANGED data
               \/ \E s \in Site, b \in Selection : Settle(s, b)
               \/ \E s \in Site, b \in Selection, x \in Slot :
                    Enqueue(s, b, x) \/ Dispatch(s, b, x)
    <2>1. ctl[c].site \in Site
      BY DEF TypeOK, ControllersTypeOK
    <2>2. CASE AdvanceEnqueue(c)
      BY <2>1, <2>2 DEF AdvanceEnqueue, At, Remembers
    <2>3. CASE AdvanceSettle(c)
      BY <2>1, <2>3 DEF AdvanceSettle, At, Remembers
    <2>4. CASE Work(c)
      BY <2>1, <2>4 DEF Work, At, Remembers
    <2>5. CASE Return(c) \/ Choose(c) \/ AdvanceRefused(c) \/ Observe(c) \/ Worked(c)
      BY <2>5 DEF Return, Choose, AdvanceRefused, Observe, Worked, data
    <2> QED
      BY <1>4, <2>2, <2>3, <2>4, <2>5 DEF ControllerStep
  <1>5. ASSUME NEW c \in Controller, NEW s \in Site, NEW b \in Selection, Call(c, s, b)
        PROVE  UNCHANGED data
    BY <1>5 DEF Call, data
  <1>6. ASSUME NEW s \in Site, NEW b \in Selection, Outdate(s, b)
        PROVE  SelectionStep(s, b)
    BY <1>6 DEF SelectionStep
  <1>7. CASE CalmNext
    BY <1>2, <1>3, <1>4, <1>5, <1>7 DEF CalmNext, DirectStep
  <1> QED
    BY <1>1, <1>6, <1>7 DEF Next

-----------------------------------------------------------------------------
\* Types.

LEMMA InitIInv == Init => IInv
  <1> SUFFICES ASSUME Init PROVE IInv
    OBVIOUS
  <1> USE BatchAssumption
  <1>1. SitesTypeOK
    BY DEF Init, SitesTypeOK, JobStatus, DirectStatus
  <1>2. ControllersTypeOK /\ Remembers
    BY DEF Init, ControllersTypeOK, Remembers, Resting
  <1>3. Linked /\ LaunchesAreHome
    BY DEF Init, Linked, LaunchesAreHome, HasBatch
  <1>4. ProtocolIsOwned /\ SettlementIsExact /\ ClosedBySettlement
    BY DEF Init, ProtocolIsOwned, SettlementIsExact, ClosedBySettlement, HasBatch, Settled
  <1>5. ReanalysisHasPrimary
    BY DEF Init, ReanalysisHasPrimary, Attempt
  <1> QED
    BY <1>1, <1>2, <1>3, <1>4, <1>5 DEF IInv, TypeOK

LEMMA SitesTyped ==
    ASSUME TypeOK, Remembers, [Next]_vars
    PROVE  SitesTypeOK'
  <1> USE DEF TypeOK, SitesTypeOK, Committed
  <1>1. CASE UNCHANGED data
    BY <1>1 DEF data, log
  <1>2. ASSUME NEW s \in Site, NEW b \in Selection, SelectionStep(s, b)
        PROVE  SitesTypeOK'
    <2>1. CASE Select(s, b)
      BY <2>1 DEF Select
    <2>2. CASE Outdate(s, b)
      BY <2>2 DEF Outdate
    <2>3. ASSUME NEW status \in DirectVerdict \cup {"cancelled"}, FinishSelection(s, b, status)
          PROVE  SitesTypeOK'
      <3>1. [by |-> "run", status |-> status] \in Outcome
        BY DEF Outcome
      <3> QED
        BY <2>3, <3>1 DEF FinishSelection
    <2> QED
      BY <1>2, <2>1, <2>2, <2>3 DEF SelectionStep
  <1>3. ASSUME NEW s \in Site, NEW b \in Selection, PlanningStep(s, b)
        PROVE  SitesTypeOK'
    <2>1. CASE Plan(s, b)
      BY <2>1 DEF Plan
    <2>2. CASE PlanRefused(s, b)
      BY <2>2 DEF PlanRefused, log
    <2>3. CASE PrepareFollowup(s, b)
      BY <2>3 DEF PrepareFollowup
    <2> QED
      BY <1>3, <2>1, <2>2, <2>3 DEF PlanningStep
  <1>4. ASSUME NEW s \in Site, NEW b \in Selection, Settle(s, b)
        PROVE  SitesTypeOK'
    BY <1>4, OutcomeTyped DEF Settle
  <1>5. ASSUME NEW s \in Site, NEW b \in Selection, NEW x \in Slot,
               Enqueue(s, b, x) \/ Dispatch(s, b, x)
        PROVE  SitesTypeOK'
    <2>1. <<b, x>> \in Attempt
      BY DEF Attempt
    <2>2. CASE Enqueue(s, b, x)
      <3>1. job' \in [Site -> [Attempt -> JobStatus]]
        BY <2>1, <2>2 DEF Enqueue, JobStatus
      <3> QED
        BY <2>2, <3>1 DEF Enqueue
    <2>3. CASE Dispatch(s, b, x)
      <3>1. job' \in [Site -> [Attempt -> JobStatus]]
        BY <2>1, <2>3 DEF Dispatch, JobStatus
      <3>2. permits' \subseteq Site \X Attempt
        <4>1. <<s, <<b, x>>>> \in Site \X Attempt
          BY <2>1
        <4>2. permits' = permits \cup {<<s, <<b, x>>>>} /\ permits \subseteq Site \X Attempt
          BY <2>3 DEF Dispatch
        <4> QED
          BY <4>1, <4>2
      <3> QED
        BY <2>3, <3>1, <3>2 DEF Dispatch
    <2> QED
      BY <1>5, <2>2, <2>3
  <1>6. ASSUME NEW s \in Site, NEW b \in Selection, NEW x \in Slot, Attempting(s, <<b, x>>)
        PROVE  SitesTypeOK'
    <2>1. <<b, x>> \in Attempt
      BY DEF Attempt
    <2>2. CASE Start(s, <<b, x>>)
      BY <2>1, <2>2 DEF Start, log
    <2>3. ASSUME NEW verdict \in {"completed", "failed"}, Finalize(s, <<b, x>>, verdict)
          PROVE  SitesTypeOK'
      <3>1. job' \in [Site -> [Attempt -> JobStatus]]
        BY <2>1, <2>3 DEF Finalize, JobStatus
      <3> QED
        BY <2>3, <3>1 DEF Finalize
    <2> QED
      BY <1>6, <2>2, <2>3 DEF Attempting
  <1>7. ASSUME NEW s \in Site, NEW p \in Protocol, DirectStep(s, p)
        PROVE  SitesTypeOK'
    <2>1. CASE StartDirect(s, p)
      BY <2>1 DEF StartDirect, DirectStatus
    <2>2. ASSUME NEW status \in DirectVerdict, FinishDirect(s, p, status)
          PROVE  SitesTypeOK'
      BY <2>2 DEF FinishDirect, DirectStatus
    <2> QED
      BY <1>7, <2>1, <2>2 DEF DirectStep
  <1>8. ASSUME NEW from \in Site, NEW to \in Site, Restore(from, to)
        PROVE  SitesTypeOK'
    BY <1>8 DEF Restore, CopyLog
  <1> QED
    BY <1>1, <1>2, <1>3, <1>4, <1>5, <1>6, <1>7, <1>8, StepKinds

\* A controller chooses a slot of the roster, and leaves it alone afterwards.
LEMMA ControllersTyped ==
    ASSUME TypeOK, Remembers, [Next]_vars
    PROVE  ControllersTypeOK' /\ Remembers'
  <1> USE DEF TypeOK, ControllersTypeOK, Remembers
  <1>1. CASE UNCHANGED ctl
    BY <1>1
  <1>2. ASSUME NEW c \in Controller, NEW at \in {"idle", "read", "waiting"}, Goto(c, at),
               at = "waiting" => At(c, "work"), ~ At(c, "idle")
        PROVE  ControllersTypeOK' /\ Remembers'
    BY <1>2 DEF Goto, At
  <1>3. ASSUME NEW c \in Controller, ctl' = [ctl EXCEPT ![c] = Resting]
        PROVE  ControllersTypeOK' /\ Remembers'
    BY <1>3, BatchAssumption DEF Resting
  <1>4. ASSUME NEW c \in Controller, NEW s \in Site, NEW b \in Selection, Call(c, s, b)
        PROVE  ControllersTypeOK' /\ Remembers'
    BY <1>4, BatchAssumption DEF Call, Resting
  <1>5. ASSUME NEW c \in Controller, Choose(c)
        PROVE  ControllersTypeOK' /\ Remembers'
    <2> DEFINE open == Unfinished(ctl[c].site, ctl[c].batch)
    <2>1. open = {} \/ First(open) \in Slot
      BY FirstOfRoster DEF Unfinished
    <2>2. ctl[c].batch \in Selection /\ revision[ctl[c].site] \in Nat
      BY <1>5 DEF Choose, At, SitesTypeOK
    <2> HIDE DEF open
    <2>3. PICK at \in {"settle", "enqueue", "work"}, slot \in Slot \cup {None} :
            /\ at \in {"enqueue", "work"} => slot \in Slot
            /\ ctl' = [ctl EXCEPT ![c] = [@ EXCEPT !.expected = revision[ctl[c].site],
                                                  !.slot = slot, !.at = at]]
      <3>1. CASE open = {}
        BY <1>5, <3>1 DEF Choose, open
      <3>2. CASE open # {}
        BY <1>5, <2>1, <3>2 DEF Choose, open
      <3> QED
        BY <3>1, <3>2
    <2> QED
      BY <2>2, <2>3
  <1>6. ASSUME NEW c \in Controller, ControllerStep(c)
        PROVE  ControllersTypeOK' /\ Remembers'
    <2>1. CASE Choose(c)
      BY <1>5, <2>1
    <2>2. CASE Return(c) \/ AdvanceRefused(c)
      BY <1>3, <2>2 DEF Return, AdvanceRefused
    <2>3. CASE AdvanceEnqueue(c) \/ AdvanceSettle(c)
      BY <1>2, <2>3 DEF AdvanceEnqueue, AdvanceSettle, At
    <2>4. CASE Work(c) \/ Observe(c)
      BY <1>2, <2>4 DEF Work, Observe, At
    <2>5. CASE Worked(c)
      BY <1>2, <2>5 DEF Worked, At
    <2> QED
      BY <1>6, <2>1, <2>2, <2>3, <2>4, <2>5 DEF ControllerStep
  <1>7. ASSUME NEW s \in Site, NEW b \in Selection, ByHand(s, b)
        PROVE  UNCHANGED ctl
    BY <1>7 DEF ByHand, Select, FinishSelection, Plan, PlanRefused, PrepareFollowup
  <1>8. ASSUME NEW s \in Site, NEW a \in Attempt, Attempting(s, a)
        PROVE  UNCHANGED ctl
    BY <1>8 DEF Attempting, Start, Finalize
  <1>9. ASSUME NEW s \in Site, NEW p \in Protocol, DirectStep(s, p)
        PROVE  UNCHANGED ctl
    BY <1>9 DEF DirectStep, StartDirect, FinishDirect
  <1>10. CASE CalmNext
    BY <1>1, <1>4, <1>6, <1>7, <1>8, <1>9, <1>10 DEF CalmNext, DirectStep
  <1>11. CASE ~ CalmNext
    BY <1>1, <1>11 DEF Next, Outdate, Restore, vars
  <1> QED
    BY <1>10, <1>11

-----------------------------------------------------------------------------
\* What a batch's selection and launches rest on.

LEMMA StepLinked ==
    ASSUME IInv, [Next]_vars
    PROVE  Linked'
  <1> USE DEF IInv, Linked, HasBatch, TypeOK, SitesTypeOK
  <1>1. CASE UNCHANGED data
    BY <1>1 DEF data, log
  <1>2. ASSUME NEW s \in Site, NEW b \in Selection, SelectionStep(s, b)
        PROVE  Linked'
    <2>1. CASE Select(s, b)
      BY <2>1 DEF Select, MaySelect
    <2>2. CASE Outdate(s, b)
      BY <2>2 DEF Outdate
    <2>3. ASSUME NEW status \in DirectVerdict \cup {"cancelled"}, FinishSelection(s, b, status)
          PROVE  Linked'
      <3>1. /\ b \in selected[s]
            /\ closed' = [closed EXCEPT ![s][b] = [by |-> "run", status |-> status]]
            /\ UNCHANGED <<opened, marker, selected, plan>>
        BY <2>3 DEF FinishSelection, MayFinish, Open
      <3> QED
        BY <3>1
    <2> QED
      BY <1>2, <2>1, <2>2, <2>3 DEF SelectionStep
  <1>3. ASSUME NEW s \in Site, NEW b \in Selection, PlanningStep(s, b)
        PROVE  Linked'
    <2>1. CASE Plan(s, b)
      BY <2>1 DEF Plan, MayPlan, Open
    <2>2. CASE PlanRefused(s, b)
      BY <2>2 DEF PlanRefused, log
    <2>3. CASE PrepareFollowup(s, b)
      BY <2>3 DEF PrepareFollowup, MaySelect
    <2> QED
      BY <1>3, <2>1, <2>2, <2>3 DEF PlanningStep
  <1>4. ASSUME NEW s \in Site, NEW b \in Selection,
               Settle(s, b) \/ \E x \in Slot : Enqueue(s, b, x) \/ Dispatch(s, b, x)
        PROVE  Linked'
    <2>1. CASE Settle(s, b)
      <3>1. /\ b \in selected[s] /\ closed' = [closed EXCEPT ![s][b] = OutcomeOf(s, b)]
            /\ UNCHANGED <<opened, marker, selected, plan>>
        BY <2>1 DEF Settle, MaySettle
      <3> QED
        BY <3>1
    <2> QED
      BY <1>4, <2>1 DEF Enqueue, Dispatch
  <1>5. ASSUME NEW s \in Site, NEW b \in Selection, NEW x \in Slot, Attempting(s, <<b, x>>)
        PROVE  Linked'
    BY <1>5 DEF Attempting, Start, Finalize, log
  <1>6. ASSUME NEW s \in Site, NEW p \in Protocol, DirectStep(s, p)
        PROVE  Linked'
    BY <1>6 DEF DirectStep, StartDirect, FinishDirect
  <1>7. ASSUME NEW from \in Site, NEW to \in Site, Restore(from, to)
        PROVE  Linked'
    BY <1>7 DEF Restore, CopyLog
  <1> QED
    BY <1>1, <1>2, <1>3, <1>4, <1>5, <1>6, <1>7, StepKinds

LEMMA StepLaunchesAreHome ==
    ASSUME IInv, [Next]_vars
    PROVE  LaunchesAreHome'
  <1> USE DEF IInv, LaunchesAreHome, TypeOK, SitesTypeOK
  <1>1. CASE UNCHANGED data
    BY <1>1 DEF data, log
  <1>2. ASSUME NEW s \in Site, NEW b \in Selection, SelectionStep(s, b)
        PROVE  LaunchesAreHome'
    BY <1>2 DEF SelectionStep, Select, Outdate, FinishSelection
  <1>3. ASSUME NEW s \in Site, NEW b \in Selection, PlanningStep(s, b)
        PROVE  LaunchesAreHome'
    <2>1. CASE Plan(s, b)
      BY <2>1 DEF Plan
    <2>2. CASE PlanRefused(s, b)
      BY <2>2 DEF PlanRefused, log
    <2>3. CASE PrepareFollowup(s, b)
      BY <2>3 DEF PrepareFollowup
    <2> QED
      BY <1>3, <2>1, <2>2, <2>3 DEF PlanningStep
  <1>4. ASSUME NEW s \in Site, NEW b \in Selection, Settle(s, b)
        PROVE  LaunchesAreHome'
    BY <1>4 DEF Settle
  <1>5. ASSUME NEW s \in Site, NEW b \in Selection, NEW x \in Slot, Enqueue(s, b, x)
        PROVE  LaunchesAreHome'
    BY <1>5 DEF Enqueue
  <1>6. ASSUME NEW s \in Site, NEW b \in Selection, NEW x \in Slot, Dispatch(s, b, x)
        PROVE  LaunchesAreHome'
    <2>1. s \in opened /\ plan[s][b] = s
      BY <1>6 DEF Dispatch, MayDispatch, Authorized, Linked
    <2>2. permits' = permits \cup {<<s, <<b, x>>>>} /\ UNCHANGED <<started, opened, plan>>
      BY <1>6 DEF Dispatch
    <2> QED
      BY <2>1, <2>2
  <1>7. ASSUME NEW s \in Site, NEW b \in Selection, NEW x \in Slot, Attempting(s, <<b, x>>)
        PROVE  LaunchesAreHome'
    BY <1>7 DEF Attempting, Start, Finalize, log
  <1>8. ASSUME NEW s \in Site, NEW p \in Protocol, DirectStep(s, p)
        PROVE  LaunchesAreHome'
    BY <1>8 DEF DirectStep, StartDirect, FinishDirect
  <1>9. ASSUME NEW from \in Site, NEW to \in Site, Restore(from, to)
        PROVE  LaunchesAreHome'
    BY <1>9 DEF Restore, CopyLog
  <1> QED
    BY <1>1, <1>2, <1>3, <1>4, <1>5, <1>6, <1>7, <1>8, <1>9, StepKinds

-----------------------------------------------------------------------------
\* The protocol.

LEMMA UnsettledIsOpen ==
    ASSUME IInv, NEW s \in Site, NEW b \in Selection, HasBatch(s, b), ~ Settled(s, b)
    PROVE  Open(s, b)
  BY DEF IInv, Linked, ClosedBySettlement, Open

LEMMA RivalsAreMutual ==
    ASSUME NEW b \in Selection, NEW d \in Rivals(b)
    PROVE  b \in Rivals(d) /\ d \in Selection
  BY DEF Rivals

\* An unsettled batch keeps every other batch and selection of its protocol
\* from taking part: the two would each own the protocol.
LEMMA OwnerIsAlone ==
    ASSUME IInv, NEW s \in Site, NEW b \in Selection, HasBatch(s, b), ~ Settled(s, b),
           NEW d \in Rivals(b)
    PROVE  ~ Open(s, d) /\ ~ (HasBatch(s, d) /\ ~ Settled(s, d))
  BY UnsettledIsOpen, RivalsAreMutual DEF IInv, ProtocolIsOwned

LEMMA StepProtocolIsOwned ==
    ASSUME IInv, [Next]_vars
    PROVE  ProtocolIsOwned'
  <1> USE DEF IInv, TypeOK, SitesTypeOK
  <1> DEFINE Owned(t, e) ==
               HasBatch(t, e) /\ ~ Settled(t, e) =>
                 /\ direct[t][ProtocolOf[e]] = "absent"
                 /\ \A d \in Rivals(e) : Bound(t, d) = {} /\ ~ Open(t, d)
  <1> SUFFICES ASSUME NEW t \in Site, NEW e \in Selection PROVE Owned(t, e)'
    BY DEF ProtocolIsOwned
  <1>a. Owned(t, e)
    BY DEF ProtocolIsOwned
  <1>b. \A d \in Rivals(e) : d \in Selection
    BY DEF Rivals
  <1> USE DEF HasBatch, Settled, Bound, Open
  <1>1. CASE UNCHANGED data
    BY <1>1, <1>a DEF data, log
  <1>2. ASSUME NEW s \in Site, NEW b \in Selection, SelectionStep(s, b)
        PROVE  Owned(t, e)'
    <2>1. CASE Select(s, b)
      <3>1. CASE t = s /\ b \in Rivals(e) /\ HasBatch(s, e) /\ ~ Settled(s, e)
        <4>1. e \in Rivals(b) /\ Open(s, e)
          BY <3>1, UnsettledIsOpen, RivalsAreMutual
        <4> QED
          BY <2>1, <4>1 DEF Select, MaySelect
      <3>2. CASE ~ (t = s /\ b \in Rivals(e) /\ HasBatch(s, e) /\ ~ Settled(s, e))
        BY <2>1, <3>2, <1>a, <1>b DEF Select
      <3> QED
        BY <3>1, <3>2
    <2>2. CASE Outdate(s, b)
      BY <2>2, <1>a DEF Outdate
    <2>3. ASSUME NEW status \in DirectVerdict \cup {"cancelled"}, FinishSelection(s, b, status)
          PROVE  Owned(t, e)'
      <3>1. /\ closed' = [closed EXCEPT ![s][b] = [by |-> "run", status |-> status]]
            /\ UNCHANGED <<plan, direct, job, selected>>
            /\ ~ HasBatch(s, b) /\ Open(s, b)
        BY <2>3 DEF FinishSelection, MayFinish
      <3>2. \A d \in Selection : Open(t, d)' => Open(t, d)
        BY <3>1
      <3>3. HasBatch(t, e) => closed'[t][e] = closed[t][e]
        BY <3>1
      <3> QED
        BY <3>1, <3>2, <3>3, <1>a, <1>b
    <2> QED
      BY <1>2, <2>1, <2>2, <2>3 DEF SelectionStep
  <1>3. ASSUME NEW s \in Site, NEW b \in Selection, PlanningStep(s, b)
        PROVE  Owned(t, e)'
    <2>1. CASE Plan(s, b)
      <3>1. CASE t = s /\ e = b
        BY <2>1, <3>1, <1>b DEF Plan, MayPlan, Executed, Rivals
      <3>2. CASE ~ (t = s /\ e = b)
        BY <2>1, <3>2, <1>a DEF Plan
      <3> QED
        BY <3>1, <3>2
    <2>2. CASE PlanRefused(s, b)
      BY <2>2, <1>a DEF PlanRefused, log
    <2>3. CASE PrepareFollowup(s, b)
      <3>1. CASE t = s /\ e = b
        BY <2>3, <3>1, <1>b DEF PrepareFollowup, MaySelect, Executed, Rivals
      <3>2. CASE t = s /\ b \in Rivals(e) /\ HasBatch(s, e) /\ ~ Settled(s, e)
        <4>1. e \in Rivals(b) /\ Open(s, e)
          BY <3>2, UnsettledIsOpen, RivalsAreMutual
        <4> QED
          BY <2>3, <4>1 DEF PrepareFollowup, MaySelect
      <3>3. CASE /\ ~ (t = s /\ e = b)
                 /\ ~ (t = s /\ b \in Rivals(e) /\ HasBatch(s, e) /\ ~ Settled(s, e))
        BY <2>3, <3>3, <1>a, <1>b DEF PrepareFollowup
      <3> QED
        BY <3>1, <3>2, <3>3
    <2> QED
      BY <1>3, <2>1, <2>2, <2>3 DEF PlanningStep
  <1>4. ASSUME NEW s \in Site, NEW b \in Selection, Settle(s, b)
        PROVE  Owned(t, e)'
    <2>1. /\ closed' = [closed EXCEPT ![s][b] = OutcomeOf(s, b)]
          /\ UNCHANGED <<plan, direct, job, selected>>
      BY <1>4 DEF Settle
    <2>2. OutcomeOf(s, b).by = "batch" /\ OutcomeOf(s, b) # None
      BY OutcomeTyped
    <2> QED
      BY <2>1, <2>2, <1>a, <1>b
  <1>5. ASSUME NEW s \in Site, NEW b \in Selection, NEW x \in Slot, Enqueue(s, b, x)
        PROVE  Owned(t, e)'
    <2>1. <<b, x>> \in Attempt /\ \A y \in Slot, d \in Selection : <<d, y>> \in Attempt
      BY DEF Attempt
    <2>2. /\ job' = [job EXCEPT ![s][<<b, x>>] = "queued"]
          /\ UNCHANGED <<plan, direct, closed, selected>>
          /\ HasBatch(s, b) /\ ~ Settled(s, b)
      BY <1>5 DEF Enqueue, MayEnqueue
    <2>3. CASE t = s /\ b \in Rivals(e)
      BY <2>2, <2>3, OwnerIsAlone
    <2>4. CASE ~ (t = s /\ b \in Rivals(e))
      <3>1. \A d \in Rivals(e), y \in Slot : job'[t][<<d, y>>] = job[t][<<d, y>>]
        BY <2>1, <2>2, <2>4, <1>b
      <3> QED
        BY <2>2, <3>1, <1>a, <1>b
    <2> QED
      BY <2>3, <2>4
  <1>6. ASSUME NEW s \in Site, NEW b \in Selection, NEW x \in Slot,
               Dispatch(s, b, x) \/ Attempting(s, <<b, x>>)
        PROVE  Owned(t, e)'
    <2>1. \A y \in Slot, d \in Selection : <<d, y>> \in Attempt
      BY DEF Attempt
    <2>2. /\ UNCHANGED <<plan, direct, closed, selected>>
          /\ \/ UNCHANGED job
             \/ \E to \in {"unknown", "completed", "failed"} :
                  /\ job[s][<<b, x>>] # "absent"
                  /\ job' = [job EXCEPT ![s][<<b, x>>] = to]
      BY <1>6 DEF Dispatch, MayDispatch, Attempting, Start, Finalize, MayFinalize, log
    <2>3. \A d \in Selection, y \in Slot :
            job'[t][<<d, y>>] = "absent" <=> job[t][<<d, y>>] = "absent"
      <3> TAKE d \in Selection, y \in Slot
      <3>1. CASE t = s /\ <<d, y>> = <<b, x>>
        BY <2>1, <2>2, <3>1
      <3>2. CASE ~ (t = s /\ <<d, y>> = <<b, x>>)
        BY <2>1, <2>2, <3>2
      <3> QED
        BY <3>1, <3>2
    <2> QED
      BY <2>2, <2>3, <1>a, <1>b
  <1>7. ASSUME NEW s \in Site, NEW p \in Protocol, DirectStep(s, p)
        PROVE  Owned(t, e)'
    <2>1. CASE StartDirect(s, p)
      BY <2>1, <1>a, <1>b, BatchAssumption DEF StartDirect, MayStartDirect
    <2>2. ASSUME NEW status \in DirectVerdict, FinishDirect(s, p, status)
          PROVE  Owned(t, e)'
      BY <2>2, <1>a, <1>b, BatchAssumption DEF FinishDirect
    <2> QED
      BY <1>7, <2>1, <2>2 DEF DirectStep
  <1>8. ASSUME NEW from \in Site, NEW to \in Site, Restore(from, to)
        PROVE  Owned(t, e)'
    <2>1. \E u \in Site : /\ plan'[t] = plan[u] /\ closed'[t] = closed[u]
                          /\ direct'[t] = direct[u] /\ job'[t] = job[u]
                          /\ selected'[t] = selected[u]
      BY <1>8 DEF Restore, CopyLog
    <2> QED
      BY <2>1 DEF ProtocolIsOwned
  <1> QED
    BY <1>1, <1>2, <1>3, <1>4, <1>5, <1>6, <1>7, <1>8, StepKinds

-----------------------------------------------------------------------------
\* The attempts.

Moves(s, b, x, from, to) ==
    job[s][<<b, x>>] = from /\ job' = [job EXCEPT ![s][<<b, x>>] = to]

\* The three moves of an attempt; every other step keeps the jobs of the sites
\* that exist.
LEMMA JobMoves ==
    ASSUME IInv, [Next]_vars
    PROVE  \/ UNCHANGED job
           \/ \E s \in Site, b \in Selection, x \in Slot :
                /\ UNCHANGED <<opened, plan, closed>>
                /\ \/ MayEnqueue(s, b, x) /\ Moves(s, b, x, "absent", "queued")
                   \/ Moves(s, b, x, "queued", "unknown")
                   \/ \E verdict \in {"completed", "failed"} :
                        /\ MayFinalize(s, <<b, x>>, verdict)
                        /\ Moves(s, b, x, "unknown", verdict)
           \/ \E from, to \in Site : Restore(from, to)
  <1> USE DEF IInv
  <1>1. ASSUME NEW s \in Site, NEW b \in Selection,
               SelectionStep(s, b) \/ PlanningStep(s, b) \/ Settle(s, b)
        PROVE  UNCHANGED job
    BY <1>1 DEF SelectionStep, Select, Outdate, FinishSelection, PlanningStep, Plan,
                PlanRefused, PrepareFollowup, Settle, log
  <1>2. ASSUME NEW s \in Site, NEW b \in Selection, NEW x \in Slot, Enqueue(s, b, x)
        PROVE  /\ UNCHANGED <<opened, plan, closed>>
               /\ MayEnqueue(s, b, x) /\ Moves(s, b, x, "absent", "queued")
    BY <1>2 DEF Enqueue, MayEnqueue, Moves
  <1>3. ASSUME NEW s \in Site, NEW b \in Selection, NEW x \in Slot, Dispatch(s, b, x)
        PROVE  UNCHANGED <<opened, plan, closed>> /\ Moves(s, b, x, "queued", "unknown")
    BY <1>3 DEF Dispatch, MayDispatch, Moves
  <1>4. ASSUME NEW s \in Site, NEW b \in Selection, NEW x \in Slot, Attempting(s, <<b, x>>)
        PROVE  \/ UNCHANGED job
               \/ \E verdict \in {"completed", "failed"} :
                    /\ UNCHANGED <<opened, plan, closed>>
                    /\ MayFinalize(s, <<b, x>>, verdict)
                    /\ Moves(s, b, x, "unknown", verdict)
    BY <1>4 DEF Attempting, Start, Finalize, MayFinalize, Moves, log
  <1>5. ASSUME NEW s \in Site, NEW p \in Protocol, DirectStep(s, p)
        PROVE  UNCHANGED job
    BY <1>5 DEF DirectStep, StartDirect, FinishDirect
  <1>6. CASE UNCHANGED data
    BY <1>6 DEF data, log
  <1> QED
    BY <1>1, <1>2, <1>3, <1>4, <1>5, <1>6, StepKinds

\* What a move does to the job of any other attempt, and to its own.
LEMMA MoveEffect ==
    ASSUME TypeOK, NEW s \in Site, NEW b \in Selection, NEW x \in Slot, NEW from, NEW to,
           Moves(s, b, x, from, to),
           NEW t \in Site, NEW d \in Selection, NEW y \in Slot
    PROVE  job'[t][<<d, y>>] = IF t = s /\ d = b /\ y = x THEN to ELSE job[t][<<d, y>>]
  <1>1. <<b, x>> \in Attempt /\ <<d, y>> \in Attempt
    BY DEF Attempt
  <1>2. job \in [Site -> [Attempt -> JobStatus]]
    BY DEF TypeOK, SitesTypeOK
  <1> QED
    BY <1>1, <1>2 DEF Moves

LEMMA RestoreEffect ==
    ASSUME IInv, NEW from \in Site, NEW to \in Site, Restore(from, to), NEW t \in Site
    PROVE  \E u \in Site : /\ plan'[t] = plan[u] /\ closed'[t] = closed[u]
                           /\ job'[t] = job[u] /\ (t \in opened => u = t)
  BY DEF IInv, TypeOK, SitesTypeOK, Restore, CopyLog

LEMMA StepReanalysisHasPrimary ==
    ASSUME IInv, [Next]_vars
    PROVE  ReanalysisHasPrimary'
  <1> USE DEF IInv
  <1> SUFFICES ASSUME NEW t \in Site, NEW e \in Selection, NEW y \in Slot,
                      y.mode = "reanalysis", job'[t][<<e, y>>] # "absent"
               PROVE  job'[t][<<e, Primary(y)>>] = "completed"
    BY DEF ReanalysisHasPrimary
  <1>0. /\ Primary(y) \in Slot /\ Primary(y) # y
        /\ job[t][<<e, y>>] # "absent" => job[t][<<e, Primary(y)>>] = "completed"
    BY PrimaryIsSlot DEF ReanalysisHasPrimary
  <1>1. CASE UNCHANGED job
    BY <1>0, <1>1
  <1>2. ASSUME NEW s \in Site, NEW b \in Selection, NEW x \in Slot,
               MayEnqueue(s, b, x), Moves(s, b, x, "absent", "queued")
        PROVE  job'[t][<<e, Primary(y)>>] = "completed"
    <2>1. CASE t = s /\ e = b /\ y = x
      BY <1>0, <1>2, <2>1, MoveEffect DEF MayEnqueue
    <2>2. CASE ~ (t = s /\ e = b /\ y = x)
      BY <1>0, <1>2, <2>2, MoveEffect DEF Moves
    <2> QED
      BY <2>1, <2>2
  <1>3. ASSUME NEW s \in Site, NEW b \in Selection, NEW x \in Slot,
               NEW from \in {"queued", "unknown"}, NEW to, Moves(s, b, x, from, to)
        PROVE  job'[t][<<e, Primary(y)>>] = "completed"
    <2>1. job[t][<<e, y>>] # "absent"
      BY <1>3, MoveEffect DEF Moves
    <2>2. ~ (t = s /\ e = b /\ Primary(y) = x)
      BY <1>0, <1>3, <2>1 DEF Moves
    <2> QED
      BY <1>0, <1>3, <2>1, <2>2, MoveEffect
  <1>4. ASSUME NEW from \in Site, NEW to \in Site, Restore(from, to)
        PROVE  job'[t][<<e, Primary(y)>>] = "completed"
    BY <1>4, RestoreEffect DEF ReanalysisHasPrimary
  <1> QED
    BY <1>1, <1>2, <1>3, <1>4, JobMoves

-----------------------------------------------------------------------------
\* The settlement.

\* What a settlement says depends on the attempts of its own batch alone.
LEMMA SameRoster ==
    ASSUME NEW t, NEW e, \A y \in Slot : job'[t][<<e, y>>] = job[t][<<e, y>>]
    PROVE  /\ Bound(t, e)' = Bound(t, e)
           /\ \A y \in Slot : SlotStatus(t, e, y)' = SlotStatus(t, e, y)
           /\ Completed(t, e)' <=> Completed(t, e)
  <1>1. Bound(t, e)' = Bound(t, e)
    BY DEF Bound
  <1>2. \A y \in Slot : SlotStatus(t, e, y)' = SlotStatus(t, e, y)
    BY PrimaryIsSlot DEF SlotStatus
  <1> QED
    BY <1>1, <1>2 DEF Completed

LEMMA BoundStatus ==
    ASSUME NEW s, NEW b, NEW x, job[s][<<b, x>>] # "absent"
    PROVE  SlotStatus(s, b, x) = job[s][<<b, x>>]
  BY DEF SlotStatus

\* The three ways to close a selection.
LEMMA ClosedMoves ==
    ASSUME IInv, [Next]_vars
    PROVE  \/ UNCHANGED closed
           \/ \E s \in Site, b \in Selection :
                /\ UNCHANGED <<job, plan>>
                /\ \/ Settle(s, b)
                   \/ \E status \in DirectVerdict \cup {"cancelled"} :
                        /\ MayFinish(s, b, status)
                        /\ closed' = [closed EXCEPT ![s][b] = [by |-> "run", status |-> status]]
           \/ \E from, to \in Site : Restore(from, to)
  <1> USE DEF IInv
  <1>1. ASSUME NEW s \in Site, NEW b \in Selection, SelectionStep(s, b)
        PROVE  \/ UNCHANGED closed
               \/ \E status \in DirectVerdict \cup {"cancelled"} :
                    /\ UNCHANGED <<job, plan>> /\ MayFinish(s, b, status)
                    /\ closed' = [closed EXCEPT ![s][b] = [by |-> "run", status |-> status]]
    BY <1>1 DEF SelectionStep, Select, Outdate, FinishSelection
  <1>2. ASSUME NEW s \in Site, NEW b \in Selection, PlanningStep(s, b)
        PROVE  UNCHANGED closed
    BY <1>2 DEF PlanningStep, Plan, PlanRefused, PrepareFollowup, log
  <1>3. ASSUME NEW s \in Site, NEW b \in Selection, Settle(s, b)
        PROVE  UNCHANGED <<job, plan>>
    BY <1>3 DEF Settle
  <1>4. ASSUME NEW s \in Site, NEW b \in Selection, NEW x \in Slot,
               Enqueue(s, b, x) \/ Dispatch(s, b, x) \/ Attempting(s, <<b, x>>)
        PROVE  UNCHANGED closed
    BY <1>4 DEF Enqueue, Dispatch, Attempting, Start, Finalize, log
  <1>5. ASSUME NEW s \in Site, NEW p \in Protocol, DirectStep(s, p)
        PROVE  UNCHANGED closed
    BY <1>5 DEF DirectStep, StartDirect, FinishDirect
  <1>6. CASE UNCHANGED data
    BY <1>6 DEF data, log
  <1> QED
    BY <1>1, <1>2, <1>3, <1>4, <1>5, <1>6, StepKinds

LEMMA StepSettlementIsExact ==
    ASSUME IInv, [Next]_vars
    PROVE  SettlementIsExact'
  <1> USE DEF IInv
  <1> DEFINE Over == {"completed", "failed", "blocked"}
             Exact(t, e) ==
               Settled(t, e) =>
                 /\ closed[t][e] = OutcomeOf(t, e)
                 /\ \A x \in Slot : SlotStatus(t, e, x) \in Over
  <1>0. \A t \in Site, e \in Selection : Exact(t, e)
    BY DEF SettlementIsExact, OutcomeOf
  <1> SUFFICES ASSUME NEW t \in Site, NEW e \in Selection PROVE Exact(t, e)'
    BY DEF SettlementIsExact, OutcomeOf
  <1>a. closed \in [Site -> [Selection -> Outcome \cup {None}]]
    BY DEF TypeOK, SitesTypeOK
  <1>1. CASE UNCHANGED closed /\ \A y \in Slot : job'[t][<<e, y>>] = job[t][<<e, y>>]
    BY <1>0, <1>1, SameRoster DEF Settled, OutcomeOf
  <1>2. ASSUME NEW s \in Site, NEW b \in Selection, UNCHANGED job, Settle(s, b)
        PROVE  Exact(t, e)'
    <2>1. closed' = [closed EXCEPT ![s][b] = OutcomeOf(s, b)]
      BY <1>2 DEF Settle
    <2>2. CASE t = s /\ e = b
      <3>1. closed'[t][e] = OutcomeOf(t, e)
        BY <1>a, <2>1, <2>2
      <3>2. \A x \in Slot : SlotStatus(t, e, x) \in Over
        BY <1>2, <2>2 DEF Settle, MaySettle
      <3> QED
        BY <1>2, <3>1, <3>2, SameRoster DEF OutcomeOf
    <2>3. CASE ~ (t = s /\ e = b)
      <3>1. closed'[t][e] = closed[t][e]
        BY <1>a, <2>1, <2>3
      <3> QED
        BY <1>0, <1>2, <3>1, SameRoster DEF Settled, OutcomeOf
    <2> QED
      BY <2>2, <2>3
  <1>3. ASSUME NEW s \in Site, NEW b \in Selection, NEW status, UNCHANGED job,
               closed' = [closed EXCEPT ![s][b] = [by |-> "run", status |-> status]]
        PROVE  Exact(t, e)'
    <2>1. CASE t = s /\ e = b
      BY <1>a, <1>3, <2>1 DEF Settled
    <2>2. CASE ~ (t = s /\ e = b)
      <3>1. closed'[t][e] = closed[t][e]
        BY <1>a, <1>3, <2>2
      <3> QED
        BY <1>0, <1>3, <3>1, SameRoster DEF Settled, OutcomeOf
    <2> QED
      BY <2>1, <2>2
  <1>4. ASSUME NEW s \in Site, NEW b \in Selection, NEW x \in Slot, NEW from, NEW to,
               Moves(s, b, x, from, to), UNCHANGED closed,
               \/ ~ Settled(s, b)
               \/ from \in {"queued", "unknown"}
        PROVE  Exact(t, e)'
    <2>1. CASE t = s /\ e = b
      <3>1. ~ Settled(s, b)
        <4>1. from \in {"queued", "unknown"} => SlotStatus(s, b, x) = from
          BY <1>4, BoundStatus DEF Moves
        <4> HIDE DEF Exact
        <4>2. Exact(s, b)
          BY <1>0
        <4> QED
          BY <1>4, <4>1, <4>2 DEF Exact
      <3> QED
        BY <1>4, <2>1, <3>1 DEF Settled
    <2>2. CASE ~ (t = s /\ e = b)
      BY <1>1, <1>4, <2>2, MoveEffect
    <2> QED
      BY <2>1, <2>2
  <1>5. ASSUME NEW from \in Site, NEW to \in Site, Restore(from, to)
        PROVE  Exact(t, e)'
    <2>1. PICK u \in Site : closed'[t] = closed[u] /\ job'[t] = job[u]
      BY <1>5, RestoreEffect
    <2>2. /\ Bound(t, e)' = Bound(u, e)
          /\ \A y \in Slot : SlotStatus(t, e, y)' = SlotStatus(u, e, y)
      BY <2>1 DEF Bound, SlotStatus
    <2>3. OutcomeOf(t, e)' = OutcomeOf(u, e)
      BY <2>2 DEF OutcomeOf, Completed
    <2> QED
      BY <1>0, <2>1, <2>2, <2>3 DEF Settled
  <1>6. CASE UNCHANGED job
    BY <1>1, <1>2, <1>3, <1>5, <1>6, ClosedMoves
  <1>7. CASE ~ UNCHANGED job
    BY <1>4, <1>5, <1>7, JobMoves DEF MayEnqueue
  <1> QED
    BY <1>6, <1>7

LEMMA StepClosedBySettlement ==
    ASSUME IInv, [Next]_vars
    PROVE  ClosedBySettlement'
  <1> USE DEF IInv, HasBatch, Settled
  <1> SUFFICES ASSUME NEW t \in Site, NEW e \in Selection,
                      HasBatch(t, e)', closed'[t][e] # None
               PROVE  closed'[t][e].by = "batch"
    BY DEF ClosedBySettlement
  <1>a. /\ closed \in [Site -> [Selection -> Outcome \cup {None}]]
        /\ plan \in [Site -> [Selection -> Site \cup {None}]]
    BY DEF TypeOK, SitesTypeOK
  <1>b. HasBatch(t, e) /\ closed[t][e] # None => closed[t][e].by = "batch"
    BY DEF ClosedBySettlement
  <1>1. CASE UNCHANGED <<closed, plan>>
    BY <1>b, <1>1
  <1>2. ASSUME NEW s \in Site, NEW b \in Selection, UNCHANGED plan, Settle(s, b)
        PROVE  closed'[t][e].by = "batch"
    <2>1. closed' = [closed EXCEPT ![s][b] = OutcomeOf(s, b)]
      BY <1>2 DEF Settle
    <2> QED
      BY <1>2, <1>a, <1>b, <2>1, OutcomeTyped
  <1>3. ASSUME NEW s \in Site, NEW b \in Selection, NEW status, UNCHANGED plan,
               MayFinish(s, b, status),
               closed' = [closed EXCEPT ![s][b] = [by |-> "run", status |-> status]]
        PROVE  closed'[t][e].by = "batch"
    BY <1>3, <1>a, <1>b DEF MayFinish
  <1>4. ASSUME NEW s \in Site, NEW b \in Selection, UNCHANGED closed, closed[s][b] = None,
               plan' = [plan EXCEPT ![s][b] = s]
        PROVE  closed'[t][e].by = "batch"
    BY <1>4, <1>a, <1>b
  <1>5. ASSUME NEW from \in Site, NEW to \in Site, Restore(from, to)
        PROVE  closed'[t][e].by = "batch"
    BY <1>5, RestoreEffect DEF ClosedBySettlement
  <1>6. UNCHANGED plan
        \/ \E s \in Site, b \in Selection : /\ UNCHANGED closed /\ closed[s][b] = None
                                            /\ plan' = [plan EXCEPT ![s][b] = s]
        \/ \E from, to \in Site : Restore(from, to)
    <2>1. ASSUME NEW s \in Site, NEW b \in Selection, Plan(s, b) \/ PrepareFollowup(s, b)
          PROVE  /\ UNCHANGED closed /\ closed[s][b] = None
                 /\ plan' = [plan EXCEPT ![s][b] = s]
      BY <2>1 DEF Plan, MayPlan, Open, PrepareFollowup, MaySelect, Linked
    <2>2. ASSUME NEW s \in Site, NEW b \in Selection,
                 SelectionStep(s, b) \/ PlanRefused(s, b) \/ Settle(s, b)
          PROVE  UNCHANGED plan
      BY <2>2 DEF SelectionStep, Select, Outdate, FinishSelection, PlanRefused, Settle, log
    <2>3. ASSUME NEW s \in Site, NEW b \in Selection, NEW x \in Slot,
                 Enqueue(s, b, x) \/ Dispatch(s, b, x) \/ Attempting(s, <<b, x>>)
          PROVE  UNCHANGED plan
      BY <2>3 DEF Enqueue, Dispatch, Attempting, Start, Finalize, log
    <2>4. ASSUME NEW s \in Site, NEW p \in Protocol, DirectStep(s, p)
          PROVE  UNCHANGED plan
      BY <2>4 DEF DirectStep, StartDirect, FinishDirect
    <2>5. CASE UNCHANGED data
      BY <2>5 DEF data, log
    <2> QED
      BY <2>1, <2>2, <2>3, <2>4, <2>5, StepKinds DEF PlanningStep
  <1> QED
    BY <1>1, <1>2, <1>3, <1>4, <1>5, <1>6, ClosedMoves

-----------------------------------------------------------------------------
\* The invariant, and what follows from it.

\* The inductive invariant of experiment batches.
THEOREM BatchInvariant == Spec => []IInv
  <1>1. IInv /\ [Next]_vars => IInv'
    <2> SUFFICES ASSUME IInv, [Next]_vars PROVE IInv'
      OBVIOUS
    <2>1. TypeOK' /\ Remembers'
      BY SitesTyped, ControllersTyped DEF IInv, TypeOK
    <2> QED
      BY <2>1, StepLinked, StepLaunchesAreHome, StepProtocolIsOwned,
         StepReanalysisHasPrimary, StepSettlementIsExact, StepClosedBySettlement DEF IInv
  <1> QED
    BY InitIInv, <1>1, PTL DEF Spec

\* Logs, markers, launches and controllers keep their types (batch.py,
\* search.py, batch_controller.py).
THEOREM BatchTyped == Spec => []TypeOK
  BY BatchInvariant, PTL DEF IInv

\* validate_start and _validate_plan keep a protocol for its unsettled batch.
THEOREM BatchOwnsProtocol == Spec => []ProtocolIsOwned
  BY BatchInvariant, PTL DEF IInv

\* enqueue_slot never lets a reanalysis in beside an uncompleted primary.
THEOREM BatchReanalysis == Spec => []ReanalysisHasPrimary
  BY BatchInvariant, PTL DEF IInv

\* What batch.settle recorded stays true of the roster for ever.
THEOREM BatchSettlement == Spec => []SettlementIsExact
  BY BatchInvariant, PTL DEF IInv

\* finish_selection never closes a selection that has a batch.
THEOREM BatchClosing == Spec => []ClosedBySettlement
  BY BatchInvariant, PTL DEF IInv

\* A batch and its selection end together: exactly, and through no other command.
THEOREM BatchSettled == Spec => []SettlementHolds
  BY BatchSettlement, BatchClosing, PTL DEF SettlementHolds

\* Launching authority is not inherited: however often a state root is backed up
\* and restored, one batch plan runs an attempt at one root only.
THEOREM BatchLaunchedOnce == Spec => []NoSecondLaunch
  <1>1. IInv => NoSecondLaunch
    BY DEF IInv, LaunchesAreHome, NoSecondLaunch
  <1> QED
    BY BatchInvariant, <1>1, PTL

\* A restored root never turns the dispatch it inherited into a result.
THEOREM BatchInherited == Spec => InheritedStaysUnknown
  <1> DEFINE Kept == \A s \in opened, a \in Attempt :
                       job[s][a] = "unknown" /\ <<s, a>> \notin permits => job'[s][a] = "unknown"
  <1>1. IInv /\ [Next]_vars => [Kept]_vars
    <2> SUFFICES ASSUME IInv, [Next]_vars, NEW t \in opened, NEW a \in Attempt,
                        job[t][a] = "unknown", <<t, a>> \notin permits
                 PROVE  job'[t][a] = "unknown"
      OBVIOUS
    <2>1. t \in Site /\ TypeOK
      BY DEF IInv, TypeOK, SitesTypeOK
    <2>2. PICK d \in Selection, y \in Slot : a = <<d, y>>
      BY DEF Attempt
    <2>3. ASSUME NEW s \in Site, NEW b \in Selection, NEW x \in Slot,
                 NEW from \in {"absent", "queued"}, NEW to, Moves(s, b, x, from, to)
          PROVE  job'[t][a] = "unknown"
      BY <2>1, <2>2, <2>3, MoveEffect DEF Moves
    <2>4. ASSUME NEW s \in Site, NEW b \in Selection, NEW x \in Slot, NEW to,
                 <<s, <<b, x>>>> \in permits, Moves(s, b, x, "unknown", to)
          PROVE  job'[t][a] = "unknown"
      BY <2>1, <2>2, <2>4, MoveEffect
    <2>5. ASSUME NEW from \in Site, NEW to \in Site, Restore(from, to)
          PROVE  job'[t][a] = "unknown"
      BY <2>1, <2>5, RestoreEffect
    <2> QED
      BY <2>3, <2>4, <2>5, JobMoves DEF MayFinalize
  <1> QED
    BY BatchInvariant, <1>1, PTL DEF Spec, InheritedStaysUnknown

-----------------------------------------------------------------------------
\* Batches are built on managed execution.

LEMMA StartMoves ==
    ASSUME IInv, [Next]_vars
    PROVE  \/ UNCHANGED started
           \/ \E s \in Site, a \in Attempt : Start(s, a)
  <1> USE DEF IInv
  <1>1. ASSUME NEW s \in Site, NEW b \in Selection,
               SelectionStep(s, b) \/ PlanningStep(s, b) \/ Settle(s, b)
        PROVE  UNCHANGED started
    BY <1>1 DEF SelectionStep, Select, Outdate, FinishSelection, PlanningStep, Plan,
                PlanRefused, PrepareFollowup, Settle
  <1>2. ASSUME NEW s \in Site, NEW b \in Selection, NEW x \in Slot,
               Enqueue(s, b, x) \/ Dispatch(s, b, x)
        PROVE  UNCHANGED started
    BY <1>2 DEF Enqueue, Dispatch
  <1>3. ASSUME NEW s \in Site, NEW b \in Selection, NEW x \in Slot, Attempting(s, <<b, x>>)
        PROVE  UNCHANGED started \/ \E a \in Attempt : Start(s, a)
    BY <1>3 DEF Attempting, Finalize, Attempt
  <1>4. ASSUME NEW s \in Site, NEW p \in Protocol, DirectStep(s, p)
        PROVE  UNCHANGED started
    BY <1>4 DEF DirectStep, StartDirect, FinishDirect
  <1>5. CASE UNCHANGED data
    BY <1>5 DEF data
  <1> QED
    BY <1>1, <1>2, <1>3, <1>4, <1>5, StepKinds DEF Restore

\* Seen from the first state root every attempt follows JobLifecycle.tla: bound
\* once, dispatched once, started at most once, and completed only after a start.
THEOREM BatchFollowsLifecycle == Spec => FollowsLifecycle
  <1> DEFINE begun == [a \in Attempt |-> IF <<Home, a>> \in started THEN 1 ELSE 0]
  <1>1. Init => Lifecycle!Init
    BY BatchAssumption DEF Init, Lifecycle!Init
  <1>2. IInv /\ [Next]_vars => [Lifecycle!Next]_(Lifecycle!vars)
    <2> SUFFICES ASSUME IInv, [Next]_vars
                 PROVE  Lifecycle!Next \/ UNCHANGED <<job[Home], begun>>
      BY DEF Lifecycle!vars
    <2>a. /\ Home \in Site /\ Home \in opened
          /\ job \in [Site -> [Attempt -> JobStatus]]
      BY BatchAssumption DEF IInv, Linked, TypeOK, SitesTypeOK
    <2>1. ASSUME NEW s \in Site, NEW a \in Attempt, Start(s, a)
          PROVE  Lifecycle!Next \/ UNCHANGED <<job[Home], begun>>
      <3>1. CASE s = Home
        <4>1. /\ job[Home][a] = "unknown" /\ job' = job
              /\ <<Home, a>> \notin started /\ started' = started \cup {<<Home, a>>}
          BY <2>1, <3>1 DEF Start, log
        <4>2. begun' = [begun EXCEPT ![a] = 1] /\ begun[a] = 0
          BY <4>1
        <4>3. Lifecycle!Start(a)
          BY <4>1, <4>2 DEF Lifecycle!Start
        <4> QED
          BY <4>3 DEF Lifecycle!Next
      <3>2. CASE s # Home
        BY <2>1, <3>2 DEF Start, log
      <3> QED
        BY <3>1, <3>2
    <2>2. ASSUME UNCHANGED started, NEW s \in Site, NEW b \in Selection, NEW x \in Slot,
                 NEW from, NEW to, Moves(s, b, x, from, to),
                 \/ from = "absent" /\ to = "queued"
                 \/ from = "queued" /\ to = "unknown"
                 \/ /\ from = "unknown" /\ to \in {"completed", "failed"}
                    /\ MayFinalize(s, <<b, x>>, to)
          PROVE  Lifecycle!Next \/ UNCHANGED <<job[Home], begun>>
      <3> DEFINE a == <<b, x>>
      <3>1. a \in Attempt /\ UNCHANGED begun
        BY <2>2 DEF Attempt
      <3>2. CASE s # Home
        BY <2>2, <2>a, <3>1, <3>2 DEF Moves
      <3>3. CASE s = Home
        <4>1. Lifecycle!Move(a, from, to)
          BY <2>2, <2>a, <3>1, <3>3 DEF Moves, Lifecycle!Move
        <4>2. from = "unknown" /\ to = "completed" => begun[a] = 1
          BY <2>2, <3>1, <3>3 DEF MayFinalize
        <4>3. \/ Lifecycle!Enqueue(a) \/ Lifecycle!Dispatch(a)
              \/ to \in Lifecycle!Terminal /\ Lifecycle!Finish(a, to)
          BY <2>2, <3>1, <4>1, <4>2 DEF Lifecycle!Enqueue, Lifecycle!Dispatch,
             Lifecycle!Finish, Lifecycle!Terminal
        <4> QED
          BY <3>1, <4>3 DEF Lifecycle!Next
      <3> QED
        BY <3>2, <3>3
    <2>3. ASSUME UNCHANGED started, NEW from \in Site, NEW to \in Site, Restore(from, to)
          PROVE  UNCHANGED <<job[Home], begun>>
      BY <2>a, <2>3 DEF Restore, CopyLog
    <2>4. CASE UNCHANGED started
      BY <2>2, <2>3, <2>4, JobMoves
    <2> QED
      BY <2>1, <2>4, StartMoves
  <1> QED
    BY BatchInvariant, <1>1, <1>2, PTL DEF Spec, FollowsLifecycle, Lifecycle!Spec

=============================================================================
