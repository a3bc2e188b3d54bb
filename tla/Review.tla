------------------------------- MODULE Review -------------------------------
(***************************************************************************)
(* Scientific review of claims: src/episteme/review_assignment.py,         *)
(* reviewer_controller.py, review_submission.py, review_admission.py, the  *)
(* obligations of replanning.py, followup.py and resolution.py, and the    *)
(* protocols, evidence, gate and decision of kernel.py that they rest on.  *)
(*                                                                         *)
(* A protocol freezes the data it will read, and, if it is typed, the data *)
(* that had been shown to anyone before; a confirmatory one must read      *)
(* something else.  Data are shown by runs, by their results, by the       *)
(* declarations of later protocols, and by exposures that anyone records.  *)
(*                                                                         *)
(* A planner assigns a claim to a reviewer, an external provider answers,  *)
(* and the reviewer submits the answer as an approval or as a negative     *)
(* opinion with a typed obligation.  Reviewers also record negative        *)
(* opinions directly.  Claims whose protocols share data, descend from     *)
(* each other or supersede each other form a family; opinions and          *)
(* obligations bind the whole family, however it grew.  next_action        *)
(* decides about a claim from the log alone.                               *)
(*                                                                         *)
(* The log is the whole state and an event is named by its rank.  A review *)
(* stands for the events of its command: the opinion, its obligation or    *)
(* resolutions, and the submission.  A run stands for itself and its       *)
(* reanalysis; data are named by the event that brought them first.        *)
(* Scopes, seeds, job evidence of confirmatory runs and the judgments on   *)
(* links are left out.  Reviewers contribute to no evidence.  A provider   *)
(* that fails, or a controller that dies around it, leaves a dispatch      *)
(* without response.                                                       *)
(***************************************************************************)
EXTENDS Integers, Sequences, FiniteSets

CONSTANTS
    Reviewer,
    Relation,       \* of the claim links that occur: subset of {"supports", "supersedes"}
    Finding,        \* kinds of findings that reviews may state; "experiment" and
                    \* "narrow" can be resolved
    Start,          \* [log, more]: histories to start from, and how many events of
                    \* each kind, protocols of each mode, may follow; the latter
                    \* is a bound for TLC
    None

VARIABLES
    log,
    more            \* events of each kind that may still follow

vars == <<log, more>>

-----------------------------------------------------------------------------
\* Reading a history h.

Of(h, kind) == {i \in DOMAIN h : h[i].kind = kind}

Before(h, i) == SubSeq(h, 1, i - 1)

\* What the steps in E reach from x: such a step leaves every part of S that has
\* x and lacks y.
Reach(x, S, E) ==
    {y \in S : \A T \in SUBSET S :
       x \in T /\ y \notin T => \E e \in E : e[1] \in T /\ e[2] \notin T}

RunsOf(h, p) == {r \in Of(h, "run") : h[r].protocol = p}

ResultsOf(h, p) == {r \in Of(h, "result") : h[h[r].run].protocol = p}

Completed(h, p) == {r \in ResultsOf(h, p) : h[r].completed}

\* The data that p reads and its runs captured.
Bytes(h, p) == ({h[p].data} \cup {h[r].raw : r \in ResultsOf(h, p)}) \ {None}

DataIn(h) == UNION {Bytes(h, p) : p \in Of(h, "protocol")}

\* protocol_components: protocols joined by an amendment or follow-up, by
\* shared bytes, or by a superseding claim.
Joined(h, a, b) ==
    \/ a = h[b].parent
    \/ Bytes(h, a) \cap Bytes(h, b) # {}
    \/ \E l \in Of(h, "link") : /\ h[l].relation = "supersedes"
                                /\ h[h[l].source].protocol = a
                                /\ h[h[l].target].protocol = b

Lineage(h, p) ==
    LET P == Of(h, "protocol")
    IN  Reach(p, P, {e \in P \X P : Joined(h, e[1], e[2]) \/ Joined(h, e[2], e[1])})

Family(h, c) == {d \in Of(h, "claim") : h[d].protocol \in Lineage(h, h[c].protocol)}

\* family_ledger
Ledger(h, c) == UNION {ResultsOf(h, p) : p \in Lineage(h, h[c].protocol)}

\* resolve_context: from a claim to those that support it, and from the source
\* of any other relation to its target.
Leads(h, d, e) ==
    \E l \in Of(h, "link") :
        \/ h[l].source = e /\ h[l].target = d
        \/ h[l].relation # "supports" /\ h[l].source = d /\ h[l].target = e

Context(h, c) ==
    LET C == Of(h, "claim")
    IN  Reach(c, C, {e \in C \X C : Leads(h, e[1], e[2])})

ContextLinks(h, c) ==
    {l \in Of(h, "link") : {h[l].source, h[l].target} \subseteq Context(h, c)}

Rejections(h) == {i \in Of(h, "review") : h[i].verdict = "reject"}

\* Mutant: a finding that was closed again leaves no trace in the evidence.
OpenContextFindings(h, c) ==
    {i \in Rejections(h) :
       /\ h[i].claim \in Context(h, c) \ {c}
       /\ ~\E j \in Of(h, "review") : /\ j > i /\ h[j].verdict = "approve"
                                      /\ h[j].claim = h[i].claim /\ h[j].by = h[i].by}

\* _context_findings: negative reviews of other claims in the context, and the
\* first approval after them by the same reviewer.
ContextFindings(h, c) ==
    {i \in Of(h, "review") :
       LET earlier == {j \in Of(h, "review") :
                         j < i /\ h[j].claim = h[i].claim /\ h[j].by = h[i].by}
       IN  /\ h[i].claim \in Context(h, c) \ {c}
           /\ \/ h[i].verdict = "reject"
              \/ \E j \in earlier : /\ h[j].verdict = "reject"
                                    /\ \A k \in earlier : k =< j}

\* What the events of h show: protocol_exposures, known.
Known(h) ==
    ({h[e].data : e \in Of(h, "exposure")}
       \cup (UNION {h[p].seen : p \in Of(h, "protocol")})
       \cup {h[h[r].protocol].data : r \in Of(h, "run")}
       \cup {h[r].raw : r \in Of(h, "result")}) \ {None}

\* protocol_exposures: how the data of the typed protocol p were shown outside
\* of it, before or after it was registered.
Exposures(h, p) ==
    LET data == Bytes(h, p) \cup h[p].seen
        declarations == {q \in Of(h, "protocol") \ {p} :
                           (h[q].seen \ Known(Before(h, q))) \cap data # {}}
        runs == {r \in Of(h, "run") : h[r].protocol # p /\ h[h[r].protocol].data \in data}
        results == {r \in Of(h, "result") : /\ h[h[r].run].protocol # p
                                            /\ h[r].raw \in data \/ h[r].run \in runs}
        attempts == runs \cup {h[r].run : r \in results}
    IN  IF h[p].mode = "unclassified" THEN {}
        ELSE {e \in Of(h, "exposure") : h[e].data \in data \/ h[e].protocol = p}
               \cup declarations \cup results \cup attempts
               \cup {h[r].protocol : r \in attempts}

\* _local_evidence
LocalEvidence(h, c) ==
    LET p == h[c].protocol
    IN  {p, c} \cup RunsOf(h, p) \cup ResultsOf(h, p) \cup Exposures(h, p)

\* _basis, as the events it is made of.
Basis(h, c) ==
    (UNION {LocalEvidence(h, d) : d \in Context(h, c)})
      \cup ContextLinks(h, c) \cup ContextFindings(h, c)

\* _gate: no run of the protocol is open, and the claim cites every completed
\* one; a confirmatory claim rests on nothing that had been shown.
Gate(h, c) ==
    LET p == h[c].protocol
    IN  /\ \A r \in RunsOf(h, p) : \E i \in ResultsOf(h, p) : h[i].run = r
        /\ h[c].evidence = Completed(h, p)
        /\ h[c].confirmatory => Bytes(h, p) \cap h[p].seen = {}

-----------------------------------------------------------------------------
\* Opinions and obligations (review_admission.py, resolution.py).

Submissions(h) == {i \in Of(h, "review") : h[i].assignment # None}

Submitted(h, a) == \E s \in Submissions(h) : h[s].assignment = a

ResponsesTo(h, a) == {i \in Of(h, "response") : h[i].assignment = a}

ByOf(h, i) == IF h[i].kind = "review" THEN h[i].by ELSE h[h[i].assignment].by

SubjectOf(h, i) == IF h[i].kind = "review" THEN h[i].claim ELSE h[h[i].assignment].claim

\* Negative reviews, and completed negative responses that were not submitted.
Negatives(h) ==
    Rejections(h) \cup
    {i \in Of(h, "response") : /\ h[i].answer.verdict = "reject"
                               /\ ~Submitted(h, h[i].assignment)}

\* The latest of each reviewer about each claim.
Opinions(h) ==
    {i \in Negatives(h) : \A j \in Negatives(h) :
       ByOf(h, j) = ByOf(h, i) /\ SubjectOf(h, j) = SubjectOf(h, i) => j =< i}

\* Mutant: any later approval of the claim by the same reviewer lifts an opinion.
LiftedByApproval(h, i, c) ==
    \E s \in Submissions(h) : /\ s > i /\ h[s].verdict = "approve"
                              /\ h[s].claim = c /\ h[s].by = ByOf(h, i)

Withdrawn(h, i, c) == \E s \in Submissions(h) : h[s].claim = c /\ i \in h[s].withdraws

Vetoes(h, c) == {i \in Opinions(h) : SubjectOf(h, i) \in Family(h, c) /\ ~Withdrawn(h, i, c)}

\* linked_open_findings: what an approval has to acknowledge.
LinkedOpen(h, c) ==
    {i \in Opinions(h) : /\ SubjectOf(h, i) \in Context(h, c) \ Family(h, c)
                         /\ ~Withdrawn(h, i, SubjectOf(h, i))}

Obligations(h) == {i \in Of(h, "review") : h[i].finding # None}

\* The reviewer's last opinion of the claim of the review i.
IsLatest(h, i) ==
    \A j \in Of(h, "review") : h[j].by = h[i].by /\ h[j].claim = h[i].claim => j =< i

\* effective_status "reviewer_satisfied": later evidence can take it away.
Resolved(h, o, c) ==
    /\ Gate(h, h[o].claim) /\ Basis(h, h[o].claim) = h[o].basis
    /\ Gate(h, c)
    /\ \E i \in Submissions(h) : /\ o \in h[i].resolves /\ h[i].claim = c
                                 /\ h[i].basis = Basis(h, c) /\ IsLatest(h, i)

Blocking(h, c) ==
    {o \in Obligations(h) :
       \/ h[o].claim \in Family(h, c) /\ ~Resolved(h, o, c)
       \/ /\ h[o].claim \in Context(h, c) \ Family(h, c)
          /\ ~\E d \in Of(h, "claim") : Resolved(h, o, d)}

\* own_findings
OwnOpinions(h, r, c) == {i \in Vetoes(h, c) : ByOf(h, i) = r}

OwnObligations(h, r, c) ==
    {o \in Obligations(h) : h[o].by = r /\ h[o].claim \in Family(h, c) /\ ~Resolved(h, o, c)}

\* _freshness_defect: the assigned context had every result of the family.
Fresh(h, a, c) == Ledger(Before(h, a), c) = Ledger(h, c)

\* approvals: those that count.
Counts(h, i) ==
    /\ i \in Submissions(h) /\ h[i].verdict = "approve"
    /\ h[i].basis = Basis(h, h[i].claim)
    /\ Fresh(h, h[i].assignment, h[i].claim)

\* next_action; a candidate may turn out to be superseded instead.
NextAction(h, c) ==
    IF ~Gate(h, c) THEN "repair_evidence"
    ELSE IF Blocking(h, c) # {} \/ Vetoes(h, c) # {} THEN "replan"
    ELSE IF ~\E i \in Of(h, "review") : h[i].claim = c /\ Counts(h, i) THEN "scientific_review"
    ELSE "paper_candidate"

-----------------------------------------------------------------------------
\* Evidence goes on (kernel.py).

Mode == {"unclassified", "exploratory", "confirmatory"}    \* the first without a design

\* Data nobody has used are named by the event that brings them.
NewData == Len(log) + 1

\* The events that are counted: protocols of each mode, all others by kind.
Counted == Mode \cup {"run", "result", "exposure", "claim", "link", "assignment", "dispatch",
                     "response", "review"}

\* Only a bound for TLC.
Room(kind) == more[kind] > 0

Write(e) ==
    /\ log' = Append(log, e)
    /\ more' = [more EXCEPT ![IF e.kind = "protocol" THEN e.mode ELSE e.kind] = @ - 1]

Init == \E s \in Start : log = s.log /\ more = s.more

\* Mutant: an attempt shows its data only when it ends.
SeenInResults(h, parent) ==
    ({h[e].data : e \in Of(h, "exposure")}
       \cup (UNION {h[p].seen : p \in Of(h, "protocol")})
       \cup {h[h[h[r].run].protocol].data : r \in Of(h, "result")}
       \cup {h[r].raw : r \in Of(h, "result")}
       \cup (IF parent = None THEN {} ELSE {h[parent].data} \cup h[parent].seen)) \ {None}

\* _known_seen_data: an amendment takes its parent's data for shown.
KnownSeen(h, parent) ==
    Known(h) \cup (IF parent = None THEN {} ELSE {h[parent].data} \cup h[parent].seen)

\* _preregister, _validate_typed_protocol: a protocol over fresh data or over
\* data that are there already; a typed one declares what the store knows.
Register(parent, answers, data, mode) ==
    LET seen == IF mode = "unclassified" THEN {} ELSE KnownSeen(log, parent)
    IN  /\ Room(mode)
        /\ parent # None => (log[parent].mode # "unclassified" => mode # "unclassified")
        /\ mode = "confirmatory" => data \notin seen
        /\ Write([kind |-> "protocol", parent |-> parent, answers |-> answers,
                  data |-> data, mode |-> mode, seen |-> seen])

\* expose_data: anyone declares what was read, perhaps on account of p.
Expose(data, p) ==
    /\ Room("exposure")
    /\ Write([kind |-> "exposure", data |-> data, protocol |-> p])

StartRun(p) ==
    /\ Room("run")
    /\ Write([kind |-> "run", protocol |-> p])

\* The run r ends; what it captured may be fresh, old, or, if it failed, missing.
Finish(r, completed, raw) ==
    /\ Room("result")
    /\ ~\E i \in Of(log, "result") : log[i].run = r
    /\ raw = None => ~completed
    /\ Write([kind |-> "result", run |-> r, completed |-> completed, raw |-> raw])

Claim(p, confirmatory) ==
    /\ Room("claim")
    /\ Completed(log, p) # {}
    /\ confirmatory => log[p].mode = "confirmatory"
    /\ Write([kind |-> "claim", protocol |-> p, evidence |-> Completed(log, p),
              confirmatory |-> confirmatory])

LinkClaims(source, target, relation) ==
    /\ Room("link")
    /\ relation = "supersedes" => source > target
    /\ relation = "supports" => source \notin
         Reach(target, Of(log, "claim"),
               {<<log[l].source, log[l].target>> :
                  l \in {k \in Of(log, "link") : log[k].relation = "supports"}})
    /\ ~\E l \in Of(log, "link") : /\ log[l].source = source /\ log[l].target = target
                                   /\ log[l].relation = relation
    /\ Write([kind |-> "link", source |-> source, target |-> target, relation |-> relation])

-----------------------------------------------------------------------------
\* Assignment, delivery and submission.

\* select_policy
Policy(h, r, c) ==
    IF OwnOpinions(h, r, c) \cup OwnObligations(h, r, c) # {} THEN "reconsideration" ELSE "blind"

\* Mutant: a reviewer may be assigned again after the verdict.
AssignAgain(c, r) ==
    /\ Room("assignment")
    /\ Gate(log, c)
    /\ Write([kind |-> "assignment", claim |-> c, by |-> r, basis |-> Basis(log, c),
              policy |-> Policy(log, r, c)])

\* A reviewer is assigned again until one assignment led to a verdict.
Assign(c, r) ==
    /\ Room("assignment")
    /\ Gate(log, c)
    /\ ~\E a \in Of(log, "assignment") : /\ log[a].claim = c /\ log[a].by = r
                                         /\ log[a].basis = Basis(log, c) /\ Submitted(log, a)
    /\ Write([kind |-> "assignment", claim |-> c, by |-> r, basis |-> Basis(log, c),
              policy |-> Policy(log, r, c)])

Current(a) == Gate(log, log[a].claim) /\ log[a].basis = Basis(log, log[a].claim)

\* ReviewSession.dispatch, and with it the one call of the provider.
Dispatch(a) ==
    /\ Room("dispatch")
    /\ ~\E d \in Of(log, "dispatch") : log[d].assignment = a
    /\ Current(a)
    /\ Write([kind |-> "dispatch", assignment |-> a])

\* What the reviewer of a may answer: the manifest lists own findings to
\* withdraw and to resolve only for a reconsideration.
Answers(a) ==
    LET h == Before(log, a)
        c == log[a].claim
        reconsiders == log[a].policy = "reconsideration"
    IN  [verdict : {"approve"}, finding : {None},
         withdraws : {IF reconsiders THEN OwnOpinions(h, log[a].by, c) ELSE {}},
         resolves : IF reconsiders THEN SUBSET OwnObligations(h, log[a].by, c) ELSE {{}}]
        \cup [verdict : {"reject"}, finding : Finding, withdraws : {{}}, resolves : {{}}]

\* finalize, by the controller that called or by a later reconciliation.  A call
\* that failed is left as a dispatch without an answer.
Finalize(a) ==
    /\ Room("response")
    /\ \E d \in Of(log, "dispatch") : log[d].assignment = a
    /\ ResponsesTo(log, a) = {}
    /\ \E answer \in Answers(a) :
         Write([kind |-> "response", assignment |-> a, answer |-> answer])

\* Mutant: any claim can report that the demanded experiment was done.
AnyFollowupEvidence(h, o, c) ==
    \E p \in Of(h, "protocol") : h[p].answers = o /\ Completed(h, p) # {}

\* _followup_evidence: the follow-up of o was completed, and c is a claim on
\* its protocol or on a descendant, with results newer than the follow-up.
FollowupEvidence(h, o, c) ==
    \E p \in Of(h, "protocol") :
        /\ h[p].answers = o /\ Completed(h, p) # {}
        /\ p \in Reach(h[c].protocol, Of(h, "protocol"),
                      {<<q, h[q].parent>> :
                         q \in {k \in Of(h, "protocol") : h[k].parent # None}})
        /\ \A r \in h[c].evidence : r > p

\* admit_v2
Resolvable(h, o, c) ==
    /\ Gate(h, h[o].claim) /\ Basis(h, h[o].claim) = h[o].basis
    /\ \/ h[o].finding = "experiment" /\ FollowupEvidence(h, o, c)
       \/ h[o].finding = "narrow" /\ c > o /\ c \in Family(h, h[o].claim)

\* _reconsideration
Reconsiders(h, r, c, answer) ==
    /\ answer.withdraws = OwnOpinions(h, r, c)
    /\ answer.resolves \subseteq OwnObligations(h, r, c)
    /\ \A o \in answer.resolves : Resolvable(h, o, c)

\* ReviewSubmission.submit
Submit(a) ==
    /\ Room("review")
    /\ ~Submitted(log, a) /\ Current(a)
    /\ \E i \in ResponsesTo(log, a) :
        LET answer == log[i].answer
            c == log[a].claim
        IN  /\ answer.verdict = "approve" =>
                 /\ Fresh(log, a, c)
                 /\ LinkedOpen(log, c) \subseteq LinkedOpen(Before(log, a), c)
                 /\ log[a].policy = "reconsideration" => Reconsiders(log, log[a].by, c, answer)
            /\ Write([kind |-> "review", claim |-> c, by |-> log[a].by, basis |-> log[a].basis,
                      assignment |-> a, verdict |-> answer.verdict, finding |-> answer.finding,
                      withdraws |-> answer.withdraws, resolves |-> answer.resolves])

\* kernel.review, and replanning.record_review with a finding: only negative.
RecordReview(c, r, finding) ==
    /\ Room("review")
    /\ Gate(log, c)
    /\ Write([kind |-> "review", claim |-> c, by |-> r, basis |-> Basis(log, c),
              assignment |-> None, verdict |-> "reject", finding |-> finding,
              withdraws |-> {}, resolves |-> {}])

\* Followup.apply: protocol, node and binding in one command.
Followup(o, data, mode) ==
    /\ log[o].finding = "experiment"
    /\ ~\E p \in Of(log, "protocol") : log[p].answers = o
    /\ IsLatest(log, o)
    /\ Gate(log, log[o].claim) /\ Basis(log, log[o].claim) = log[o].basis
    /\ Register(log[log[o].claim].protocol, o, data, mode)

-----------------------------------------------------------------------------

Evidence ==
    \/ \E parent \in Of(log, "protocol") \cup {None}, data \in DataIn(log) \cup {NewData},
         mode \in Mode :
         Register(parent, None, data, mode)
    \/ \E data \in DataIn(log), p \in Of(log, "protocol") \cup {None} : Expose(data, p)
    \/ \E p \in Of(log, "protocol") : StartRun(p) \/ \E confirmatory \in BOOLEAN : Claim(p, confirmatory)
    \/ \E r \in Of(log, "run"), completed \in BOOLEAN :
       \E raw \in {log[p].data : p \in Of(log, "protocol") \ {log[r].protocol}}
                   \cup {IF completed THEN NewData ELSE None} : Finish(r, completed, raw)
    \/ \E source, target \in Of(log, "claim"), relation \in Relation :
         source # target /\ LinkClaims(source, target, relation)

Next ==
    \/ Evidence
    \/ \E c \in Of(log, "claim"), r \in Reviewer :
         \/ Assign(c, r)
         \/ \E finding \in Finding \cup {None} : RecordReview(c, r, finding)
    \/ \E a \in Of(log, "assignment") :
         \/ Dispatch(a)
         \/ Finalize(a)
         \/ Submit(a)
    \/ \E o \in Obligations(log), data \in DataIn(log) \cup {NewData}, mode \in Mode :
         Followup(o, data, mode)

Spec == Init /\ [][Next]_vars

-----------------------------------------------------------------------------
\* Replay: the event i against the history b before it.  A replayed verdict is
\* not asked again whether its evidence was fresh.

AcceptsRegistration(b, e) ==
    e.mode # "unclassified" => /\ KnownSeen(b, e.parent) \subseteq e.seen
                               /\ e.mode = "confirmatory" => e.data \notin e.seen

AcceptsFollowup(b, e) ==
    LET o == e.answers
    IN  /\ ~\E p \in Of(b, "protocol") : b[p].answers = o
        /\ o \in Obligations(b) /\ b[o].finding = "experiment" /\ IsLatest(b, o)
        /\ Gate(b, b[o].claim) /\ Basis(b, b[o].claim) = b[o].basis
        /\ e.parent = b[b[o].claim].protocol

AcceptsAssignment(b, e) ==
    /\ Gate(b, e.claim) /\ e.basis = Basis(b, e.claim)
    /\ e.policy = Policy(b, e.by, e.claim)
    /\ ~\E a \in Of(b, "assignment") : /\ b[a].claim = e.claim /\ b[a].by = e.by
                                       /\ b[a].basis = e.basis /\ Submitted(b, a)

AcceptsDelivery(b, e) ==
    LET dispatched == {d \in Of(b, "dispatch") : b[d].assignment = e.assignment}
        a == b[e.assignment]
    IN  IF e.kind = "response" THEN dispatched # {} /\ ResponsesTo(b, e.assignment) = {}
        ELSE dispatched = {} /\ Gate(b, a.claim) /\ a.basis = Basis(b, a.claim)

AcceptsOpinion(b, e) ==
    e.verdict = "reject" /\ Gate(b, e.claim) /\ e.basis = Basis(b, e.claim)

AcceptsSubmission(b, e) ==
    LET a == b[e.assignment]
    IN  /\ \E i \in ResponsesTo(b, e.assignment) :
             b[i].answer = [verdict |-> e.verdict, finding |-> e.finding,
                            withdraws |-> e.withdraws, resolves |-> e.resolves]
        /\ ~Submitted(b, e.assignment)
        /\ Gate(b, e.claim) /\ e.basis = a.basis /\ e.basis = Basis(b, e.claim)
        /\ e.verdict = "approve" =>
             /\ LinkedOpen(b, e.claim) \subseteq LinkedOpen(Before(b, e.assignment), e.claim)
             /\ a.policy = "reconsideration" => Reconsiders(b, e.by, e.claim, e)

Accepts(b, e) ==
    /\ e.kind = "protocol" => AcceptsRegistration(b, e)
    /\ e.kind = "protocol" /\ e.answers # None => AcceptsFollowup(b, e)
    /\ e.kind = "assignment" => AcceptsAssignment(b, e)
    /\ e.kind \in {"dispatch", "response"} => AcceptsDelivery(b, e)
    /\ e.kind = "review" /\ e.assignment = None /\ e.finding # None => AcceptsOpinion(b, e)
    /\ e.kind = "review" /\ e.assignment # None => AcceptsSubmission(b, e)

-----------------------------------------------------------------------------
\* Histories that commands write.

Opinion ==
    [verdict : {"approve", "reject"}, finding : {None} \cup STRING,
     withdraws : SUBSET Nat, resolves : SUBSET Nat]

Event ==
    [kind : {"protocol"}, parent : Nat \cup {None}, answers : Nat \cup {None},
     data : Nat, mode : Mode, seen : SUBSET Nat]
    \cup [kind : {"exposure"}, data : Nat, protocol : Nat \cup {None}]
    \cup [kind : {"run"}, protocol : Nat]
    \cup [kind : {"result"}, run : Nat, completed : BOOLEAN, raw : Nat \cup {None}]
    \cup [kind : {"claim"}, protocol : Nat, evidence : SUBSET Nat, confirmatory : BOOLEAN]
    \cup [kind : {"link"}, source : Nat, target : Nat, relation : Relation]
    \cup [kind : {"assignment"}, claim : Nat, by : Reviewer, basis : SUBSET Nat,
          policy : {"blind", "reconsideration"}]
    \cup [kind : {"dispatch"}, assignment : Nat]
    \cup [kind : {"response"}, assignment : Nat, answer : Opinion]
    \cup [kind : {"review"}, claim : Nat, by : Reviewer, basis : SUBSET Nat,
          assignment : Nat \cup {None}, verdict : {"approve", "reject"},
          finding : {None} \cup STRING, withdraws : SUBSET Nat, resolves : SUBSET Nat]

\* Who withdraws or resolves anything approves in a reconsideration.
Admissible(b, a, answer) ==
    answer.withdraws \cup answer.resolves # {} =>
        answer.verdict = "approve" /\ a # None /\ b[a].policy = "reconsideration"

\* What an event says of the history b before it.
Refers(b, e) ==
    /\ e.kind = "protocol" => e.parent \in Of(b, "protocol") \cup {None}
    /\ e.kind = "run" => e.protocol \in Of(b, "protocol")
    /\ e.kind = "result" => e.run \in Of(b, "run")
    /\ e.kind = "claim" => /\ e.protocol \in Of(b, "protocol")
                           /\ e.evidence = Completed(b, e.protocol) /\ e.evidence # {}
                           /\ e.confirmatory => b[e.protocol].mode = "confirmatory"
    /\ e.kind = "link" => {e.source, e.target} \subseteq Of(b, "claim")
    /\ e.kind \in {"assignment", "review"} => e.claim \in Of(b, "claim")
    /\ e.kind \in {"dispatch", "response"} => e.assignment \in Of(b, "assignment")
    /\ e.kind = "response" => Admissible(b, e.assignment, e.answer)
    /\ e.kind = "review" => Admissible(b, e.assignment, e)
    /\ e.kind = "review" /\ e.assignment = None => e.verdict = "reject"
    /\ e.kind = "review" /\ e.assignment # None =>
         /\ e.assignment \in Of(b, "assignment")
         /\ b[e.assignment].claim = e.claim /\ b[e.assignment].by = e.by

Sound(h) ==
    /\ h \in Seq(Event)
    /\ \A i \in DOMAIN h : Refers(Before(h, i), h[i]) /\ Accepts(Before(h, i), h[i])

\* Every history to start from is one that commands can have written.
ASSUME StartAssumption ==
    /\ \A s \in Start : Sound(s.log) /\ s.more \in [Counted -> Nat]
    /\ None \notin Nat /\ Finding \subseteq STRING

-----------------------------------------------------------------------------
\* Properties.

TypeOK == log \in Seq(Event) /\ more \in [Counted -> Nat]

\* A log that was written by commands is accepted by the replay that precedes
\* every later command: what a command recorded follows from the history
\* before it, also when runs, opinions and other answers came between an
\* assignment, its delivery and its verdict (the _index functions).
ReplayAccepts == \A i \in DOMAIN log : Accepts(Before(log, i), log[i])

Candidates == {c \in Of(log, "claim") : NextAction(log, c) = "paper_candidate"}

NegativeAnswers ==
    Rejections(log) \cup
    {i \in Of(log, "response") : log[i].answer.verdict = "reject"}

\* A claim can become a paper only if every negative answer that any reviewer
\* ever gave about its family, submitted or not and however the family came
\* together, was followed by that reviewer's own approval of this very claim
\* in a reconsideration (Admission._negatives, vetoes, own_findings).
OwnersWithdraw ==
    \A c \in Candidates : \A i \in NegativeAnswers :
        SubjectOf(log, i) \in Family(log, c) =>
            \E s \in Submissions(log) :
                /\ s > i /\ log[s].claim = c /\ log[s].by = ByOf(log, i)
                /\ log[s].verdict = "approve"
                /\ log[log[s].assignment].policy = "reconsideration"

\* A typed demand is met by new work only: no claim that was there when a
\* reviewer demanded something of its family becomes a paper, and where an
\* experiment was demanded the claim rests on results of a follow-up that was
\* registered for it (blocking_obligations, admit_v2, _followup_evidence).
DemandsMetByNewWork ==
    \A c \in Candidates : \A o \in Obligations(log) :
        log[o].claim \in Family(log, c) =>
            /\ c > o
            /\ log[o].finding = "experiment" =>
                 \E p \in Of(log, "protocol") : /\ log[p].answers = o
                                                /\ \A r \in log[c].evidence : r > p

\* Who used the datum d outside of the protocol p: declarations, runs, captures.
Users(h, d, p) ==
    {e \in Of(h, "exposure") : h[e].data = d}
      \cup {r \in Of(h, "run") : h[r].protocol # p /\ h[h[r].protocol].data = d}
      \cup {r \in Of(h, "result") : h[h[r].run].protocol # p /\ h[r].raw = d}

\* A confirmatory claim becomes a paper only if nobody had used its protocol's
\* data, under any protocol and whether or not the use had ended, before the
\* protocol was registered; and whoever used them later is in the evidence that
\* its reviewer was assigned (_known_seen_data: "Omitting a parent link must not
\* relabel an attempted discovery input as a fresh confirmatory holdout").
HoldoutIsFresh ==
    \A c \in Candidates : LET p == log[c].protocol IN
        log[c].confirmatory => \A e \in Users(log, log[p].data, p) :
            /\ e > p
            /\ \E i \in Submissions(log) : /\ log[i].claim = c /\ log[i].verdict = "approve"
                                           /\ e < log[i].assignment

\* An approval that ceased to count never counts again: evidence, attempts of
\* the family and findings on linked claims only ever take approvals away
\* (_context_findings: "Retaining closed episodes prevents revival of an older
\* approval after a finding is raised and subsequently withdrawn").
NoRevival ==
    [][\A i \in Submissions(log) : ~Counts(log, i) => ~Counts(log', i)]_log

\* ADR 0018, 3.1: an approval counts only if it withdrew the negative opinions
\* its reviewer had about the family when it was submitted.
CountedApprovalsWithdrawOwn ==
    \A i \in Submissions(log) :
        Counts(log, i) => OwnOpinions(Before(log, i), log[i].by, log[i].claim) \subseteq log[i].withdraws

=============================================================================
