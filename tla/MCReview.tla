------------------------------ MODULE MCReview ------------------------------
(***************************************************************************)
(* Small instances of Review for TLC: one finished claim, or two of which  *)
(* the second supports the first.                                          *)
(***************************************************************************)
EXTENDS Review, TLC

CONSTANTS r1, r2

\* The protocol of rank p, over data of its own.
ProtocolAt(p, mode) ==
    [kind |-> "protocol", parent |-> None, answers |-> None, data |-> p, mode |-> mode, seen |-> {}]

Attempt(p) ==
    <<[kind |-> "run", protocol |-> p],
      [kind |-> "result", run |-> p + 1, completed |-> TRUE, raw |-> p + 2]>>

Finished(p, mode) ==
    <<ProtocolAt(p, mode)>> \o Attempt(p)
      \o <<[kind |-> "claim", protocol |-> p, evidence |-> {p + 2}, confirmatory |-> mode = "confirmatory"]>>

Assigned(r, basis) == [kind |-> "assignment", claim |-> 4, by |-> r, basis |-> basis, policy |-> "blind"]
Answer(verdict, finding) ==
    [verdict |-> verdict, finding |-> finding, withdraws |-> {}, resolves |-> {}]

OneClaim == Finished(1, "unclassified")

Delivered(a, answer) ==
    <<[kind |-> "dispatch", assignment |-> a],
      [kind |-> "response", assignment |-> a, answer |-> answer]>>

Verdict(r, a, basis, answer) ==
    [kind |-> "review", claim |-> 4, by |-> r, basis |-> basis, assignment |-> a] @@ answer

\* A negative answer that was not submitted, and one that was.
Rejected(r, finding) ==
    OneClaim \o <<Assigned(r, 1 .. 4)>> \o Delivered(5, Answer("reject", finding))

Demanded(r, finding) ==
    Append(Rejected(r, finding), Verdict(r, 5, 1 .. 4, Answer("reject", finding)))

\* Two claims; the first, supported by the second, was approved.
TwoClaims == OneClaim \o Finished(5, "unclassified")

Supported(r) ==
    TwoClaims \o <<[kind |-> "link", source |-> 8, target |-> 4, relation |-> "supports"],
                   Assigned(r, 1 .. 9)>>
              \o Delivered(10, Answer("approve", None))
              \o <<Verdict(r, 10, 1 .. 9, Answer("approve", None))>>

\* The demanded follow-up was registered, and run.
FollowedUp(r) ==
    Demanded(r, "experiment")
      \o <<[ProtocolAt(9, "unclassified") EXCEPT !.parent = 1, !.answers = 8],
           [kind |-> "run", protocol |-> 9]>>

\* A confirmatory claim was approved.
Confirmed(r) ==
    Finished(1, "confirmatory") \o <<Assigned(r, 1 .. 4)>> \o Delivered(5, Answer("approve", None))
      \o <<Verdict(r, 5, 1 .. 4, Answer("approve", None))>>

\* Another protocol was registered over the same data.
Reused(r) == Append(Confirmed(r), [ProtocolAt(9, "unclassified") EXCEPT !.data = 1])

\* Data were declared as read, or are being read.
Shown == <<ProtocolAt(1, "exploratory"), [kind |-> "exposure", data |-> 1, protocol |-> None]>>
Begun == SubSeq(Finished(1, "exploratory"), 1, 2)

\* What may follow: the given numbers of events.
More(protocols, runs, claims, links, rounds, reviews) ==
    "unclassified" :> protocols @@ "exploratory" :> 0 @@ "confirmatory" :> 0 @@ "claim" :> claims @@ "link" :> links @@ "exposure" :> 0
    @@ [kind \in {"run", "result"} |-> runs]
    @@ [kind \in {"assignment", "dispatch", "response"} |-> rounds] @@ "review" :> reviews

MCStart ==
    UNION {{ [log |-> Demanded(r, "experiment"), more |-> More(1, 1, 0, 0, 0, 1)],
             [log |-> FollowedUp(r), more |-> "result" :> 1 @@ More(0, 0, 1, 0, 1, 1)],
             [log |-> FollowedUp(r), more |-> "result" :> 1 @@ More(1, 0, 0, 0, 0, 1)],
             [log |-> Demanded(r, "narrow"), more |-> More(0, 1, 1, 0, 1, 1)],
             [log |-> Rejected(r, "narrow"), more |-> More(0, 0, 0, 0, 1, 2)],
             [log |-> Supported(r), more |-> More(0, 0, 0, 0, 1, 2)],
             [log |-> Append(TwoClaims, [kind |-> "run", protocol |-> 5]),
              more |-> "result" :> 1 @@ More(0, 0, 0, 1, 1, 0)],
             [log |-> TwoClaims, more |-> More(0, 0, 0, 1, 1, 1)],
             [log |-> Confirmed(r), more |-> "exposure" :> 1 @@ More(0, 0, 0, 0, 1, 1)],
             [log |-> Confirmed(r), more |-> "exploratory" :> 1 @@ More(0, 0, 0, 0, 1, 1)],
             [log |-> Reused(r), more |-> More(0, 1, 0, 0, 1, 1)],
             [log |-> Shown, more |-> "confirmatory" :> 1 @@ More(0, 1, 1, 0, 1, 1)],
             [log |-> Begun, more |-> "confirmatory" :> 1 @@ "result" :> 1 @@ More(0, 1, 1, 0, 1, 1)] }
           : r \in {r1, r2}}

\* Nobody has looked at the claim yet.
Unreviewed == {[log |-> OneClaim, more |-> More(0, 0, 0, 0, 1, 2)]}

Symmetry == Permutations({r1, r2})

=============================================================================
