------------------------------ MODULE MCCycle ------------------------------
(***************************************************************************)
(* Small instances of Cycle for TLC.                                       *)
(***************************************************************************)
EXTENDS Cycle, TLC

CONSTANTS b1, b2, v1, v2, c1, c2, a, r

\* The first caller can do everything; the second one reports steps that cost
\* no attempt and names nobody.
Declared == c1 :> r @@ c2 :> None @@ a :> r

Attempts == c1 :> 1 @@ c2 :> 0

Designs == {[mode |-> "confirmatory", interval |-> TRUE], [mode |-> "confirmatory", interval |-> FALSE],
            [mode |-> "exploratory", interval |-> TRUE], [mode |-> "descriptive", interval |-> FALSE]}

Full == [status |-> [f \in Field |-> "supplied"], differs |-> {}, listed |-> {},
         holds |-> TRUE, mode |-> "exploratory", outcome |-> "supports"]

\* Reports that leave fields out, deviate, admit it or not, and claim.
Varied ==
    {[status |-> [f \in Field |-> IF f \in out THEN "not_supplied"
                                  ELSE IF f \in void THEN "not_applicable" ELSE "supplied"],
      differs |-> differs, listed |-> listed, holds |-> holds, mode |-> mode,
      outcome |-> outcome] :
        out \in SUBSET {"uncertainty", "effect_size", "deviations"},
        void \in {{}, {"confidence_interval", "uncertainty"}},
        differs \in {{}, {"sample_size"}, {"uncertainty"}},
        listed \in {{}, {"sample_size", "uncertainty"}},
        holds \in BOOLEAN, mode \in Mode, outcome \in {"supports", "inconclusive"}}

Nothing == [x \in Batch |-> None]

Recorded(b, route, version) == [Nothing EXCEPT ![b] = Recipe(route, version, IF route = "pack" THEN version ELSE None)]

Fresh(b) == [Nothing EXCEPT ![b] = NewPlan]

Done(b) == [Nothing EXCEPT ![b] = [s \in Slot |-> "completed"]]

History(binding0, jobs0, settled0, report0, spare0, crew0) ==
    [code |-> v1, binding |-> binding0, jobs |-> jobs0, settled |-> settled0,
     report |-> report0, design |-> [mode |-> "confirmatory", interval |-> TRUE], spare |-> spare0, crew |-> crew0]

Analysable(b, route, version, rep, spare0, crew0) ==
    History(Recorded(b, route, version), Done(b), [Nothing EXCEPT ![b] = "completed"], rep, spare0, crew0)

Histories ==
    {History(Recorded(b1, "pack", v1), Fresh(b1), Nothing, Full, 1, {c1, c2})}
    \cup {[Analysable(b1, "pack", v1, Full, 1, {c1}) EXCEPT !.jobs[b2] = NewPlan,
              !.binding[b2] = Recipe("model", None, None)]}
    \cup {Analysable(b1, "pack", v1, Full, 3, {c1, a})}
    \cup {Analysable(b1, "pack", v1, Full, 1, {c1, c2, a})}
    \cup {Analysable(b1, "manual", v, Full, 2, {c1, a}) : v \in {v1, v2}}
    \cup {Analysable(b1, "model", None, Full, 2, {c1, a})}
    \cup {History(Nothing, Nothing, Nothing, Full, 4, {a})}
    \cup {[Analysable(b1, "pack", v1, rep, 0, {a}) EXCEPT !.design = design0] :
              design0 \in Designs, rep \in Varied}

=============================================================================
