CONSTANTS
    t1 = t1  t2 = t2  t3 = t3  p1 = p1  p2 = p2
    None = None
    Tree = {t1, t2, t3}
    Policy <- UnequalPolicy
    Protocol = {p1, p2}
    Amends <- Amendment
    RunLimit <- RunLimits
    Verdict = {"completed", "failed"}
    Estimate <- UnevenCosts
    MaxNodes <- OneOrTwo
    Cost = {2}
SPECIFICATION Spec
INVARIANTS
    NoDebugEvidence
    OwnRun
    BudgetHolds
    RetriesBounded
CHECK_DEADLOCK FALSE
