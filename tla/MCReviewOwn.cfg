CONSTANTS
    r1 = r1  r2 = r2
    None = None
    Reviewer = {r1, r2}
    Relation = {"supports"}
    Finding = {"experiment", "narrow"}
    Start <- Unreviewed
SPECIFICATION Spec
INVARIANTS
    CountedApprovalsWithdrawOwn
CHECK_DEADLOCK FALSE
