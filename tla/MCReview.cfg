CONSTANTS
    r1 = r1  r2 = r2
    None = None
    Reviewer = {r1, r2}
    Relation = {"supports", "supersedes"}
    Finding = {"experiment"}
    Start <- MCStart
SPECIFICATION Spec
SYMMETRY Symmetry
INVARIANTS
    ReplayAccepts
    OwnersWithdraw
    DemandsMetByNewWork
    HoldoutIsFresh
PROPERTIES
    NoRevival
CHECK_DEADLOCK FALSE
