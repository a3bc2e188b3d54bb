CONSTANTS
    b1 = b1  b2 = b2  t1 = t1  c1 = c1  c2 = c2
    None = None
    Budget = {b1, b2}
    MaxCalls <- OneCallEach
    Tree = {t1}
    TreeBudget = 4
    MaxNodes = 2
    Attempts = 2
    Completion <- MCCompletion
    Controller = {c1, c2}
    MaxOthers = 1
SPECIFICATION Spec
SYMMETRY Symmetry
INVARIANTS
    ReplayAccepts
    CallsWithinBudget
    AppliedToUnchanged
    AppliedIsCaptured
CHECK_DEADLOCK FALSE
