CONSTANTS
    o = o  p = p  c1 = c1  c2 = c2  w1 = w1  w2 = w2  w3 = w3  v1 = v1  v2 = v2
    None = None
    Original = o
    Reproduction = {p}
    Controller = {c1, c2}
    Worker = {w1, w2, w3}
    Value = {v1, v2}
    Unmeasured = {v2}
SPECIFICATION Spec
SYMMETRY Symmetry
INVARIANTS
    OneStartPerDispatch
    RecordedIsWhatRan
    MatchedWasRerun
CHECK_DEADLOCK FALSE
