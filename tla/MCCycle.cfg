CONSTANTS
    b1 = b1  b2 = b2  v1 = v1  v2 = v2  c1 = c1  c2 = c2  a = a  r = r
    None = None
    Batch = {b1, b2}
    Version = {v1, v2}
    Analyser = {a}
    Reviewer = {r}
    Caller = {c1, c2}
    Names <- Declared
    Budget <- Attempts
    Start <- Histories
    MaxAnalyses = 2
SPECIFICATION Spec
INVARIANTS
    AttemptsWithinBudget
    ReportIsTrue
    AnalysedOnce
    PackReportsReproduce
    ClaimsWithinReport
PROPERTIES
    StudyAdvances
CHECK_DEADLOCK FALSE
