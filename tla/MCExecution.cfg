CONSTANTS
    j1 = j1  j2 = j2  t1 = t1  t2 = t2  c1 = c1  c2 = c2  w1 = w1  w2 = w2
    None = None
    Job = {j1, j2}
    Token <- MCToken
    Controller <- MCController
    Worker <- MCWorker
    MaxOther = 0
SPECIFICATION Spec
SYMMETRY SymmetryJobs
INVARIANTS
    OneAuthorizedStart
    ResultIsOwnEvidence
    TerminalMeansStopped
PROPERTIES
    FollowsLifecycle
