CONSTANTS
    j1 = j1  j2 = j2  t1 = t1  t2 = t2  c1 = c1  c2 = c2  w1 = w1  w2 = w2
    None = None
    Job = {j1}
    Token = {t1}
    Controller <- MCController
    Worker = {w1}
    MaxOther = 1
SPECIFICATION LiveSpec
PROPERTIES
    EvidenceIsUsed
    QueuedJobsEnd
