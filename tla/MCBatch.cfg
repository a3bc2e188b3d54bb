CONSTANTS
    s1 = s1  s2 = s2  b1 = b1  b2 = b2  p1 = p1  p2 = p2  c1 = c1  c2 = c2
    None = None
    Site = {s1}
    Home = s1
    Selection = {b1, b2}
    Protocol = {p1}
    ProtocolOf <- SameProtocol
    FollowUp = {b1}
    DirectVerdict = {"completed", "failed"}
    Seeds = 2
    Controller = {c1}
SPECIFICATION LiveSpec
INVARIANTS
    ProtocolIsOwned
    ReanalysisHasPrimary
    SettlementHolds
PROPERTIES
    FollowsLifecycle
    BatchesSettle
CHECK_DEADLOCK FALSE
