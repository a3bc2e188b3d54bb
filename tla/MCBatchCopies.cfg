CONSTANTS
    s1 = s1  s2 = s2  b1 = b1  b2 = b2  p1 = p1  p2 = p2  c1 = c1  c2 = c2
    None = None
    Site = {s1, s2}
    Home = s1
    Selection = {b1}
    Protocol = {p1}
    ProtocolOf <- OneSelection
    FollowUp = {b1}
    DirectVerdict = {"failed"}
    Seeds = 1
    Controller = {c1}
SPECIFICATION Spec
INVARIANTS
    NoSecondLaunch
PROPERTIES
    InheritedStaysUnknown
CHECK_DEADLOCK FALSE
