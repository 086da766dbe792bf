\* Three events, channels of one: a stream may fall behind
CONSTANTS
    Stream = {c1, c2}
    Session = {}
    Pusher = {p1, p2}
    Build = {b1, b2, b3}
    None = None
    EvCap = 1
    MaxStored = 2
    MaxBuilds = 2
    MaxEvents = 3
    MaxReports = 3
SYMMETRY Symmetric
SPECIFICATION EvSpec
INVARIANTS
    EvTypeOK
    OneOrder
    ListThenNews
    SeamIsTheOnlyLoss
    AnnouncedIsStored
CHECK_DEADLOCK FALSE
