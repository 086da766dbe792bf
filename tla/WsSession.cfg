\* One page that connects again and again, two workers, three events
CONSTANTS
    Stream = {}
    Session = {s1}
    Pusher = {p1}
    Build = {}
    None = None
    EvCap = 2
    MaxStored = 1
    MaxBuilds = 1
    MaxEvents = 3
    MaxReports = 0
    Worker = {w1, w2}
    Chan = {x1, x2, x3, x4, x5}
SPECIFICATION WsFairSpec
INVARIANTS
    WsTypeOK
    CloseIsSafe
    OnlyNewestPushes
PROPERTIES
    WorkersEnd
    SessionEnds
CHECK_DEADLOCK FALSE
