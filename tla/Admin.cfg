SPECIFICATION AdSpec
CONSTANTS
    Proc <- MCProc
    Data <- MCData
    Empty <- MCEmpty
    Bootstrap <- MCBootstrap
    None = None
    NoFile = NoFile
    Torn = Torn
    User = {"alice", "bob"}
    App = {"web", "site"}
    Role = {"admin", "viewer"}
    Setting = {"good", "bad"}
    Valid = {"good"}
    Static = {"site"}
    FixedKey = TRUE
    Request = {r1, r2}
    Main = Main
    Unknown = Unknown
    MaxRestarts = 1
    MaxFaults = 2
    MaxRequests = 3
SYMMETRY Symmetry
INVARIANTS
    AdTypeOK
    AckedSurvives
    AdminRemains
PROPERTIES
    ImplementsDurable
CHECK_DEADLOCK FALSE
