\* A deployment is over before the next one; the process may restart once
CONSTANTS
    None = None
    Partial = Partial
    app = app
    v1 = v1
    v2 = v2
    App = {app}
    Version = {v1, v2}
    DepId = {d1, d2, d3}
    HasKey = {}
    Signed = {v1, v2}
    HasHealthCheck = {app}
    Healthy = {v1, v2}
    AutoRollback = {}
    MayFail <- Crashes
    MaxHist = 1
    MaxLive = 1
    AutoApp = {app}
    MaxRestarts = 1
SPECIFICATION RFairSpec
INVARIANTS
    PollTypeOK
PROPERTIES
    Converges
    DriftIsShown
