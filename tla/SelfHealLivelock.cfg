\* Nothing fails, but a poll may come while the previous deployment runs
CONSTANTS
    None = None
    Partial = Partial
    app = app
    v1 = v1
    v2 = v2
    App = {app}
    Version = {v1}
    DepId = {d1, d2, d3}
    HasKey = {}
    Signed = {v1}
    HasHealthCheck = {app}
    Healthy = {v1}
    AutoRollback = {}
    MayFail <- NoFaults
    MaxHist = 1
    MaxLive = 2
    AutoApp = {app}
    MaxRestarts = 0
SPECIFICATION RFairSpec
PROPERTIES
    CatchesUp
