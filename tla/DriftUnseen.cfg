\* No fault and one deployment at a time, but v2 fails its health check
CONSTANTS
    None = None
    Partial = Partial
    app = app
    v1 = v1
    v2 = v2
    App = {app}
    Version = {v1, v2}
    DepId = {d1, d2, d3}
    HasKey = {}
    Signed = {v1, v2}
    HasHealthCheck = {app}
    Healthy = {v1}
    AutoRollback = {}
    MayFail <- NoFaults
    MaxHist = 1
    MaxLive = 1
    AutoApp = {app}
    MaxRestarts = 0
SYMMETRY Ids
SPECIFICATION RSpec
INVARIANTS
    SyncedIsInstalled
