\* Two overlapping deployments and no fault at all: the one overtaken runs last
CONSTANTS
    None = None
    Partial = Partial
    app = app
    plain = plain
    good = good
    bad = bad
    forged = forged
    App = {plain}
    Version = {good, bad}
    DepId = {d1, d2, d3}
    HasKey = {}
    Signed = {good, bad}
    HasHealthCheck = {}
    Healthy = {good}
    AutoRollback = {}
    MayFail <- NoFaults
    MaxHist = 1
    MaxLive = 2
SPECIFICATION Spec
INVARIANTS
    SyncedIsInstalled
