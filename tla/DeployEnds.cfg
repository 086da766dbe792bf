\* One app, under fair scheduling: every run ends, and what holds without overlaps
CONSTANTS
    None = None
    Partial = Partial
    app = app
    plain = plain
    good = good
    bad = bad
    forged = forged
    App = {app}
    Version = {good}
    DepId = {d1, d2, d3}
    HasKey = {app}
    Signed = {good}
    HasHealthCheck = {app}
    Healthy = {good}
    AutoRollback = {app}
    MayFail <- NoCrash
    MaxHist = 1
    MaxLive = 2
SPECIFICATION FairSpec
PROPERTIES
    EveryRunEnds
    SyncedWhenSerial
INVARIANTS
    PendingHasRunner
