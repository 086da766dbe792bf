\* The restart after an automatic rollback fails
CONSTANTS
    None = None
    Partial = Partial
    app = app
    plain = plain
    good = good
    bad = bad
    forged = forged
    App = {app}
    Version = {good, bad}
    DepId = {d1, d2, d3}
    HasKey = {app}
    Signed = {good, bad}
    HasHealthCheck = {app}
    Healthy = {good}
    AutoRollback = {app}
    MayFail <- NoCrash
    MaxHist = 1
    MaxLive = 2
SPECIFICATION Spec
INVARIANTS
    RolledBackIsRunning
