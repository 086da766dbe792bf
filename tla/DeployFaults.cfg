\* One app, two deployments at a time, every fault and crashes
CONSTANTS
    None = None
    Partial = Partial
    app = app
    plain = plain
    good = good
    bad = bad
    forged = forged
    App = {app}
    Version = {good, bad, forged}
    DepId = {d1, d2, d3}
    HasKey = {app}
    Signed = {good, bad}
    HasHealthCheck = {app}
    Healthy = {good}
    AutoRollback = {app}
    MayFail <- AllFaults
    MaxHist = 2
    MaxLive = 2
SYMMETRY Ids
SPECIFICATION Spec
INVARIANTS
    TypeOK
    HostExclusive
    SuccessIsInstalled
    RollbackRestoresPrevious
    PreviousNotLost
    RecordedOnce
    NewestIsRecorded
PROPERTIES
    InstallsOnlySigned
    CurrentVersionIsInstalled
    HistoryAppendOnly
    OutcomeIsFinal
    ImplementsAtomic
