SPECIFICATION FairSpec
CONSTANTS
    Task = {t1, t2, t3}
    Other = {}
    NoTask = NoTask
    NoKey = NoKey
    MaxPolls = 1
    MaxFaults = 2
    DeleteOp = "delete"
    ResultKey = "vsphere_snapshot_id"
    Key <- MCKey
    OpName <- MCOpName
    Fresh <- MCFresh
    Guarded <- MCGuarded
INVARIANTS
    TypeOK
    UnfinishedTracked
    OneInFlight
    HonestSuccess
    ResultKept
PROPERTIES
    ImplementsSingleFlight
    GuardedEnds
CHECK_DEADLOCK FALSE
