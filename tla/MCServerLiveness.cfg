SPECIFICATION FairSpec
CONSTANTS
    Task = {t1, t2}
    Other = {foreign}
    NoTask = NoTask
    NoKey = NoKey
    MaxPolls = 0
    MaxFaults = 0
    DeleteOp = "delete"
    ServerKey = "vsphere_server_id"
    Key <- MCKey
    OpName <- MCLiveOps
    Nodes <- MCWorkedOn
PROPERTIES
    OperationsEnd
