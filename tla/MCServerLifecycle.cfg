SPECIFICATION Spec
CONSTANTS
    Task = {t1, t2, t3}
    Other = {foreign}
    NoTask = NoTask
    NoKey = NoKey
    MaxPolls = 0
    MaxFaults = 1
    DeleteOp = "delete"
    ServerKey = "vsphere_server_id"
    Key <- MCKey
    OpName <- ServerOps
    Nodes <- MCNodes
INVARIANTS
    TypeOK
    SuccessMeansDone
    CreatedIsReady
    NoStrayMachine
PROPERTIES
    ExternalUntouched
SYMMETRY TaskSymmetry
