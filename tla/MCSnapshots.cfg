SPECIFICATION Spec
CONSTANTS
    Task = {t1, t2, t3}
    Other = {foreign}
    Name = {daily, weekly}
    NoName = NoName
    NoTask = NoTask
    NoKey = NoKey
    MaxPolls = 0
    MaxFaults = 1
    DeleteOp = "delete"
    SnapshotKey = "vsphere_snapshot_id"
    Key <- MCKey
    OpName <- MCOpName
INVARIANTS
    TypeOK
    NamesUnique
    SuccessMeansDone
PROPERTIES
    OnlyTheNamedGoes
SYMMETRY Symmetry
CHECK_DEADLOCK FALSE
