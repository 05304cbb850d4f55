SPECIFICATION Spec
CONSTANTS
    Storage = {s1, s2}
    Nobody = Nobody
    Reserved = 2
    LastUnit = 3
    MaxFile = 3
    MaxFaults = 1
INVARIANTS
    TypeOK
    OwnDisk
    NoDiskLeft
SYMMETRY StorageSymmetry
CHECK_DEADLOCK FALSE
