SPECIFICATION Spec
CONSTANTS
    Storage = {s1, s2}
    Nobody = Nobody
    Reserved = 2
    LastUnit = 4
    MaxFile = 3
    MaxFaults = 0
INVARIANT
    OneOwner
SYMMETRY StorageSymmetry
CHECK_DEADLOCK FALSE
