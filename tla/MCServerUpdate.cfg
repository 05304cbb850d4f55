SPECIFICATION Spec
CONSTANTS
    Option = {o1, o2}
    Value = {0, 1}
    Empty = 0
    Unset = Unset
    Missing = Missing
    MaxChanges = 2
    MaxFaults = 1
INVARIANTS
    TypeOK
    NothingForgotten
PROPERTIES
    SuccessApplies
CHECK_DEADLOCK FALSE
SYMMETRY Symmetry
