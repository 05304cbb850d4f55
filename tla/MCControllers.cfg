CONSTANTS
    a = a
    b = b
    x = x
    Card = {a, b}
    Own = {}
    Server = Server
    Template = Template
    Nobody = Nobody
    Type = {x}
    Absent = Absent
    TypeOf <- MCTypeOf
    MaxKey = 3
    MaxTask = 3
    MaxFaults = 1
SPECIFICATION Spec
INVARIANTS TypeOK OwnDevice SuccessMeansDone NotFoundHasReason
SYMMETRY MCSymmetry
CHECK_DEADLOCK FALSE
