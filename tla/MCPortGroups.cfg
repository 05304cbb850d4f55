SPECIFICATION Spec
CONSTANTS
    Net = {n1, n2}
    Host = {h1, h2}
    NoHost = NoHost
INVARIANTS
    TypeOK
    CreatedEverywhere
    DeletedEverywhere
PROPERTIES
    NoTakeover
SYMMETRY NetSymmetry
