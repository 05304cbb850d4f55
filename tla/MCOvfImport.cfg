SPECIFICATION OvfSpec
CONSTANTS
    Disks = 2
INVARIANTS
    OvfTypeOK
PROPERTIES
    LeaseEnds
