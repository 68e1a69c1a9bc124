SPECIFICATION Spec
CONSTANTS
    Radix = 2
    Modes = {TRUE, FALSE}
    BareRecords = FALSE
    MaxData = 3
INVARIANTS TypeOK DataMatchesLength
PROPERTY ImplementsHexRecords
