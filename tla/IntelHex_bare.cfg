SPECIFICATION Spec
CONSTANTS
    Radix = 2
    Modes = {FALSE}
    BareRecords = TRUE
    MaxData = 3
INVARIANT DataMatchesLength
