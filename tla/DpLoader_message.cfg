SPECIFICATION Spec
CONSTANTS
    Bytes = {{}, {0}, {2}, {4}, {7}, {0, 1, 2, 3, 4, 5, 6, 7}}
    MaxBytes = 3
INVARIANT TypeOK
INVARIANT UnescapeUndoesEscape
INVARIANT WholeNeverOverruns
INVARIANT DelimitersAreMarked
INVARIANT CrcIsRemainder
CHECK_DEADLOCK FALSE
