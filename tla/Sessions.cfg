SPECIFICATION Spec
CONSTANTS
    Bricks = {b1, b2}
    Spaced = {b2}
    Silent = {b2}
    Other = other
    None = none
    Junk = junk
    Selections <- MCSelections
    MaxBytecodes = 2
    MaxInvocations = 2
    MaxLines = 1
    MaxOutput = 1
INVARIANTS
    RightBrick
    
PROPERTIES
    InvocationsEnd
