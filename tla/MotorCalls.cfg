SPECIFICATION Spec
CONSTANTS
    A = A
    B = B
    Motor = {A, B}
    Targets <- MCTargets
    Powers = {1}
    Directions <- MCDirections
    DefaultPower = 99
    CharSigned = FALSE
    Resets = {"NONE", "ALL"}
    Types = {1}
    MaxCalls = 2
INVARIANTS NoStaleDevice StoppedAfterExit CallsTakeEffect
PROPERTY CallsReturn
