SPECIFICATION Spec
CONSTANTS
    Top = 8
    Sizes = {1, 2, 4, 8}
    NoIP = NoIP
INVARIANT
    LowestFree
PROPERTY Terminates
CHECK_DEADLOCK FALSE
