CONSTANTS
    MaxKey = 6
    Names = {}
    Values = {a}
    Nil = Nil
    MaxVic = 1
    HalfMax = 2
SPECIFICATION LengthSpec
INVARIANTS LengthIsBorder HintInside
PROPERTY LengthTerminates
