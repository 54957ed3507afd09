CONSTANTS
    Main = main
    Plain = {a, b}
    Coros = {c}
    MaxLinks = 4
SPECIFICATION Spec
SYMMETRY Symmetry
INVARIANTS FinalizedOnce
PROPERTIES MainTakesOnlyGarbage TakesAllGarbage
CHECK_DEADLOCK FALSE
