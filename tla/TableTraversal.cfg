CONSTANTS
    MaxKey = 4
    Names = {name}
    Values = {a}
    Nil = Nil
SPECIFICATION TraversalSpec
INVARIANTS Canonical ArrayTailUnused VisitsEachOnce
PROPERTIES ImplementsLuaTable TraversalEnds
