CONSTANTS
    Vars = {v1, v2}
    Errs = {e1, e2}
    None = None
    MaxDepth = 4
SPECIFICATION Spec
SYMMETRY Symmetry
INVARIANTS LeavesNothing
PROPERTY ImplementsUnwinding
