CONSTANTS
    Main = main
    Coros = {c1, c2}
    MaxCalls = 7
    MaxPair = 5
    MaxDepth = 3
    MaxHeadroom = 2
SPECIFICATION Spec
INVARIANTS StateMatches NoYieldAcrossNative
PROPERTY ImplementsChain
