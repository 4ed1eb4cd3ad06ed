SPECIFICATION Spec
CONSTANTS
    f = f
    g = g
    h = h
    main = main
    Fns <- MCFns
    HasTry <- MCHasTry
    Main = main
    Hot = 1
    MaxDepth = 4
CONSTRAINT OneExposed
SYMMETRY MCSymmetry
CHECK_DEADLOCK FALSE
INVARIANTS HeldObjectsLiveUndisturbed BailoutsToldApart ExceptionsArrive
PROPERTIES OnlyRecursionUnmaps
