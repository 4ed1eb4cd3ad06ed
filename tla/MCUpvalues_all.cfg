CONSTANTS
    W = 2
    MaxDepth = 2
    MaxUpvals = 3
    Value = {v1, v2}
    None = None
    Exits = {"tail", "unwind", "swallow", "abort"}
    v1 = v1
    v2 = v2
SPECIFICATION Spec
SYMMETRY Symmetry
CONSTRAINT TwoWays
INVARIANTS OpenListSorted SharedWhileReturning OpenInLiveFrameWithin
CHECK_DEADLOCK FALSE
