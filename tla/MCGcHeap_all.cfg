CONSTANTS
    o1 = o1
    o2 = o2
    o3 = o3
    Obj = {o1, o2, o3}
    Kinds = {"list", "class", "inst", "str", "num"}
    Str = {"a"}
    NoObj = NoObj
    Unguarded = {"num"}
    UseTraits = TRUE
SPECIFICATION HeapSpec
SYMMETRY Symmetry
CONSTRAINT SmallGraph
INVARIANTS NoDangling RefCountExact
PROPERTY FinalizedOnceBeforeFree
CHECK_DEADLOCK FALSE
