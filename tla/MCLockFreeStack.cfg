\* Three threads, two nodes, and calls enough for a delayed thread to meet
\* the same node again at the head of a list.
CONSTANTS
    Thread = {t1, t2, t3}
    Value = {a, b}
    Limit = 2
    TagMod = 64
    SizeMod = 8
    MaxCalls = 5
SPECIFICATION Spec
SYMMETRY Symmetry
INVARIANTS
    ListsIntact
PROPERTIES
    ImplementsBoundedStack
    CasFailsOnlyForProgress
