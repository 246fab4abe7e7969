CONSTANTS
    t1 = t1
    t2 = t2
    Thread = {t1, t2}
    TagMod = 16
    InvalidTag = 3
    FreshTag = {0, 1, 3}
    SizeMod = 16
    MaxCalls <- Calls
SPECIFICATION Spec
INVARIANTS
    ListsIntact
    MatchingTagTellsTruth
PROPERTIES
    ImplementsFifo
