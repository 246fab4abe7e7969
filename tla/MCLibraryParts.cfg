CONSTANTS
    e1 = e1
    e2 = e2
    e3 = e3
    l1 = l1
    l2 = l2
    r1 = r1
    r2 = r2
    f1 = f1
    f2 = f2
    f3 = f3
    t1 = t1
    t2 = t2
    p1 = p1
    p2 = p2
    ListElem = {e1, e2, e3}
    ListId = {l1, l2}
    DElem = {e1, e2, e3}
    DListId = {l1, l2}
    DRoot = {r1, r2}
    AutoDelete = TRUE
    GroupFuture = {f1, f2, f3}
    GroupList = {l1, l2}
    PoolThread = {t1, t2}
    PoolObject = {e1, e2}
    PoolTagMod = 32
    PoolSizeMod = 8
    PoolCalls = 7
    Char = {1, 2, 3}
    Text <- Texts
    Pattern <- Patterns
    Piece = {p1, p2}
    SizeMax = 15
    IntHalf = 4
    LockThread = {t1, t2}
    Lock = {l1, l2}
    LockKinds = {"simple", "restrict", "recursive", "adaptive", "spin", "rw", "null"}
    MaxScopes = 3
    SThread = {t1, t2}
    MaxObjects = 3
    LogThread = {t1, t2}
    Form = {"if", "block", "sampled", "trace"}
    NextFunc = {"const", "linear", "double"}
    InitNext = {0, 1, 2}
    Level = {1, 2}
    MaxTouch = 4
    MaxAdmin = 1
SPECIFICATION Spec
CHECK_DEADLOCK FALSE
INVARIANTS
    ListsAreSequences
    PoolKept
    PieceIsAString
    ScopesHoldLocks
    OneInstance
    InstanceReturnsLive
    AllDestroyedAtExit
    SampledAsPromised
    RecordsAsTested
