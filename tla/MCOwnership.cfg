CONSTANTS
    c1 = c1
    c2 = c2
    o1 = o1
    o2 = o2
    o3 = o3
    s1 = s1
    s2 = s2
    s3 = s3
    w = w
    owning = owning
    f1 = f1
    f2 = f2
    p1 = p1
    p2 = p2
    p3 = p3
    ClosureId = {c1, c2}
    ClosureThread = {w, owning}
    Shape <- Shapes
    MaxDepth = 2
    Worker = w
    Object = {o1, o2, o3}
    Scope = {s1, s2, s3}
    Kind <- Kinds
    RefThread = {w, owning}
    MaxRefs = 3
    FutureId = {f1, f2}
    Pointer = {p1, p2, p3}
SPECIFICATION Spec
CHECK_DEADLOCK FALSE
INVARIANTS
    ArgumentsInOrder
    ClosuresDeletedOnce
    WrappedClosureOwned
    CallbackAsAnswered
    ObjectsOwnedOnce
    ReferencesCounted
    FuturesCounted
PROPERTIES
    OwnerIsWoken
