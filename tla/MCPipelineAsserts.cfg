CONSTANTS
    FeatureLen = 1
    UIntMod = 16
    NumLoads = 2
    Dropped = 4
    MaxLines = 2
    RawFiles <- LabelOnlyFiles
SPECIFICATION Spec
INVARIANTS
    AssertionsHold
