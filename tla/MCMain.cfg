\* One dropped column for four, two features for 55; batches of two rows out
\* of at most three, so that a batch has more than one position.
CONSTANTS
    FeatureLen = 2
    NumLoads = 2
    Dropped = 1
    MaxLines = 3
    RawFiles <- MCRawFiles
    DataSets = {}
    MiniBatch = 2
    PrintCount = 2
    MaxIters = 2
    ValidateEvery = 2
    UIntMod = 10
    RandMax = 3
SPECIFICATION MainSpec
INVARIANTS
    LoaderDeliversUsable
    BatchIsRawRows
