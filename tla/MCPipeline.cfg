\* Two files through one DataLoader, each made from up to two raw lines.
CONSTANTS
    FeatureLen = 1
    UIntMod = 5
    NumLoads = 2
    Dropped = 4
    MaxLines = 2
    RawFiles <- AllFiles
SPECIFICATION FairSpec
INVARIANTS
    
    UniformRowsFit
PROPERTIES
    GoodFileLoads
