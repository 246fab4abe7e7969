CONSTANTS
    DataSets <- MCDataSets
    MiniBatch = 2
    PrintCount = 2
    MaxIters = 4
    ValidateEvery = 2
    UIntMod = 16
    RandMax = 7
    Counts = {0, 1, 2, 5, 6}
    FeatureLens = {2, 3}
SPECIFICATION FairTrainerSpec
INVARIANTS
    BatchInBounds
    UsableDataNeverFaults
    ParametersFresh
PROPERTIES
    TrainingCompletes
