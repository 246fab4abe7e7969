\* Three threads on a lock with two reader slots, so that the readers can
\* run out of slots; IntHalf is the least value LockAssumption allows.
CONSTANTS
    Thread = {t1, t2, t3}
    kWrite = 2
    IntHalf = 4
SPECIFICATION FairSpec
INVARIANTS
    QuotaAccounted
    MutualExclusion
PROPERTIES
    ReadFailureHasCause
    WriteFailureHasCause
    TryReturns
