\* One worker that claims one row at a time; tokens enough that a fresh one is always to be had.
CONSTANTS
    Dispatch <- TwoDispatches
    Invalid <- SecondInvalid
    Worker = {w1}
    Batch = {b1, b2, b3}
    NoBatch = NoBatch
    BatchSize = 1
    Concurrency = 1
    MaxCrashes = 1
    Faults <- PassingFaults
SPECIFICATION FairSpec
PROPERTY EveryDispatchSettles
CHECK_DEADLOCK FALSE
