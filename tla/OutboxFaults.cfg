\* Three rows that one batch takes in two chunks, two workers, every fault.
CONSTANTS
    Dispatch <- ThreeDispatches
    Invalid <- SecondInvalid
    Worker = {w1, w2}
    Batch = {b1, b2}
    NoBatch = NoBatch
    BatchSize = 3
    Concurrency = 2
    MaxCrashes = 1
    Faults <- AllFaults
SPECIFICATION Spec
SYMMETRY BatchSymmetry
INVARIANT TypeOK
PROPERTIES
    KeepsPromise
    OnlyTheOwnerSettles
CHECK_DEADLOCK FALSE
