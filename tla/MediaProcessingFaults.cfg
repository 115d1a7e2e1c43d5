CONSTANTS
    Media = {m1}
    Execution = {e1, e2}
    NoExecution = NoExecution
    MaxAttempts = 2
    MaxGeneration = 2
    MaxStalls = 1
    NumArtifacts = 2
    Faults <- ProcessFaults
SPECIFICATION Spec
CHECK_DEADLOCK FALSE
SYMMETRY ExecutionSymmetry
INVARIANTS
    TypeOK
    RowConsistent
    PublicationComplete
PROPERTY CompletedIsFinal
