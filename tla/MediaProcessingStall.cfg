CONSTANTS
    Media = {m1}
    Execution = {e1, e2}
    NoExecution = NoExecution
    MaxAttempts = 1
    MaxGeneration = 1
    MaxStalls = 1
    NumArtifacts = 1
    Faults <- StallOnly
SPECIFICATION Spec
CHECK_DEADLOCK FALSE
INVARIANT PublishedObjectsExist
