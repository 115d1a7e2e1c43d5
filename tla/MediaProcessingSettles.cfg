CONSTANTS
    Media = {m1}
    Execution = {e1, e2}
    NoExecution = NoExecution
    MaxAttempts = 2
    MaxGeneration = 2
    MaxStalls = 1
    NumArtifacts = 1
    Faults <- HandlerOnly
SPECIFICATION FairSpec
CHECK_DEADLOCK FALSE
INVARIANT PublishedObjectsExist
PROPERTIES
    FailedLeftOnlyByRetry
    GenerationSettles
