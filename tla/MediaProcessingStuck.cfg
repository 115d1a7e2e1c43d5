CONSTANTS
    Media = {m1}
    Execution = {e1, e2}
    NoExecution = NoExecution
    MaxAttempts = 2
    MaxGeneration = 1
    MaxStalls = 3
    NumArtifacts = 1
    Faults <- CrashOnly
SPECIFICATION FairSpec
CHECK_DEADLOCK FALSE
PROPERTY GenerationSettles
