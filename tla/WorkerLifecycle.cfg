\* Two jobs that may come again, one child each, two dependencies.
CONSTANTS
    Job = {j1, j2}
    Dependency = {redis, storage}
    MaxChildren = 1
SPECIFICATION FairSpec
INVARIANTS
    TypeOK
    SettledIsClean
    ShutdownReachesChildren
    RunningIsWatched
    DatabaseOutlivesJobs
    SingleFlight
    StoppedForGood
PROPERTIES
    ShutdownCompletes
    EveryChildSettles
CHECK_DEADLOCK FALSE
