\* Files of every kind; a request holds two, of five units altogether.
CONSTANTS
    Requests <- InstanceRequests
    Limits <- InstanceLimits
    Faults <- AllFaults
SPECIFICATION PipelineSpec
INVARIANTS
    PipelineTypeOK
    AcceptedIsGenuine
    RefusalIsDeserved
    AcceptedFitsRequest
    AcceptedIsProcessable
    PublishedIsComplete
PROPERTY EveryFileSettles
CHECK_DEADLOCK FALSE
