------------------------- MODULE MCMediaProcessing -------------------------
(* Small instances of MediaProcessing for TLC.                             *)
EXTENDS MediaProcessing, TLC

\* Dead, stalled and disconnected workers; storage and media tools work.
ProcessFaults == {"database", "lostAck", "crash", "stall"}
HandlerOnly   == {"handler", "cleanup"}
StallOnly     == {"stall"}
CrashOnly     == {"crash"}

\* Executions are interchangeable.
ExecutionSymmetry == Permutations(Execution)

=============================================================================
