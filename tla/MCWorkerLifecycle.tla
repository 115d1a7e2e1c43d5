--------------------------- MODULE MCWorkerLifecycle ---------------------------
(* Instances of WorkerLifecycle for TLC.                                   *)
EXTENDS WorkerLifecycle, TLC
=============================================================================
