------------------------------ MODULE MCOutbox ------------------------------
(***************************************************************************)
(* Instances of Outbox for TLC.                                            *)
(***************************************************************************)
EXTENDS Outbox, TLC

\* Everything that can go wrong at once.
AllFaults == FaultKind

\* Faults that pass: errors of Redis and of the database, and one crash.
PassingFaults == {"redis", "database", "crash"}

\* Rows in the order of their creation; the second cannot be mapped to a job.
TwoDispatches == {1, 2}
ThreeDispatches == {1, 2, 3}
SecondInvalid == {2}

\* Batches are interchangeable, and so are workers.
BatchSymmetry == Permutations(Batch) \cup Permutations(Worker)
=============================================================================
