-------------------------- MODULE DispatchDelivery --------------------------
(***************************************************************************)
(* What the outbox promises to a transaction that writes a dispatch row:   *)
(* the job of every dispatch is enqueued, exactly one job however often    *)
(* the row is published; a row is closed only after its job is enqueued    *)
(* and purged only after it is closed; a dispatch that cannot be mapped to *)
(* a job is buried and never enqueued.  Nothing reopens a row.             *)
(***************************************************************************)
CONSTANTS
    Dispatch,
    Invalid    \* the dispatches that cannot be mapped to a job

VARIABLES
    row,       \* "absent", "open", "closed", "buried" or "purged"
    enqueued   \* the dispatches whose job BullMQ has taken

Init ==
    /\ row = [d \in Dispatch |-> "absent"]
    /\ enqueued = {}

Create(d) ==
    /\ row[d] = "absent"
    /\ row' = [row EXCEPT ![d] = "open"]
    /\ UNCHANGED enqueued

Enqueue(d) ==
    /\ row[d] = "open"
    /\ d \notin Invalid
    /\ enqueued' = enqueued \cup {d}
    /\ UNCHANGED row

Close(d) ==
    /\ row[d] = "open"
    /\ d \in enqueued
    /\ row' = [row EXCEPT ![d] = "closed"]
    /\ UNCHANGED enqueued

Bury(d) ==
    /\ row[d] = "open"
    /\ d \in Invalid
    /\ row' = [row EXCEPT ![d] = "buried"]
    /\ UNCHANGED enqueued

Purge(gone) ==
    /\ \A d \in gone : row[d] = "closed"
    /\ row' = [d \in Dispatch |-> IF d \in gone THEN "purged" ELSE row[d]]
    /\ UNCHANGED enqueued

Next ==
    \/ \E d \in Dispatch : Create(d) \/ Enqueue(d) \/ Close(d) \/ Bury(d)
    \/ \E gone \in SUBSET Dispatch : Purge(gone)

Spec == Init /\ [][Next]_<<row, enqueued>>
=============================================================================
