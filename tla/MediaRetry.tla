------------------------------ MODULE MediaRetry ------------------------------
(***************************************************************************)
(* MediaService.retry beside the uploads: a FAILED media gets its next     *)
(* generation in one transaction, and executeIdempotent finalizes the key  *)
(* after that, in a statement of its own.  Whatever goes wrong on the way, *)
(* a refusal included, gives the key back.                                 *)
(*                                                                         *)
(* What the worker makes of a generation is one step here; MediaProcessing *)
(* has it in full.                                                         *)
(***************************************************************************)
EXTENDS PostUploads

CONSTANT MaxGeneration   \* bound on the generations of a media

ASSUME GenerationAssumption == MaxGeneration \in Nat \ {0}

VARIABLES
    status,      \* Media.processingStatus
    generation,  \* Media.processingGeneration
    seen,        \* the generation a retry has read
    opened       \* how often retries have opened a generation of a media

retryVars == <<status, generation, seen, opened>>
allVars   == <<vars, retryVars>>

RetryInit ==
    /\ Init
    /\ status     = [m \in Media |-> "PENDING"]
    /\ generation = [m \in Media |-> 1]
    /\ seen       = [r \in Request |-> 0]
    /\ opened     = [m \in Media |-> [g \in 1..MaxGeneration |-> 0]]

MediaOf(r) == InputOf(r).media

\* What a retry has read lives as long as its handler.
SeenBy(R) == seen' = [r \in Request |-> IF r \in R THEN seen[r] ELSE 0]
StillRetrying == {r \in Request : pc'[r] \in {"claiming", "finalizing"}}

----------------------------------------------------------------------------
(* The transaction of retry: a read, then an update that must find what     *)
(* was read.                                                                *)

\* Slip: a retry is refused only while the media is being worked on.
NotPending(m) == status[m] # "PENDING"

HasFailed(m) == status[m] = "FAILED"

RetryReads(r) ==
    /\ pc[r] = "retrying"
    /\ LET m == MediaOf(r) IN
       \/ /\ mediaPost[m] # NoPost /\ HasFailed(m)
          /\ Goto(r, "retrying", "claiming")
          /\ seen' = [seen EXCEPT ![r] = generation[m]]
       \/ /\ mediaPost[m] = NoPost \/ ~HasFailed(m)
          /\ Goto(r, "retrying", "releasing")
          /\ UNCHANGED seen
    /\ UNCHANGED <<record, asked, answer, rows, originals, locals,
                   status, generation, opened>>

\* Slip: the generation is not compared with the one read.
StatusAsRead(r) == status[MediaOf(r)] = "FAILED"

AsRead(r) == /\ status[MediaOf(r)] = "FAILED"
             /\ generation[MediaOf(r)] = seen[r]

NextGeneration(r) == seen[r] + 1

Open(r) ==
    /\ status'     = [status EXCEPT ![MediaOf(r)] = "PENDING"]
    /\ generation' = [generation EXCEPT ![MediaOf(r)] = NextGeneration(r)]
    /\ opened'     = [opened EXCEPT ![MediaOf(r)][NextGeneration(r)] = @ + 1]

RetryClaims(r) ==
    /\ pc[r] = "claiming"
    /\ \/ /\ AsRead(r)
          /\ Open(r)
          /\ Goto(r, "claiming", "finalizing")
          /\ UNCHANGED seen
       \/ /\ ~AsRead(r)
          /\ Goto(r, "claiming", "releasing")
          /\ SeenBy(Request \ {r})
          /\ UNCHANGED <<status, generation, opened>>
    /\ UNCHANGED <<record, asked, answer, rows, originals, locals>>

\* The transaction fails; under "lostAck" it commits and its answer is lost.
RetryErrors(r) ==
    /\ \/ /\ "database" \in Faults
          /\ \E from \in {"retrying", "claiming"} : Goto(r, from, "releasing")
          /\ UNCHANGED <<status, generation, opened>>
       \/ /\ "lostAck" \in Faults
          /\ Goto(r, "claiming", "releasing")
          /\ AsRead(r)
          /\ Open(r)
    /\ SeenBy(Request \ {r})
    /\ UNCHANGED <<record, asked, answer, rows, originals, locals>>

----------------------------------------------------------------------------
(* executeIdempotent, after its action.                                     *)

\* Slip: the media is read again after the transaction.
RetriedAsItIsNow(r) == [kind |-> "retried", media |-> MediaOf(r),
                        generation |-> generation[MediaOf(r)]]

Retried(r) == [kind |-> "retried", media |-> MediaOf(r),
               generation |-> NextGeneration(r)]

FinalizeRetry(r) ==
    /\ pc[r] = "finalizing"
    /\ record' = Finalized(KeyOf(r), Retried(r))
    /\ Answer(r, Retried(r))
    /\ SeenBy(Request \ {r})
    /\ UNCHANGED <<asked, rows, originals, locals, status, generation, opened>>

\* finalize is inside the try: its failure releases the key, even one that it
\* has FINALIZED.
FinalizeRetryErrors(r) ==
    /\ Goto(r, "finalizing", "releasing")
    /\ \/ "database" \in Faults /\ UNCHANGED record
       \/ "lostAck" \in Faults /\ record' = Finalized(KeyOf(r), Retried(r))
    /\ SeenBy(Request \ {r})
    /\ UNCHANGED <<asked, answer, rows, originals, locals, status, generation, opened>>

\* The worker ends a generation; the last one within the bound does not fail.
WorkerSettles(m) ==
    /\ mediaPost[m] # NoPost
    /\ status[m] = "PENDING"
    /\ \/ status' = [status EXCEPT ![m] = "COMPLETED"]
       \/ /\ generation[m] < MaxGeneration
          /\ status' = [status EXCEPT ![m] = "FAILED"]
    /\ UNCHANGED <<vars, generation, seen, opened>>

----------------------------------------------------------------------------
RetryNext ==
    \/ /\ Next
       /\ SeenBy(StillRetrying)
       /\ UNCHANGED <<status, generation, opened>>
    \/ \E r \in Request : \/ RetryReads(r) \/ RetryClaims(r) \/ FinalizeRetry(r)
                          \/ RetryErrors(r) \/ FinalizeRetryErrors(r)
    \/ \E m \in Media : WorkerSettles(m)

RetrySpec == RetryInit /\ [][RetryNext]_allVars

----------------------------------------------------------------------------
(* Properties.                                                              *)

\* Every variable has its type; a retry never holds the last generation.
RetryTypeOK ==
    /\ TypeOK
    /\ status \in [Media -> {"PENDING", "COMPLETED", "FAILED"}]
    /\ generation \in [Media -> 1..MaxGeneration]
    /\ seen \in [Request -> 0..(MaxGeneration - 1)]
    /\ opened \in [Media -> [1..MaxGeneration -> Nat]]

\* However many retries of a media meet, each that goes through opens a
\* generation of its own: none is opened twice and none is skipped.
EachRetryOpensItsGeneration ==
    \A m \in Media, g \in 2..MaxGeneration :
        opened[m][g] = IF g <= generation[m] THEN 1 ELSE 0

\* A retry that is answered as done was done, and no other key is answered with
\* the generation it opened, even when handlers outlive their leases and the
\* database loses its answers.
RetryIsBacked ==
    \A k \in Key :
        record[k].state = "FINALIZED" /\ record[k].outcome.kind = "retried" =>
            /\ generation[record[k].outcome.media] >= record[k].outcome.generation
            /\ \A other \in Key \ {k} :
                 record[other].state = "FINALIZED" =>
                    record[other].outcome # record[k].outcome
=============================================================================
