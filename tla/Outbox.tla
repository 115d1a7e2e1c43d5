------------------------------- MODULE Outbox -------------------------------
(***************************************************************************)
(* The transactional outbox of the worker: dispatch rows written by the    *)
(* API's transactions, claimed in batches under a lease                    *)
(* (OutboxClaimRepository), published to BullMQ in chunks                  *)
(* (OutboxDispatcherService, DispatchPublicationService), retried, buried  *)
(* or purged (OutboxCleanupService).                                       *)
(*                                                                         *)
(* A batch is one call of runOnce and stands for its lease token, a fresh  *)
(* UUID.  Clocks are abstracted to "future" and "past".  publishAttempts   *)
(* only chooses the length of a delay, which is abstracted with the clock. *)
(* Every statement on the database is one step.                            *)
(***************************************************************************)
EXTENDS Integers, FiniteSets

CONSTANTS
    Dispatch,     \* dispatch rows; a smaller number was created earlier
    Invalid,      \* those whose payload or mapping publish refuses
    Worker,       \* worker processes
    Batch,        \* concurrent batches; each is its own lease token
    NoBatch,      \* "no lease token"
    BatchSize,    \* outbox.batchSize
    Concurrency,  \* outbox.publishConcurrency
    MaxCrashes,   \* bound on worker crashes
    Faults        \* what may go wrong

FaultKind == {"redis", "database", "lostAck", "crash", "slow"}

ASSUME DispatchAssumption == Dispatch \subseteq Nat /\ Invalid \subseteq Dispatch
ASSUME BatchAssumption == NoBatch \notin Batch
ASSUME BoundsAssumption ==
    /\ BatchSize \in Nat \ {0}
    /\ Concurrency \in Nat \ {0}
    /\ MaxCrashes \in Nat
ASSUME FaultsAssumption == Faults \subseteq FaultKind

VARIABLES
    status,      \* ProcessingDispatch.status; "absent" and "deleted": no row
    leaseToken,  \* ProcessingDispatch.leaseToken
    lease,       \* ProcessingDispatch.leaseExpiresAt
    retryAt,     \* ProcessingDispatch.nextAttemptAt
    jobs,        \* the dispatches whose job id BullMQ knows
    step,        \* what publish is about to do with a dispatch of a batch
    runner,      \* the worker of a batch
    awaited,     \* batches that runOnce still awaits: its running flag
    crashes

rows == <<status, leaseToken, lease, retryAt>>
runs == <<step, runner, awaited>>
vars == <<status, leaseToken, lease, retryAt, jobs, step, runner, awaited,
          crashes>>

Time == {"none", "future", "past"}

\* "out": not in the batch, or publish is through with it; "queued": in a
\* later chunk.
PubStep == {"out", "queued", "adding", "marking", "retrying", "burying"}
InFlight == PubStep \ {"out", "queued"}

Init ==
    /\ status     = [d \in Dispatch |-> "absent"]
    /\ leaseToken = [d \in Dispatch |-> NoBatch]
    /\ lease      = [d \in Dispatch |-> "none"]
    /\ retryAt    = [d \in Dispatch |-> "none"]
    /\ jobs       = {}
    /\ step       = [b \in Batch |-> [d \in Dispatch |-> "out"]]
    /\ runner     \in [Batch -> Worker]
    /\ awaited    = {}
    /\ crashes    = 0

----------------------------------------------------------------------------
(* The rows.                                                                *)

\* createWithDispatch, or a manual retry: the row commits with its media.
Create(d) ==
    /\ status[d] = "absent"
    /\ status' = [status EXCEPT ![d] = "PENDING"]
    /\ UNCHANGED <<leaseToken, lease, retryAt, jobs, runs, crashes>>

\* Time passes.  A lease of 30 seconds outlives a publication unless the
\* worker is slow.
LeaseExpires(d) ==
    /\ lease[d] = "future"
    /\ "slow" \in Faults \/ step[leaseToken[d]][d] = "out"
    /\ lease' = [lease EXCEPT ![d] = "past"]
    /\ UNCHANGED <<status, leaseToken, retryAt, jobs, runs, crashes>>

RetryDue(d) ==
    /\ retryAt[d] = "future"
    /\ retryAt' = [retryAt EXCEPT ![d] = "past"]
    /\ UNCHANGED <<status, leaseToken, lease, jobs, runs, crashes>>

\* Slip: a claimed row is never claimed again.
ClaimableOnce(d) ==
    \/ status[d] = "PENDING"
    \/ status[d] = "RETRY_WAIT" /\ retryAt[d] \in {"none", "past"}

Claimable(d) ==
    \/ status[d] = "PENDING"
    \/ status[d] = "RETRY_WAIT" /\ retryAt[d] \in {"none", "past"}
    \/ status[d] = "PUBLISHING" /\ lease[d] = "past"

\* The first BatchSize of a set in the order of creation.
Oldest(S) == {d \in S : Cardinality({x \in S : x < d}) < BatchSize}

Candidates == Oldest({d \in Dispatch : Claimable(d)})

TakeLease(b, S) ==
    /\ status'     = [d \in Dispatch |-> IF d \in S THEN "PUBLISHING" ELSE status[d]]
    /\ leaseToken' = [d \in Dispatch |-> IF d \in S THEN b ELSE leaseToken[d]]
    /\ lease'      = [d \in Dispatch |-> IF d \in S THEN "future" ELSE lease[d]]
    /\ UNCHANGED retryAt

\* Slip: the status alone guards the row.
HoldsStatus(b, d) == status[d] = "PUBLISHING"

\* The guard of markPublished, markRetryWait and markDead; the expiry is not
\* looked at.
Holds(b, d) == status[d] = "PUBLISHING" /\ leaseToken[d] = b

\* Slip: the token is cleared and the expiry is not.
RecordTokenOnly(b, d, to, at) ==
    IF Holds(b, d)
    THEN /\ status'     = [status EXCEPT ![d] = to]
         /\ leaseToken' = [leaseToken EXCEPT ![d] = NoBatch]
         /\ retryAt'    = [retryAt EXCEPT ![d] = at]
         /\ UNCHANGED lease
    ELSE UNCHANGED rows

\* One guarded update; when the row is no longer the batch's, it does nothing.
Record(b, d, to, at) ==
    IF Holds(b, d)
    THEN /\ status'     = [status EXCEPT ![d] = to]
         /\ leaseToken' = [leaseToken EXCEPT ![d] = NoBatch]
         /\ lease'      = [lease EXCEPT ![d] = "none"]
         /\ retryAt'    = [retryAt EXCEPT ![d] = at]
    ELSE UNCHANGED rows

MarkPublished(b, d) == Record(b, d, "PUBLISHED", "none")
MarkRetryWait(b, d) == Record(b, d, "RETRY_WAIT", "future")
MarkDead(b, d)      == Record(b, d, "DEAD", retryAt[d])

----------------------------------------------------------------------------
(* runOnce.                                                                 *)

Idle(w) == \A b \in awaited : runner[b] # w

\* randomUUID: no row and no publication knows this token.
Fresh(b) ==
    /\ b \notin awaited
    /\ \A d \in Dispatch : leaseToken[d] # b /\ step[b][d] = "out"

ClaimBatch(w, b) ==
    /\ Idle(w)
    /\ Fresh(b)
    /\ TakeLease(b, Candidates)
    /\ step' = [step EXCEPT ![b] =
                  [d \in Dispatch |-> IF d \in Candidates THEN "queued" ELSE "out"]]
    /\ runner'  = [runner EXCEPT ![b] = w]
    /\ awaited' = awaited \cup {b}
    /\ UNCHANGED <<jobs, crashes>>

\* The claim committed and the worker does not know: runOnce ends.
ClaimLost(w, b) ==
    /\ "lostAck" \in Faults
    /\ Idle(w)
    /\ Fresh(b)
    /\ TakeLease(b, Candidates)
    /\ UNCHANGED <<jobs, runs, crashes>>

Queued(b)  == {d \in Dispatch : step[b][d] = "queued"}
Working(b) == {d \in Dispatch : step[b][d] \in InFlight}

\* payloadFor and the mapping check of publish.
FirstStep(d) == IF d \in Invalid THEN "burying" ELSE "adding"

\* Promise.all over the next slice, after the previous one is through.
NextChunk(b) ==
    /\ b \in awaited
    /\ Working(b) = {}
    /\ \E chunk \in SUBSET Queued(b) :
         /\ chunk # {}
         /\ Cardinality(chunk) <= Concurrency
         /\ chunk = Queued(b) \/ Cardinality(chunk) = Concurrency
         /\ step' = [step EXCEPT ![b] =
                       [d \in Dispatch |-> IF d \in chunk THEN FirstStep(d)
                                                          ELSE step[b][d]]]
    /\ UNCHANGED <<rows, jobs, runner, awaited, crashes>>

\* Rows published before the retention period.
Purgeable(d) == status[d] = "PUBLISHED"

\* OutboxCleanupService.runOnce: some of the published rows are old enough.
\* If it fails, nothing is purged; runOnce is over either way.
Cleanup(b) ==
    /\ b \in awaited
    /\ Queued(b) = {} /\ Working(b) = {}
    /\ \E old \in SUBSET {d \in Dispatch : Purgeable(d)} :
         status' = [d \in Dispatch |-> IF d \in old THEN "deleted" ELSE status[d]]
    /\ awaited' = awaited \ {b}
    /\ UNCHANGED <<leaseToken, lease, retryAt, jobs, step, runner, crashes>>

----------------------------------------------------------------------------
(* publish.                                                                 *)

Goto(b, d, from, to) ==
    /\ step[b][d] = from
    /\ step' = [step EXCEPT ![b][d] = to]

\* queue.add; a job id that BullMQ already knows is not added again.
Add(b, d) ==
    /\ Goto(b, d, "adding", "marking")
    /\ jobs' = jobs \cup {d}
    /\ UNCHANGED <<rows, runner, awaited, crashes>>

\* Slip: the rejection goes unnoticed.
AddErrorsUnnoticed(b, d) ==
    /\ "redis" \in Faults
    /\ Goto(b, d, "adding", "marking")
    /\ jobs' \in {jobs, jobs \cup {d}}
    /\ UNCHANGED <<rows, runner, awaited, crashes>>

AddErrors(b, d) ==
    /\ "redis" \in Faults
    /\ Goto(b, d, "adding", "retrying")
    /\ jobs' \in {jobs, jobs \cup {d}}
    /\ UNCHANGED <<rows, runner, awaited, crashes>>

Publish(b, d) ==
    /\ Goto(b, d, "marking", "out")
    /\ MarkPublished(b, d)
    /\ UNCHANGED <<jobs, runner, awaited, crashes>>

PublishErrors(b, d) ==
    /\ Goto(b, d, "marking", "retrying")
    /\ \/ "database" \in Faults /\ UNCHANGED rows
       \/ "lostAck" \in Faults /\ MarkPublished(b, d)
    /\ UNCHANGED <<jobs, runner, awaited, crashes>>

Retry(b, d) ==
    /\ Goto(b, d, "retrying", "out")
    /\ MarkRetryWait(b, d)
    /\ UNCHANGED <<jobs, runner, awaited, crashes>>

Bury(b, d) ==
    /\ Goto(b, d, "burying", "out")
    /\ MarkDead(b, d)
    /\ UNCHANGED <<jobs, runner, awaited, crashes>>

\* publish rejects: so does runOnce, which drops the chunks to come and lets
\* the next run start while the rest of this chunk is still at work.
Abort(b, d) ==
    /\ step' = [step EXCEPT ![b] =
                  [x \in Dispatch |-> IF x = d \/ (b \in awaited /\ step[b][x] = "queued")
                                      THEN "out" ELSE step[b][x]]]
    /\ awaited' = awaited \ {b}

RecordErrors(b, d) ==
    /\ step[b][d] \in {"retrying", "burying"}
    /\ Abort(b, d)
    /\ \/ "database" \in Faults /\ UNCHANGED rows
       \/ /\ "lostAck" \in Faults
          /\ IF step[b][d] = "retrying" THEN MarkRetryWait(b, d) ELSE MarkDead(b, d)
    /\ UNCHANGED <<jobs, runner, crashes>>

\* The worker process dies and is started again.
Crash(w) ==
    /\ "crash" \in Faults
    /\ crashes < MaxCrashes
    /\ crashes' = crashes + 1
    /\ step' = [b \in Batch |-> IF runner[b] = w THEN [d \in Dispatch |-> "out"]
                                                ELSE step[b]]
    /\ awaited' = {b \in awaited : runner[b] # w}
    /\ UNCHANGED <<rows, jobs, runner>>

----------------------------------------------------------------------------
Act(b, d) ==
    \/ Add(b, d) \/ Publish(b, d) \/ Retry(b, d) \/ Bury(b, d)

Err(b, d) == AddErrors(b, d) \/ PublishErrors(b, d) \/ RecordErrors(b, d)

Next ==
    \/ \E d \in Dispatch : Create(d) \/ LeaseExpires(d) \/ RetryDue(d)
    \/ \E w \in Worker, b \in Batch : ClaimBatch(w, b) \/ ClaimLost(w, b)
    \/ \E b \in Batch : NextChunk(b) \/ Cleanup(b)
    \/ \E b \in Batch, d \in Dispatch : Act(b, d) \/ Err(b, d)
    \/ \E w \in Worker : Crash(w)

Spec == Init /\ [][Next]_vars

(* The poll timer keeps starting runs, a run goes on, time passes; and the  *)
(* faults of Redis and of the database do not last: what is tried again and *)
(* again is done in the end.                                                *)
Fairness ==
    /\ \A w \in Worker : WF_vars(\E b \in Batch : ClaimBatch(w, b))
    /\ \A b \in Batch : WF_vars(NextChunk(b)) /\ WF_vars(Cleanup(b))
    /\ \A b \in Batch, d \in Dispatch : WF_vars(Act(b, d))
    /\ \A d \in Dispatch :
         /\ WF_vars(LeaseExpires(d)) /\ WF_vars(RetryDue(d))
         /\ SF_vars(\E b \in Batch : Add(b, d))
         /\ SF_vars(\E b \in Batch : Holds(b, d) /\ Publish(b, d))
         /\ SF_vars(\E b \in Batch : Holds(b, d) /\ Bury(b, d))

FairSpec == Spec /\ Fairness

----------------------------------------------------------------------------
(* Properties.                                                              *)

\* Every variable has its type, and the lease columns of a row are set exactly
\* while it is PUBLISHING: without an expiry no later batch could take over the
\* row of a dead worker.
TypeOK ==
    /\ status \in [Dispatch -> {"absent", "PENDING", "PUBLISHING", "RETRY_WAIT",
                                "PUBLISHED", "DEAD", "deleted"}]
    /\ leaseToken \in [Dispatch -> Batch \cup {NoBatch}]
    /\ lease \in [Dispatch -> Time]
    /\ retryAt \in [Dispatch -> Time]
    /\ jobs \subseteq Dispatch
    /\ step \in [Batch -> [Dispatch -> PubStep]]
    /\ runner \in [Batch -> Worker]
    /\ awaited \subseteq Batch
    /\ crashes \in 0..MaxCrashes
    /\ \A d \in Dispatch :
          /\ leaseToken[d] # NoBatch <=> status[d] = "PUBLISHING"
          /\ lease[d] # "none" <=> status[d] = "PUBLISHING"
          /\ status[d] = "RETRY_WAIT" => retryAt[d] # "none"

RowOf ==
    [d \in Dispatch |->
        CASE status[d] = "absent"    -> "absent"
          [] status[d] = "PUBLISHED" -> "closed"
          [] status[d] = "deleted"   -> "purged"
          [] status[d] = "DEAD"      -> "buried"
          [] OTHER                   -> "open"]

Delivery == INSTANCE DispatchDelivery WITH row <- RowOf, enqueued <- jobs

\* The outbox keeps its promise: a row is PUBLISHED only after its job is in
\* the queue, purged only after that, DEAD only if its job never was; no late
\* batch, lost acknowledgement or crash reopens a row or adds a second job.
KeepsPromise == Delivery!Spec

OwnersStep(d) ==
    lease[d] = "future" /\ leaseToken'[d] # leaseToken[d] =>
        /\ step[leaseToken[d]][d] \in {"marking", "retrying", "burying"}
        /\ step'[leaseToken[d]][d] # step[leaseToken[d]][d]

\* While the lease on a row is live, only the batch that holds it settles the
\* row: what an earlier batch, slow or abandoned by its run, still does to the
\* row changes nothing.
OnlyTheOwnerSettles == [][\A d \in Dispatch : OwnersStep(d)]_vars

\* Every dispatch is PUBLISHED in the end, or DEAD if it is invalid, whatever
\* the run that claimed it came to.
EveryDispatchSettles ==
    \A d \in Dispatch : status[d] \in {"PENDING", "PUBLISHING", "RETRY_WAIT"}
        ~> status[d] \in (IF d \in Invalid THEN {"DEAD"}
                                           ELSE {"PUBLISHED", "deleted"})
=============================================================================
