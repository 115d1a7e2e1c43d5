-------------------------- MODULE MediaProcessing --------------------------
(***************************************************************************)
(* The worker side of a media item: the BullMQ job of a generation, the    *)
(* executions of ProcessorOrchestratorService.execute that it is delivered *)
(* to, the lease on the media row (WorkerClaimService), the attempt rows,  *)
(* the objects and the variant rows that VariantPublicationService writes, *)
(* and the manual retry that opens the next generation.                    *)
(*                                                                         *)
(* An execution is one call of execute; it stands for its lease token too, *)
(* which is a fresh UUID.  The clock is abstracted to whether the lease on *)
(* a row is still live.  A row operation guarded by an updateMany is one   *)
(* step, and so is a transaction.                                          *)
(***************************************************************************)
EXTENDS Integers, FiniteSets

CONSTANTS
    Media,           \* media ids
    Execution,       \* concurrent executions; each is its own lease token
    NoExecution,     \* "no lease token", "no lock owner"
    MaxAttempts,     \* worker.mediaJobAttempts
    MaxGeneration,   \* bound on manual retries
    MaxStalls,       \* BullMQ's maxStalledCount
    NumArtifacts,    \* artifacts one handler publishes
    Faults           \* what may go wrong

FaultKind == {"handler", "cleanup", "database", "lostAck", "crash", "stall"}

ASSUME MediaAssumption == NoExecution \notin Execution
ASSUME BoundsAssumption ==
    /\ MaxAttempts \in Nat \ {0}
    /\ MaxGeneration \in Nat \ {0}
    /\ MaxStalls \in Nat
    /\ NumArtifacts \in Nat \ {0}
ASSUME FaultsAssumption == Faults \subseteq FaultKind

VARIABLES
    generation,      \* Media.processingGeneration
    status,          \* Media.processingStatus
    leaseToken,      \* Media.processingLeaseToken
    lease,           \* Media.processingLeaseExpiresAt: null, future or past
    variants,        \* the objects the MediaVariant rows of a media name
    attemptRow,      \* ProcessingAttempt.status, by the row's unique key
    job,             \* BullMQ's job of a media and generation
    pc,              \* what an execution is about to do
    att,             \* the attempt an execution runs
    tempCount,       \* length of publish's list of temporary objects
    finalCount,      \* length of publish's list of final objects
    temps,           \* objects in the temporary bucket
    finals           \* objects in the processed bucket

row     == <<generation, status, leaseToken, lease>>
tables  == <<row, variants, attemptRow>>
storage == <<temps, finals>>
locals  == <<att, tempCount, finalCount>>
vars    == <<generation, status, leaseToken, lease, variants, attemptRow, job,
             pc, att, tempCount, finalCount, temps, finals>>

Generation == 1..MaxGeneration
AttemptNo  == 1..MaxAttempts
Artifact   == 1..NumArtifacts
JobId      == [media : Media, generation : Generation]
AttemptId  == [media : Media, generation : Generation, number : AttemptNo]
Object     == [attempt : AttemptId, artifact : Artifact]
NoAttempt  == [none |-> TRUE]

Job == [state : {"absent", "waiting", "active", "completed", "failed"},
        made  : 0..MaxAttempts,
        owner : Execution \cup {NoExecution},
        stalls : 0..MaxStalls]

NoJob == [state |-> "absent", made |-> 0, owner |-> NoExecution, stalls |-> 0]

PC == {"idle", "claiming", "attempting", "processing", "publishing",
       "compensating", "sweeping", "completing", "failing", "returning",
       "throwing"}

JobOf(e)    == [media |-> att[e].media, generation |-> att[e].generation]

\* processedAttemptKey and processingTempKey: one key per generation, attempt
\* and artifact.
ObjectKey(a, i) == [attempt |-> a, artifact |-> i]
ObjectKeys(a, k) == {ObjectKey(a, i) : i \in 1..k}

----------------------------------------------------------------------------
(* createWithDispatch and the dispatcher gave every media its first job to  *)
(* enqueue; nothing has run yet.                                            *)
Init ==
    /\ generation = [m \in Media |-> 1]
    /\ status     = [m \in Media |-> "PENDING"]
    /\ leaseToken = [m \in Media |-> NoExecution]
    /\ lease      = [m \in Media |-> "none"]
    /\ variants   = [m \in Media |-> {}]
    /\ attemptRow = [a \in AttemptId |-> "absent"]
    /\ job        = [j \in JobId |-> NoJob]
    /\ pc         = [e \in Execution |-> "idle"]
    /\ att        = [e \in Execution |-> NoAttempt]
    /\ tempCount  = [e \in Execution |-> 0]
    /\ finalCount = [e \in Execution |-> 0]
    /\ temps  = {}
    /\ finals = {}

Goto(e, from, to) ==
    /\ pc[e] = from
    /\ pc' = [pc EXCEPT ![e] = to]

\* The execution leaves the process: what it held in memory is gone.
Forget(e) ==
    /\ pc'  = [pc EXCEPT ![e] = "idle"]
    /\ att' = [att EXCEPT ![e] = NoAttempt]
    /\ tempCount'  = [tempCount EXCEPT ![e] = 0]
    /\ finalCount' = [finalCount EXCEPT ![e] = 0]

----------------------------------------------------------------------------
(* BullMQ.  The job id is the media and the generation, so adding a job     *)
(* that is already there changes nothing and is not a step.                 *)
QueueAdd(j) ==
    /\ job[j].state = "absent"
    /\ j.generation <= generation[j.media]
    /\ job' = [job EXCEPT ![j] = [@ EXCEPT !.state = "waiting"]]
    /\ UNCHANGED <<tables, pc, locals, storage>>

\* randomUUID returns a token no row holds.
FreshToken(e) == \A m \in Media : leaseToken[m] # e

\* Slip: attemptsMade taken for the number of the attempt.
NextAttemptNoZeroBased(j) == job[j].made

\* The attempt number is attemptsMade + 1.
NextAttemptNo(j) == job[j].made + 1

Deliver(e, j) ==
    /\ job[j].state = "waiting"
    /\ FreshToken(e)
    /\ Goto(e, "idle", "claiming")
    /\ att' = [att EXCEPT ![e] = [media |-> j.media, generation |-> j.generation,
                                  number |-> NextAttemptNo(j)]]
    /\ job' = [job EXCEPT ![j] = [@ EXCEPT !.state = "active", !.owner = e]]
    /\ UNCHANGED <<tables, tempCount, finalCount, storage>>

OwnsJob(e) == job[JobOf(e)].owner = e

\* The handler returned: BullMQ completes the job, unless the lock is lost.
Return(e) ==
    /\ pc[e] = "returning"
    /\ Forget(e)
    /\ job' = IF OwnsJob(e)
              THEN [job EXCEPT ![JobOf(e)] =
                      [@ EXCEPT !.state = "completed", !.owner = NoExecution]]
              ELSE job
    /\ UNCHANGED <<tables, storage>>

\* The handler threw: BullMQ counts the attempt and retries it while there
\* are attempts left.
Throw(e) ==
    /\ pc[e] = "throwing"
    /\ Forget(e)
    /\ job' = IF OwnsJob(e)
              THEN LET made == job[JobOf(e)].made + 1 IN
                   [job EXCEPT ![JobOf(e)] =
                      [@ EXCEPT !.made = made, !.owner = NoExecution,
                                !.state = IF made >= MaxAttempts THEN "failed"
                                                                 ELSE "waiting"]]
              ELSE job
    /\ UNCHANGED <<tables, storage>>

\* The worker process dies.  Its job stays active, with a lock that nobody
\* renews any more.
Crash(e) ==
    /\ "crash" \in Faults
    /\ pc[e] # "idle"
    /\ Forget(e)
    /\ job' = IF OwnsJob(e)
              THEN [job EXCEPT ![JobOf(e)] = [@ EXCEPT !.owner = NoExecution]]
              ELSE job
    /\ UNCHANGED <<tables, storage>>

\* The lock of an active job ran out: because its worker died, or (the fault
\* "stall") because a live worker could not renew it in time.  The job is
\* delivered again with the same attemptsMade, MaxStalls times at most.
StalledCheck(j) ==
    /\ job[j].state = "active"
    /\ job[j].owner = NoExecution \/ "stall" \in Faults
    /\ \/ /\ job[j].stalls < MaxStalls
          /\ job' = [job EXCEPT ![j] = [@ EXCEPT !.state = "waiting",
                                                !.owner = NoExecution,
                                                !.stalls = job[j].stalls + 1]]
       \/ /\ job[j].stalls >= MaxStalls
          /\ job' = [job EXCEPT ![j] = [@ EXCEPT !.state = "failed",
                                                !.owner = NoExecution]]
    /\ UNCHANGED <<tables, pc, locals, storage>>

----------------------------------------------------------------------------
(* The lease.                                                               *)

\* The steps during which execute's renewal timer runs.
Renewing == {"processing", "publishing", "compensating", "sweeping",
             "completing", "failing"}

\* Time passes the expiry.  A holder whose timer runs keeps its lease ahead
\* of the clock, unless it stalls.
LeaseExpires(m) ==
    /\ lease[m] = "live"
    /\ "stall" \in Faults \/ \A e \in Execution :
           leaseToken[m] = e => pc[e] \notin Renewing
    /\ lease' = [lease EXCEPT ![m] = "expired"]
    /\ UNCHANGED <<generation, status, leaseToken, variants, attemptRow, job,
                   pc, locals, storage>>

\* Slip: the generation alone guards the row.
HoldsGeneration(e) == generation[att[e].media] = att[e].generation

HoldsLease(e) ==
    /\ generation[att[e].media] = att[e].generation
    /\ leaseToken[att[e].media] = e

\* The timer does not look at the expiry: it revives a lease that ran out as
\* long as nobody took it.
Renew(e) ==
    /\ pc[e] \in Renewing
    /\ HoldsLease(e)
    /\ status[att[e].media] = "PROCESSING"
    /\ lease[att[e].media] # "live"
    /\ lease' = [lease EXCEPT ![att[e].media] = "live"]
    /\ UNCHANGED <<generation, status, leaseToken, variants, attemptRow, job,
                   pc, locals, storage>>

\* Slip: a claim that does not look at the status.
ClaimableAnyStatus(e) ==
    /\ generation[att[e].media] = att[e].generation
    /\ lease[att[e].media] \in {"none", "expired"}

\* WorkerClaimService.claim: the row of this generation is not COMPLETED and
\* no live lease is on it.
Claimable(e) ==
    /\ generation[att[e].media] = att[e].generation
    /\ status[att[e].media] # "COMPLETED"
    /\ lease[att[e].media] \in {"none", "expired"}

TakeLease(e) ==
    /\ status'     = [status EXCEPT ![att[e].media] = "PROCESSING"]
    /\ leaseToken' = [leaseToken EXCEPT ![att[e].media] = e]
    /\ lease'      = [lease EXCEPT ![att[e].media] = "live"]
    /\ UNCHANGED generation

Claim(e) ==
    /\ Goto(e, "claiming", "attempting")
    /\ Claimable(e)
    /\ TakeLease(e)
    /\ UNCHANGED <<variants, attemptRow, job, locals, storage>>

\* claim returned null: execute returns, and the job completes.
ClaimRefused(e) ==
    /\ Goto(e, "claiming", "returning")
    /\ ~Claimable(e)
    /\ UNCHANGED <<tables, job, locals, storage>>

\* The update failed, or the read after it did.
ClaimErrors(e) ==
    /\ "database" \in Faults
    /\ Goto(e, "claiming", "throwing")
    /\ \/ UNCHANGED row
       \/ Claimable(e) /\ TakeLease(e)
    /\ UNCHANGED <<variants, attemptRow, job, locals, storage>>

\* createAttempt is an upsert that updates nothing: a redelivery with the
\* same attemptsMade gets the row that is already there.
UpsertAttempt(e) ==
    attemptRow' = [attemptRow EXCEPT ![att[e]] =
                     IF @ = "absent" THEN "RUNNING" ELSE @]

CreateAttempt(e) ==
    /\ Goto(e, "attempting", "processing")
    /\ UpsertAttempt(e)
    /\ UNCHANGED <<row, variants, job, locals, storage>>

\* createAttempt or workspace.create failed.  Both are before execute's try,
\* so nothing releases the lease.
SetupErrors(e) ==
    /\ "database" \in Faults
    /\ Goto(e, "attempting", "throwing")
    /\ UpsertAttempt(e) \/ UNCHANGED attemptRow
    /\ UNCHANGED <<row, variants, job, locals, storage>>

----------------------------------------------------------------------------
(* VariantPublicationService.publish.                                       *)

\* The original is downloaded and verified, and the media processor has run.
Process(e) ==
    /\ Goto(e, "processing", "publishing")
    /\ UNCHANGED <<tables, job, locals, storage>>

ProcessErrors(e) ==
    /\ "handler" \in Faults
    /\ Goto(e, "processing", "failing")
    /\ UNCHANGED <<tables, job, locals, storage>>

Uploading(e) ==
    /\ pc[e] = "publishing"
    /\ finalCount[e] = tempCount[e]
    /\ tempCount[e] < NumArtifacts

NextKey(e) == ObjectKey(att[e], finalCount[e] + 1)

PutTemp(e) ==
    /\ Uploading(e)
    /\ temps' = temps \cup {NextKey(e)}
    /\ tempCount' = [tempCount EXCEPT ![e] = @ + 1]
    /\ UNCHANGED <<tables, job, pc, att, finalCount, finals>>

\* putFile failed: its key is not yet on the list of temporary objects,
\* whether or not the object was stored.
PutTempErrors(e) ==
    /\ "handler" \in Faults
    /\ Uploading(e)
    /\ Goto(e, "publishing", "compensating")
    /\ temps' \in {temps, temps \cup {NextKey(e)}}
    /\ UNCHANGED <<tables, job, locals, finals>>

Copying(e) ==
    /\ pc[e] = "publishing"
    /\ finalCount[e] < tempCount[e]

CopyFinal(e) ==
    /\ Copying(e)
    /\ NextKey(e) \in temps
    /\ finals' = finals \cup {NextKey(e)}
    /\ finalCount' = [finalCount EXCEPT ![e] = @ + 1]
    /\ UNCHANGED <<tables, job, pc, att, tempCount, temps>>

\* The temporary object is gone, or storage failed: before the final key was
\* tracked, or after, with or without the object.
CopyErrors(e) ==
    /\ Copying(e)
    /\ NextKey(e) \notin temps \/ "handler" \in Faults
    /\ Goto(e, "publishing", "compensating")
    /\ \/ UNCHANGED <<finals, finalCount>>
       \/ /\ finalCount' = [finalCount EXCEPT ![e] = @ + 1]
          /\ \/ UNCHANGED finals
             \/ NextKey(e) \in temps /\ finals' = finals \cup {NextKey(e)}
    /\ UNCHANGED <<tables, job, att, tempCount, temps>>

\* Slip: the token is cleared and the expiry is not.
ReleaseTokenOnly(m, to) ==
    /\ status'     = [status EXCEPT ![m] = to]
    /\ leaseToken' = [leaseToken EXCEPT ![m] = NoExecution]
    /\ UNCHANGED <<generation, lease>>

\* The row leaves PROCESSING: the lease is cleared with the status.
ReleaseLease(m, to) ==
    /\ status'     = [status EXCEPT ![m] = to]
    /\ leaseToken' = [leaseToken EXCEPT ![m] = NoExecution]
    /\ lease'      = [lease EXCEPT ![m] = "none"]
    /\ UNCHANGED generation

Publishable(e) ==
    /\ pc[e] = "publishing"
    /\ finalCount[e] = NumArtifacts

\* The transaction: the row, every variant and the attempt.
RecordPublication(e) ==
    /\ HoldsLease(e)
    /\ ReleaseLease(att[e].media, "COMPLETED")
    /\ variants'   = [variants EXCEPT ![att[e].media] =
                        ObjectKeys(att[e], NumArtifacts)]
    /\ attemptRow' = [attemptRow EXCEPT ![att[e]] = "COMPLETED"]

Publish(e) ==
    /\ Publishable(e)
    /\ Goto(e, "publishing", "sweeping")
    /\ RecordPublication(e)
    /\ UNCHANGED <<job, locals, storage>>

\* PROCESSING_LEASE_LOST.
PublishRefused(e) ==
    /\ Publishable(e)
    /\ ~HoldsLease(e)
    /\ Goto(e, "publishing", "compensating")
    /\ UNCHANGED <<tables, job, locals, storage>>

\* The transaction was rolled back, or ("lostAck") committed with its
\* acknowledgement lost; publish cannot tell.
PublishErrors(e) ==
    /\ Publishable(e)
    /\ Goto(e, "publishing", "compensating")
    /\ \/ "database" \in Faults /\ UNCHANGED tables
       \/ "lostAck" \in Faults /\ RecordPublication(e)
    /\ UNCHANGED <<job, locals, storage>>

\* removeMany's error is swallowed: what it had not deleted stays.
Remaining(bucket, keys) ==
    IF "cleanup" \in Faults
    THEN {bucket \ gone : gone \in SUBSET (bucket \cap keys)}
    ELSE {bucket \ keys}

\* publish's catch, and the finally after it.
Compensate(e) ==
    /\ Goto(e, "compensating", "failing")
    /\ temps'  \in Remaining(temps, ObjectKeys(att[e], tempCount[e]))
    /\ finals' \in Remaining(finals, ObjectKeys(att[e], finalCount[e]))
    /\ UNCHANGED <<tables, job, locals>>

\* Slip: the finally removes what the catch removes.
SweepEverything(e) ==
    /\ Goto(e, "sweeping", "completing")
    /\ temps'  \in Remaining(temps, ObjectKeys(att[e], tempCount[e]))
    /\ finals' \in Remaining(finals, ObjectKeys(att[e], finalCount[e]))
    /\ UNCHANGED <<tables, job, locals>>

\* publish's finally after a commit: the temporary objects only.
Sweep(e) ==
    /\ Goto(e, "sweeping", "completing")
    /\ temps' \in Remaining(temps, ObjectKeys(att[e], tempCount[e]))
    /\ UNCHANGED <<tables, job, locals, finals>>

----------------------------------------------------------------------------
(* The end of execute.                                                      *)

\* WorkerClaimService.complete, after the handler returned.
Complete(e) ==
    /\ Goto(e, "completing", "returning")
    /\ IF HoldsLease(e)
       THEN /\ ReleaseLease(att[e].media, "COMPLETED")
            /\ attemptRow' = [attemptRow EXCEPT ![att[e]] = "COMPLETED"]
       ELSE UNCHANGED <<row, attemptRow>>
    /\ UNCHANGED <<variants, job, locals, storage>>

CompleteErrors(e) ==
    /\ "database" \in Faults
    /\ Goto(e, "completing", "failing")
    /\ UNCHANGED <<tables, job, locals, storage>>

\* Slip: attemptsMade compared without the + 1.
IsFinalLate(e) == att[e].number - 1 >= MaxAttempts

\* Slip: one attempt too early.
IsFinalEarly(e) == att[e].number + 1 >= MaxAttempts

\* execute's catch: the last attempt fails the media, an earlier one gives
\* it back.
IsFinal(e) == att[e].number >= MaxAttempts

Fail(e) ==
    /\ Goto(e, "failing", "throwing")
    /\ IF HoldsLease(e)
       THEN /\ ReleaseLease(att[e].media, IF IsFinal(e) THEN "FAILED" ELSE "PENDING")
            /\ attemptRow' = [attemptRow EXCEPT ![att[e]] = "FAILED"]
       ELSE UNCHANGED <<row, attemptRow>>
    /\ UNCHANGED <<variants, job, locals, storage>>

FailErrors(e) ==
    /\ "database" \in Faults
    /\ Goto(e, "failing", "throwing")
    /\ UNCHANGED <<tables, job, locals, storage>>

----------------------------------------------------------------------------
(* MediaService.retry: a failed media gets its next generation.  The        *)
(* dispatch of that generation commits with it, so its job may be added.    *)
ManualRetry(m) ==
    /\ status[m] = "FAILED"
    /\ generation[m] < MaxGeneration
    /\ generation' = [generation EXCEPT ![m] = @ + 1]
    /\ status'     = [status EXCEPT ![m] = "PENDING"]
    /\ leaseToken' = [leaseToken EXCEPT ![m] = NoExecution]
    /\ lease'      = [lease EXCEPT ![m] = "none"]
    /\ UNCHANGED <<variants, attemptRow, job, pc, locals, storage>>

----------------------------------------------------------------------------
Execute(e) ==
    \/ Claim(e) \/ ClaimRefused(e) \/ CreateAttempt(e) \/ Process(e)
    \/ PutTemp(e) \/ CopyFinal(e) \/ Publish(e) \/ PublishRefused(e)
    \/ Compensate(e) \/ Sweep(e) \/ Complete(e) \/ Fail(e)
    \/ Return(e) \/ Throw(e)

Err(e) ==
    \/ ClaimErrors(e) \/ SetupErrors(e) \/ ProcessErrors(e) \/ PutTempErrors(e)
    \/ CopyErrors(e) \/ PublishErrors(e) \/ CompleteErrors(e) \/ FailErrors(e)

Next ==
    \/ \E e \in Execution : Execute(e) \/ Err(e) \/ Crash(e) \/ Renew(e)
    \/ \E e \in Execution, j \in JobId : Deliver(e, j)
    \/ \E j \in JobId : QueueAdd(j) \/ StalledCheck(j)
    \/ \E m \in Media : LeaseExpires(m) \/ ManualRetry(m)

Spec == Init /\ [][Next]_vars

(* A worker that runs keeps running its steps, the dispatcher and BullMQ    *)
(* keep serving what waits (BullMQ in order, hence the strong fairness of a *)
(* job's delivery), and time passes.  No fairness on faults or retries.     *)
Fairness ==
    /\ \A e \in Execution : WF_vars(Execute(e) \/ CopyErrors(e))
    /\ \A j \in JobId :
         /\ WF_vars(QueueAdd(j))
         /\ WF_vars(StalledCheck(j))
         /\ SF_vars(\E e \in Execution : Deliver(e, j))
    /\ \A m \in Media : WF_vars(LeaseExpires(m))

FairSpec == Spec /\ Fairness

----------------------------------------------------------------------------
(* Properties.                                                              *)

\* Every variable has its type; an attempt number stays within
\* worker.mediaJobAttempts.
TypeOK ==
    /\ generation \in [Media -> Generation]
    /\ status \in [Media -> {"PENDING", "PROCESSING", "COMPLETED", "FAILED"}]
    /\ leaseToken \in [Media -> Execution \cup {NoExecution}]
    /\ lease \in [Media -> {"none", "live", "expired"}]
    /\ variants \in [Media -> SUBSET Object]
    /\ attemptRow \in [AttemptId -> {"absent", "RUNNING", "COMPLETED", "FAILED"}]
    /\ job \in [JobId -> Job]
    /\ pc \in [Execution -> PC]
    /\ att \in [Execution -> AttemptId \cup {NoAttempt}]
    /\ tempCount \in [Execution -> 0..NumArtifacts]
    /\ finalCount \in [Execution -> 0..NumArtifacts]
    /\ temps \subseteq Object
    /\ finals \subseteq Object

\* The columns of a media row agree: it is PROCESSING exactly while somebody's
\* token is on it, and a token always comes with an expiry, without which no
\* later claim could take a dead worker's media over.
RowConsistent ==
    \A m \in Media :
        /\ status[m] = "PROCESSING" <=> leaseToken[m] # NoExecution
        /\ lease[m] = "none" <=> leaseToken[m] = NoExecution

\* A media is COMPLETED exactly when it has variants, and then they are all
\* the artifacts of a single attempt of its current generation, the only one
\* recorded as COMPLETED: no crash, lost lease, rolled back or unacknowledged
\* transaction leaves a partial or mixed publication, and complete never
\* completes a media that publish did not.
PublicationComplete ==
    /\ \A m \in Media : status[m] # "COMPLETED" => variants[m] = {}
    /\ \A m \in Media : status[m] = "COMPLETED" =>
          \E n \in AttemptNo :
              LET a == [media |-> m, generation |-> generation[m], number |-> n]
              IN  /\ attemptRow[a] = "COMPLETED"
                  /\ variants[m] = ObjectKeys(a, NumArtifacts)
    /\ \A a \in AttemptId : attemptRow[a] = "COMPLETED" =>
          /\ status[a.media] = "COMPLETED"
          /\ generation[a.media] = a.generation
          /\ variants[a.media] = ObjectKeys(a, NumArtifacts)

CompletedStays ==
    \A m \in Media : status[m] = "COMPLETED" =>
        /\ status'[m] = "COMPLETED"
        /\ generation'[m] = generation[m]
        /\ variants'[m] = variants[m]
        /\ \A a \in AttemptId : a.media = m /\ attemptRow[a] = "COMPLETED" =>
                                attemptRow'[a] = "COMPLETED"

\* Nothing that a late, duplicate or failing execution does changes a media
\* that is COMPLETED, its variants or its attempts' outcome.
CompletedIsFinal == [][CompletedStays]_vars

\* Every object a variant row names is in the processed bucket: "processed
\* objects are immutable", no worker removes another's publication.
PublishedObjectsExist == \A m \in Media : variants[m] \subseteq finals

LeavesFailedByRetry ==
    \A m \in Media : status[m] = "FAILED" /\ status'[m] # "FAILED" =>
        /\ status'[m] = "PENDING"
        /\ generation'[m] = generation[m] + 1

\* A media that exhausted its attempts leaves FAILED by a manual retry only,
\* in a new generation.  (Not so when a worker dies between fail and BullMQ's
\* record of it: the redelivered job claims the FAILED media again.)
FailedLeftOnlyByRetry == [][LeavesFailedByRetry]_vars

\* Work that is due is finished: a media becomes COMPLETED or, its attempts
\* exhausted, FAILED.
GenerationSettles ==
    \A m \in Media : status[m] \in {"PENDING", "PROCESSING"}
                      ~> status[m] \in {"COMPLETED", "FAILED"}
=============================================================================
