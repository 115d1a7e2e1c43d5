----------------------- MODULE MediaProcessing_proofs -----------------------
(* Safety of MediaProcessing, for every number of media, executions,        *)
(* attempts, generations and artifacts.                                     *)
EXTENDS MediaProcessing, TLAPS

----------------------------------------------------------------------------
(* The inductive invariant.                                                 *)

\* A job that may be delivered has attempts left, and only an active job has
\* a lock owner.
JobInv ==
    \A j \in JobId :
        /\ job[j].state \in {"waiting", "active"} => job[j].made < MaxAttempts
        /\ job[j].state = "absent" => job[j].made = 0
        /\ job[j].owner # NoExecution => job[j].state = "active"

\* An execution that is under way knows its attempt.
ExecutionInv == \A e \in Execution : pc[e] # "idle" => att[e] \in AttemptId

\* The token on a row is that of an execution of the row's generation that
\* took the lease and has not published; a token left by a dead execution
\* is not reused.  So no execution that is past publish can complete a media.
Holding == {"attempting", "processing", "publishing", "compensating",
            "failing", "throwing"}

TokenInv ==
    \A m \in Media, e \in Execution :
        leaseToken[m] = e /\ pc[e] # "idle" =>
            /\ pc[e] \in Holding
            /\ att[e].media = m
            /\ att[e].generation = generation[m]

IInv ==
    /\ TypeOK
    /\ JobInv
    /\ ExecutionInv
    /\ TokenInv
    /\ RowConsistent
    /\ PublicationComplete

----------------------------------------------------------------------------
(* Types.                                                                   *)

LEMMA JobOfType ==
  ASSUME TypeOK, ExecutionInv, NEW e \in Execution, pc[e] # "idle"
  PROVE  JobOf(e) \in JobId /\ att[e] \in AttemptId
BY DEF ExecutionInv, JobOf, JobId, AttemptId

LEMMA JobUpdateType ==
  ASSUME TypeOK, NEW j \in JobId, NEW r \in Job
  PROVE  [job EXCEPT ![j] = r] \in [JobId -> Job]
BY DEF TypeOK

\* The updates of a job record that BullMQ makes.
LEMMA JobRecordType ==
  ASSUME NEW q \in Job, NEW s \in {"absent", "waiting", "active", "completed", "failed"},
         NEW o \in Execution \cup {NoExecution}
  PROVE  /\ [q EXCEPT !.state = s] \in Job
         /\ [q EXCEPT !.owner = o] \in Job
         /\ [q EXCEPT !.state = s, !.owner = o] \in Job
         /\ \A n \in 0..MaxAttempts :
              [q EXCEPT !.made = n, !.owner = o, !.state = s] \in Job
         /\ \A n \in 0..MaxStalls :
              [q EXCEPT !.state = s, !.owner = o, !.stalls = n] \in Job
BY DEF Job

LEMMA JobHasType ==
  ASSUME TypeOK, NEW j \in JobId
  PROVE  job[j] \in Job
BY DEF TypeOK

\* The steps of BullMQ, which change the job.
LEMMA QueueStepType ==
  ASSUME IInv
  PROVE  /\ \A e \in Execution : Return(e) \/ Throw(e) \/ Crash(e) => TypeOK'
         /\ \A j \in JobId : QueueAdd(j) \/ StalledCheck(j) => TypeOK'
         /\ \A e \in Execution, j \in JobId : Deliver(e, j) => TypeOK'
<1> USE DEF IInv
<1>1. ASSUME NEW e \in Execution, pc[e] # "idle", Forget(e),
             UNCHANGED <<tables, storage>>, job' \in [JobId -> Job]
      PROVE  TypeOK'
  BY <1>1, BoundsAssumption DEF TypeOK, PC, Forget, tables, row, storage
<1>2. ASSUME NEW e \in Execution, Return(e) PROVE TypeOK'
  <2>1. JobOf(e) \in JobId /\ pc[e] # "idle"
    BY <1>2, JobOfType DEF Return
  <2>2. [job[JobOf(e)] EXCEPT !.state = "completed", !.owner = NoExecution] \in Job
    BY <2>1, JobHasType, JobRecordType
  <2>3. job' \in [JobId -> Job]
    BY <1>2, <2>1, <2>2, JobUpdateType DEF Return, TypeOK
  <2>4. QED
    BY <1>1, <1>2, <2>1, <2>3 DEF Return
<1>3. ASSUME NEW e \in Execution, Throw(e) PROVE TypeOK'
  <2>1. JobOf(e) \in JobId /\ pc[e] # "idle"
    BY <1>3, JobOfType DEF Throw
  <2>2. CASE OwnsJob(e)
    <3> DEFINE made == job[JobOf(e)].made + 1
               r == [job[JobOf(e)] EXCEPT !.made = made, !.owner = NoExecution,
                       !.state = IF made >= MaxAttempts THEN "failed" ELSE "waiting"]
    <3>0. job[JobOf(e)] \in Job /\ job[JobOf(e)].made \in 0..MaxAttempts
      BY <2>1, JobHasType DEF Job
    <3>a. job[JobOf(e)].made < MaxAttempts
      BY <2>1, <2>2, MediaAssumption DEF JobInv, OwnsJob
    <3>1. made \in 0..MaxAttempts
      BY <3>0, <3>a, BoundsAssumption
    <3>2. r \in Job
      <4> DEFINE s == IF made >= MaxAttempts THEN "failed" ELSE "waiting"
      <4>1. s \in {"absent", "waiting", "active", "completed", "failed"}
        OBVIOUS
      <4> HIDE DEF s, made
      <4>2. [job[JobOf(e)] EXCEPT !.made = made, !.owner = NoExecution, !.state = s] \in Job
        BY <3>0, <3>1, <4>1, JobRecordType
      <4>3. QED
        BY <4>2 DEF s
    <3>3. job' = [job EXCEPT ![JobOf(e)] = r]
      BY <1>3, <2>2 DEF Throw
    <3>4. job' \in [JobId -> Job]
      BY <2>1, <3>2, <3>3, JobUpdateType
    <3>5. QED
      BY <1>1, <1>3, <2>1, <3>4 DEF Throw
  <2>3. CASE ~OwnsJob(e)
    BY <1>1, <1>3, <2>1, <2>3 DEF Throw, TypeOK
  <2>4. QED
    BY <2>2, <2>3
<1>4. ASSUME NEW e \in Execution, Crash(e) PROVE TypeOK'
  <2>1. JobOf(e) \in JobId /\ pc[e] # "idle"
    BY <1>4, JobOfType DEF Crash
  <2>2. [job[JobOf(e)] EXCEPT !.owner = NoExecution] \in Job
    BY <2>1, JobHasType, JobRecordType
  <2>3. job' \in [JobId -> Job]
    BY <1>4, <2>1, <2>2, JobUpdateType DEF Crash, TypeOK
  <2>4. QED
    BY <1>1, <1>4, <2>1, <2>3 DEF Crash
<1>5. ASSUME NEW j \in JobId, QueueAdd(j) PROVE TypeOK'
  <2>1. [job[j] EXCEPT !.state = "waiting"] \in Job
    BY JobHasType, JobRecordType
  <2>2. job' \in [JobId -> Job]
    BY <1>5, <2>1, JobUpdateType DEF QueueAdd
  <2>3. QED
    BY <1>5, <2>2 DEF QueueAdd, TypeOK, tables, row, storage, locals
<1>6. ASSUME NEW j \in JobId, StalledCheck(j) PROVE TypeOK'
  <2>1. job[j] \in Job /\ job[j].stalls \in Int /\ MaxStalls \in Int
    BY BoundsAssumption DEF TypeOK, Job
  <2>2. ASSUME job[j].stalls < MaxStalls PROVE job' \in [JobId -> Job]
    <3> DEFINE r == [job[j] EXCEPT !.state = "waiting", !.owner = NoExecution,
                                   !.stalls = job[j].stalls + 1]
    <3>1. job[j].stalls + 1 \in 0..MaxStalls
      BY <2>1, <2>2, BoundsAssumption DEF Job
    <3>2. r \in Job
      BY <2>1, <3>1, JobRecordType
    <3>3. job' = [job EXCEPT ![j] = r]
      BY <1>6, <2>1, <2>2 DEF StalledCheck
    <3>4. QED
      BY <3>2, <3>3, JobUpdateType
  <2>3. ASSUME job[j].stalls >= MaxStalls PROVE job' \in [JobId -> Job]
    <3>1. [job[j] EXCEPT !.state = "failed", !.owner = NoExecution] \in Job
      BY <2>1, JobRecordType
    <3>2. job' = [job EXCEPT ![j] = [job[j] EXCEPT !.state = "failed",
                                                  !.owner = NoExecution]]
      BY <1>6, <2>1, <2>3 DEF StalledCheck
    <3>3. QED
      BY <3>1, <3>2, JobUpdateType
  <2>4. job' \in [JobId -> Job]
    BY <2>1, <2>2, <2>3, BoundsAssumption DEF Job
  <2>5. QED
    BY <1>6, <2>4 DEF StalledCheck, TypeOK, tables, row, storage, locals
<1>7. ASSUME NEW e \in Execution, NEW j \in JobId, Deliver(e, j) PROVE TypeOK'
  <2>1. [job[j] EXCEPT !.state = "active", !.owner = e] \in Job
    BY JobHasType, JobRecordType
  <2>2. job' \in [JobId -> Job]
    BY <1>7, <2>1, JobUpdateType DEF Deliver
  <2>3. NextAttemptNo(j) \in AttemptNo
    BY <1>7, BoundsAssumption DEF Deliver, JobInv, TypeOK, Job, NextAttemptNo, AttemptNo
  <2>4. [media |-> j.media, generation |-> j.generation,
         number |-> NextAttemptNo(j)] \in AttemptId
    BY <2>3 DEF JobId, AttemptId
  <2>5. att' \in [Execution -> AttemptId \cup {NoAttempt}]
    BY <1>7, <2>4 DEF Deliver, TypeOK
  <2>6. QED
    BY <1>7, <2>2, <2>5 DEF Deliver, Goto, PC, TypeOK, tables, row, storage
<1>8. QED
  BY <1>2, <1>3, <1>4, <1>5, <1>6, <1>7

\* An end of an execution that gives the lease back.
LEMMA ReleaseType ==
  ASSUME IInv, NEW e \in Execution, pc[e] # "idle",
         NEW to \in {"PENDING", "PROCESSING", "COMPLETED", "FAILED"},
         NEW s \in {"absent", "RUNNING", "COMPLETED", "FAILED"},
         ReleaseLease(att[e].media, to),
         attemptRow' = [attemptRow EXCEPT ![att[e]] = s],
         pc' \in [Execution -> PC],
         UNCHANGED <<variants, job, locals, storage>>
  PROVE  TypeOK'
<1>1. att[e] \in AttemptId /\ att[e].media \in Media
  BY DEF IInv, ExecutionInv, AttemptId
<1>2. /\ generation' \in [Media -> Generation]
      /\ status' \in [Media -> {"PENDING", "PROCESSING", "COMPLETED", "FAILED"}]
      /\ leaseToken' \in [Media -> Execution \cup {NoExecution}]
      /\ lease' \in [Media -> {"none", "live", "expired"}]
  BY <1>1 DEF IInv, TypeOK, ReleaseLease
<1>3. attemptRow' \in [AttemptId -> {"absent", "RUNNING", "COMPLETED", "FAILED"}]
  BY <1>1 DEF IInv, TypeOK
<1>4. QED
  BY <1>2, <1>3 DEF IInv, TypeOK, locals, storage

LEMMA TypeOKStep == IInv /\ [Next]_vars => TypeOK'
<1> SUFFICES ASSUME IInv, [Next]_vars PROVE TypeOK'
  OBVIOUS
<1> USE BoundsAssumption
    DEF IInv, TypeOK, ExecutionInv, Generation, AttemptNo, Artifact, AttemptId,
        Object, PC, ObjectKey, ObjectKeys, tables, row, storage, locals, Goto,
        TakeLease, ReleaseLease, RecordPublication
<1>1. ASSUME NEW e \in Execution, Claim(e) PROVE TypeOK'
  BY <1>1 DEF Claim
<1>2. ASSUME NEW e \in Execution, ClaimRefused(e) PROVE TypeOK'
  BY <1>2 DEF ClaimRefused
<1>3. ASSUME NEW e \in Execution, CreateAttempt(e) PROVE TypeOK'
  BY <1>3 DEF CreateAttempt, UpsertAttempt
<1>4. ASSUME NEW e \in Execution, Process(e) PROVE TypeOK'
  BY <1>4 DEF Process
<1>5. ASSUME NEW e \in Execution, PutTemp(e) PROVE TypeOK'
  BY <1>5 DEF PutTemp, Uploading, NextKey
<1>6. ASSUME NEW e \in Execution, CopyFinal(e) PROVE TypeOK'
  BY <1>6 DEF CopyFinal, Copying, NextKey
<1>7. ASSUME NEW e \in Execution, Publish(e) PROVE TypeOK'
  BY <1>7 DEF Publish, Publishable
<1>8. ASSUME NEW e \in Execution, PublishRefused(e) PROVE TypeOK'
  BY <1>8 DEF PublishRefused, Publishable
<1>9. ASSUME NEW e \in Execution, Compensate(e) PROVE TypeOK'
  BY <1>9 DEF Compensate, Remaining
<1>10. ASSUME NEW e \in Execution, Sweep(e) PROVE TypeOK'
  BY <1>10 DEF Sweep, Remaining
<1>11. ASSUME NEW e \in Execution, Complete(e) PROVE TypeOK'
  <2>1. pc[e] # "idle" /\ pc' \in [Execution -> PC]
    BY <1>11 DEF Complete
  <2>2. CASE HoldsLease(e)
    BY ONLY <1>11, <2>1, <2>2, ReleaseType, IInv, e \in Execution DEF Complete
  <2>3. CASE ~HoldsLease(e)
    BY ONLY <1>11, <2>1, <2>3, IInv
       DEF Complete, IInv, TypeOK, row, locals, storage
  <2>4. QED
    BY <2>2, <2>3
<1>12. ASSUME NEW e \in Execution, Fail(e) PROVE TypeOK'
  <2>1. pc[e] # "idle" /\ pc' \in [Execution -> PC]
    BY <1>12 DEF Fail
  <2>2. CASE HoldsLease(e)
    BY ONLY <1>12, <2>1, <2>2, ReleaseType, IInv, e \in Execution DEF Fail
  <2>3. CASE ~HoldsLease(e)
    BY ONLY <1>12, <2>1, <2>3, IInv
       DEF Fail, IInv, TypeOK, row, locals, storage
  <2>4. QED
    BY <2>2, <2>3
<1>13. ASSUME NEW e \in Execution, ClaimErrors(e) PROVE TypeOK'
  BY <1>13 DEF ClaimErrors
<1>14. ASSUME NEW e \in Execution, SetupErrors(e) PROVE TypeOK'
  <2>1. CASE UpsertAttempt(e)
    BY <1>14, <2>1 DEF SetupErrors, UpsertAttempt
  <2>2. CASE UNCHANGED attemptRow
    BY <1>14, <2>2 DEF SetupErrors
  <2>3. QED
    BY <1>14, <2>1, <2>2 DEF SetupErrors
<1>15. ASSUME NEW e \in Execution, ProcessErrors(e) PROVE TypeOK'
  BY <1>15 DEF ProcessErrors
<1>16. ASSUME NEW e \in Execution, PutTempErrors(e) PROVE TypeOK'
  BY <1>16 DEF PutTempErrors, Uploading, NextKey
<1>17. ASSUME NEW e \in Execution, CopyErrors(e) PROVE TypeOK'
  BY <1>17 DEF CopyErrors, Copying, NextKey
<1>18. ASSUME NEW e \in Execution, PublishErrors(e) PROVE TypeOK'
  <2>1. CASE UNCHANGED tables
    BY <1>18, <2>1 DEF PublishErrors, Publishable
  <2>2. CASE RecordPublication(e)
    BY <1>18, <2>2 DEF PublishErrors, Publishable
  <2>3. QED
    BY <1>18, <2>1, <2>2 DEF PublishErrors
<1>19. ASSUME NEW e \in Execution, CompleteErrors(e) PROVE TypeOK'
  BY <1>19 DEF CompleteErrors
<1>20. ASSUME NEW e \in Execution, FailErrors(e) PROVE TypeOK'
  BY <1>20 DEF FailErrors
<1>21. ASSUME NEW e \in Execution, Renew(e) PROVE TypeOK'
  BY <1>21 DEF Renew, Renewing
<1>22. ASSUME NEW m \in Media, LeaseExpires(m) PROVE TypeOK'
  BY <1>22 DEF LeaseExpires
<1>23. ASSUME NEW m \in Media, ManualRetry(m) PROVE TypeOK'
  BY <1>23 DEF ManualRetry
<1>24. CASE UNCHANGED vars
  BY <1>24 DEF vars
<1>25. QED
  BY QueueStepType, <1>1, <1>2, <1>3, <1>4, <1>5, <1>6, <1>7, <1>8, <1>9,
     <1>10, <1>11, <1>12, <1>13, <1>14, <1>15, <1>16, <1>17, <1>18, <1>19,
     <1>20, <1>21, <1>22, <1>23, <1>24
     DEF Next, Execute, Err

----------------------------------------------------------------------------
(* The other conjuncts.                                                     *)

LEMMA JobInvStep == IInv /\ [Next]_vars => JobInv'
<1> SUFFICES ASSUME IInv, [Next]_vars PROVE JobInv'
  OBVIOUS
<1> USE BoundsAssumption, MediaAssumption DEF IInv, JobInv
<1>0. ASSUME NEW k \in JobId PROVE job[k] \in Job
  BY DEF TypeOK
<1>1. CASE UNCHANGED job
  BY <1>1
<1>2. ASSUME NEW e \in Execution, Return(e) PROVE JobInv'
  BY <1>0, <1>2, JobOfType DEF Return, Job, TypeOK
<1>3. ASSUME NEW e \in Execution, Throw(e) PROVE JobInv'
  BY <1>0, <1>3, JobOfType DEF Throw, Job, TypeOK
<1>4. ASSUME NEW e \in Execution, Crash(e) PROVE JobInv'
  BY <1>0, <1>4, JobOfType DEF Crash, Job, TypeOK
<1>5. ASSUME NEW j \in JobId, QueueAdd(j) PROVE JobInv'
  BY <1>0, <1>5 DEF QueueAdd, Job, TypeOK
<1>6. ASSUME NEW j \in JobId, StalledCheck(j) PROVE JobInv'
  <2>1. \A k \in JobId : k # j => job'[k] = job[k]
    BY <1>6 DEF StalledCheck, TypeOK
  <2>2. /\ job'[j].made = job[j].made
        /\ job'[j].owner = NoExecution
        /\ job'[j].state \in {"waiting", "failed"}
    <3>1. CASE job' = [job EXCEPT ![j] = [@ EXCEPT !.state = "failed",
                                                  !.owner = NoExecution]]
      BY <1>0, <3>1 DEF Job, TypeOK
    <3>2. CASE job' = [job EXCEPT ![j] = [@ EXCEPT !.state = "waiting",
                                                  !.owner = NoExecution,
                                                  !.stalls = job[j].stalls + 1]]
      BY <1>0, <3>2 DEF Job, TypeOK
    <3>3. QED
      BY <1>6, <3>1, <3>2 DEF StalledCheck
  <2>3. QED
    BY <1>0, <1>6, <2>1, <2>2 DEF StalledCheck
<1>7. ASSUME NEW e \in Execution, NEW j \in JobId, Deliver(e, j) PROVE JobInv'
  BY <1>0, <1>7 DEF Deliver, Job, TypeOK
<1>8. QED
  BY <1>1, <1>2, <1>3, <1>4, <1>5, <1>6, <1>7
     DEF Next, Execute, Err, vars, Claim, ClaimRefused, ClaimErrors,
         CreateAttempt, SetupErrors, Process, ProcessErrors, PutTemp,
         PutTempErrors, CopyFinal, CopyErrors, Publish, PublishRefused,
         PublishErrors, Compensate, Sweep, Complete, CompleteErrors, Fail,
         FailErrors, Renew, LeaseExpires, ManualRetry

LEMMA ExecutionInvStep == IInv /\ [Next]_vars => ExecutionInv'
<1> SUFFICES ASSUME IInv, [Next]_vars PROVE ExecutionInv'
  OBVIOUS
<1> USE DEF IInv, ExecutionInv
<1>1. CASE /\ UNCHANGED att
           /\ \A e \in Execution : pc'[e] # "idle" => pc[e] # "idle"
  BY <1>1
<1>2. ASSUME NEW e \in Execution, NEW j \in JobId, Deliver(e, j)
      PROVE  ExecutionInv'
  <2>1. NextAttemptNo(j) \in AttemptNo
    BY <1>2, BoundsAssumption
       DEF Deliver, JobInv, TypeOK, Job, NextAttemptNo, AttemptNo
  <2>2. QED
    BY <1>2, <2>1 DEF Deliver, Goto, TypeOK, JobId, AttemptId
<1>3. ASSUME NEW e \in Execution, Forget(e) PROVE ExecutionInv'
  BY <1>3 DEF Forget, TypeOK
<1>4. ASSUME NEW e \in Execution, NEW from \in PC \ {"idle"}, NEW to \in PC,
             Goto(e, from, to), UNCHANGED att
      PROVE  ExecutionInv'
  BY <1>4 DEF Goto, TypeOK
<1>5. QED
  BY <1>1, <1>2, <1>3, <1>4
     DEF Next, Execute, Err, vars, locals, PC, Claim, ClaimRefused, ClaimErrors,
         CreateAttempt, SetupErrors, Process, ProcessErrors, PutTemp,
         PutTempErrors, CopyFinal, CopyErrors, Publish, PublishRefused,
         PublishErrors, Compensate, Sweep, Complete, CompleteErrors, Fail,
         FailErrors, Renew, LeaseExpires, ManualRetry, Return, Throw, Crash,
         QueueAdd, StalledCheck

LEMMA TokenInvStep == IInv /\ [Next]_vars => TokenInv'
<1> SUFFICES ASSUME IInv, [Next]_vars PROVE TokenInv'
  OBVIOUS
<1> USE DEF IInv, TokenInv, ExecutionInv, Holding, AttemptId, Goto
\* Steps that leave the rows alone and keep an execution among the holders,
\* or end it.
<1>1. ASSUME UNCHANGED <<generation, leaseToken>>,
             \A e \in Execution : \/ pc'[e] = "idle"
                                  \/ /\ pc[e] # "idle"
                                     /\ att'[e] = att[e]
                                     /\ pc[e] \in Holding => pc'[e] \in Holding
      PROVE  TokenInv'
  BY <1>1
<1>2. ASSUME NEW e \in Execution, UNCHANGED <<generation, leaseToken, att>>,
             NEW to \in PC, pc' = [pc EXCEPT ![e] = to], pc[e] # "idle",
             pc[e] \notin Holding \/ to \in Holding
      PROVE  TokenInv'
  BY <1>1, <1>2 DEF TypeOK
<1>3. ASSUME NEW e \in Execution, Forget(e), UNCHANGED <<generation, leaseToken>>
      PROVE  TokenInv'
  BY <1>1, <1>3 DEF Forget, TypeOK
<1>4. ASSUME NEW e \in Execution, pc[e] = "claiming", TakeLease(e),
             Claimable(e), UNCHANGED att, NEW to \in {"attempting", "throwing"},
             pc' = [pc EXCEPT ![e] = to]
      PROVE  TokenInv'
  BY <1>4 DEF TakeLease, Claimable, TypeOK
<1>5. ASSUME NEW e \in Execution, pc[e] \in Holding, HoldsLease(e),
             NEW st, ReleaseLease(att[e].media, st), UNCHANGED att, NEW to \in PC,
             pc' = [pc EXCEPT ![e] = to]
      PROVE  TokenInv'
  BY <1>5, MediaAssumption DEF ReleaseLease, HoldsLease, TypeOK
<1>6. ASSUME NEW e \in Execution, Claim(e) \/ ClaimErrors(e) PROVE TokenInv'
  <2>1. CASE UNCHANGED row /\ ClaimErrors(e)
    BY <1>2, <2>1 DEF ClaimErrors, row, locals, PC
  <2>2. QED
    BY <1>4, <1>6, <2>1 DEF Claim, ClaimErrors, locals
<1>7. ASSUME NEW e \in Execution, Publish(e) \/ PublishErrors(e) PROVE TokenInv'
  <2>1. CASE UNCHANGED tables /\ PublishErrors(e)
    BY <1>2, <2>1 DEF PublishErrors, tables, row, locals, PC
  <2>2. QED
    BY <1>5, <1>7, <2>1
       DEF Publish, PublishErrors, Publishable, RecordPublication, locals, PC
<1>8. ASSUME NEW e \in Execution, Complete(e) PROVE TokenInv'
  <2>1. ~HoldsLease(e)
    BY <1>8 DEF Complete, HoldsLease, TypeOK
  <2>2. QED
    BY <1>2, <1>8, <2>1 DEF Complete, row, locals, PC
<1>9. ASSUME NEW e \in Execution, Fail(e) PROVE TokenInv'
  <2>1. CASE HoldsLease(e)
    BY <1>5, <1>9, <2>1 DEF Fail, locals, PC
  <2>2. CASE ~HoldsLease(e)
    BY <1>2, <1>9, <2>2 DEF Fail, row, locals, PC
  <2>3. QED
    BY <2>1, <2>2
<1>10. ASSUME NEW m \in Media, ManualRetry(m) PROVE TokenInv'
  BY <1>10, MediaAssumption DEF ManualRetry, locals, TypeOK
<1>11. ASSUME NEW e \in Execution, NEW j \in JobId, Deliver(e, j) PROVE TokenInv'
  BY <1>11 DEF Deliver, FreshToken, tables, row, TypeOK
<1>12. ASSUME NEW e \in Execution, Return(e) \/ Throw(e) \/ Crash(e) PROVE TokenInv'
  BY <1>3, <1>12 DEF Return, Throw, Crash, tables, row
<1>13. CASE UNCHANGED <<generation, leaseToken, pc, att>>
  BY <1>13
<1>14. ASSUME NEW e \in Execution, Execute(e) \/ Err(e) PROVE TokenInv'
  BY <1>2, <1>6, <1>7, <1>8, <1>9, <1>12, <1>13, <1>14
     DEF Execute, Err, locals, tables, row, PC, ClaimRefused, CreateAttempt,
         SetupErrors, Process, ProcessErrors, PutTemp, PutTempErrors,
         CopyFinal, CopyErrors, PublishRefused, Compensate, Sweep,
         CompleteErrors, FailErrors
<1>15. QED
  BY <1>10, <1>11, <1>12, <1>13, <1>14
     DEF Next, vars, locals, tables, row, Renew, QueueAdd, StalledCheck,
         LeaseExpires

\* complete never writes: publish has given the lease back before.
LEMMA CompleteWritesNothing ==
  ASSUME IInv, NEW e \in Execution, Complete(e)
  PROVE  UNCHANGED tables
<1>1. ~HoldsLease(e)
  BY DEF IInv, TokenInv, ExecutionInv, AttemptId, Holding, Complete, Goto,
         HoldsLease, TypeOK
<1>2. QED
  BY <1>1 DEF Complete, tables

LEMMA RowConsistentStep == IInv /\ [Next]_vars => RowConsistent'
<1> SUFFICES ASSUME IInv, [Next]_vars PROVE RowConsistent'
  OBVIOUS
<1> USE DEF IInv, RowConsistent, TypeOK
<1>1. CASE UNCHANGED <<status, leaseToken, lease>>
  BY <1>1
<1>2. ASSUME NEW e \in Execution, pc[e] # "idle", TakeLease(e)
      PROVE  RowConsistent'
  BY <1>2, MediaAssumption DEF TakeLease, ExecutionInv, AttemptId
<1>3. ASSUME NEW m \in Media, NEW st \in {"PENDING", "COMPLETED", "FAILED"},
             status' = [status EXCEPT ![m] = st],
             leaseToken' = [leaseToken EXCEPT ![m] = NoExecution],
             lease' = [lease EXCEPT ![m] = "none"]
      PROVE  RowConsistent'
  BY <1>3
<1>4. ASSUME NEW m \in Media, lease[m] # "none",
             NEW l \in {"live", "expired"}, lease' = [lease EXCEPT ![m] = l],
             UNCHANGED <<status, leaseToken>>
      PROVE  RowConsistent'
  BY <1>4
<1>5. ASSUME NEW e \in Execution, Claim(e) \/ ClaimErrors(e)
      PROVE  RowConsistent'
  BY <1>1, <1>2, <1>5 DEF Claim, ClaimErrors, Goto, row
<1>6. ASSUME NEW e \in Execution, Publish(e) \/ PublishErrors(e)
      PROVE  RowConsistent'
  BY <1>1, <1>3, <1>6
     DEF Publish, PublishErrors, Publishable, RecordPublication, ReleaseLease,
         ExecutionInv, AttemptId, tables, row
<1>7. ASSUME NEW e \in Execution, Complete(e) PROVE RowConsistent'
  BY <1>1, <1>7, CompleteWritesNothing DEF tables, row
<1>8. ASSUME NEW e \in Execution, Fail(e) PROVE RowConsistent'
  <2>1. CASE HoldsLease(e)
    BY <1>3, <1>8, <2>1 DEF Fail, ReleaseLease, ExecutionInv, AttemptId, Goto
  <2>2. CASE ~HoldsLease(e)
    BY <1>1, <1>8, <2>2 DEF Fail, row
  <2>3. QED
    BY <2>1, <2>2
<1>9. ASSUME NEW e \in Execution, Renew(e) PROVE RowConsistent'
  BY <1>4, <1>9, MediaAssumption
     DEF Renew, Renewing, HoldsLease, ExecutionInv, AttemptId
<1>10. ASSUME NEW e \in Execution, CreateAttempt(e) \/ SetupErrors(e)
       PROVE  RowConsistent'
  BY <1>1, <1>10 DEF CreateAttempt, SetupErrors, row
<1>11. ASSUME NEW m \in Media, LeaseExpires(m) \/ ManualRetry(m)
       PROVE  RowConsistent'
  BY <1>3, <1>4, <1>11 DEF LeaseExpires, ManualRetry
<1>12. QED
  BY <1>1, <1>5, <1>6, <1>7, <1>8, <1>9, <1>10, <1>11
     DEF Next, Execute, Err, vars, locals, tables, row, ClaimRefused,
         Process, ProcessErrors, PutTemp, PutTempErrors, CopyFinal, CopyErrors,
         PublishRefused, Compensate, Sweep, CompleteErrors, FailErrors,
         Return, Throw, Crash, QueueAdd, StalledCheck, Deliver

LEMMA PublicationCompleteStep == IInv /\ [Next]_vars => PublicationComplete'
<1> SUFFICES ASSUME IInv, [Next]_vars PROVE PublicationComplete'
  OBVIOUS
<1> USE DEF IInv, PublicationComplete, TypeOK
<1>1. CASE UNCHANGED <<generation, status, variants, attemptRow>>
  BY <1>1
\* The row of a media that is not COMPLETED changes and stays so.
<1>2. ASSUME NEW m \in Media, status[m] # "COMPLETED",
             NEW st \in {"PENDING", "PROCESSING", "FAILED"},
             status' = [status EXCEPT ![m] = st],
             \A k \in Media : k # m => generation'[k] = generation[k],
             UNCHANGED <<variants, attemptRow>>
      PROVE  PublicationComplete'
  <2>1. \A k \in Media : k # m => status'[k] = status[k] /\ generation'[k] = generation[k]
    BY <1>2
  <2>2. status'[m] # "COMPLETED" /\ variants[m] = {}
    BY <1>2
  <2>3. \A k \in Media : status'[k] # "COMPLETED" => variants'[k] = {}
    BY <1>2, <2>1, <2>2
  <2>4. \A k \in Media : status'[k] = "COMPLETED" => k # m
    BY <2>2
  <2>5. \A a \in AttemptId : attemptRow[a] = "COMPLETED" => a.media # m /\ a.media \in Media
    BY <1>2 DEF AttemptId
  <2>6. \A a \in AttemptId : attemptRow'[a] = "COMPLETED" =>
          /\ status'[a.media] = "COMPLETED"
          /\ generation'[a.media] = a.generation
          /\ variants'[a.media] = ObjectKeys(a, NumArtifacts)
    BY <1>2, <2>1, <2>5
  <2>7. ASSUME NEW k \in Media, status'[k] = "COMPLETED"
        PROVE  \E n \in AttemptNo :
                 LET a == [media |-> k, generation |-> generation'[k], number |-> n]
                 IN  /\ attemptRow'[a] = "COMPLETED"
                     /\ variants'[k] = ObjectKeys(a, NumArtifacts)
    BY <1>2, <2>1, <2>4, <2>7
  <2>8. QED
    BY <2>3, <2>6, <2>7
\* An attempt's row changes, to and from states other than COMPLETED.
<1>3. ASSUME NEW a \in AttemptId, NEW r \in {"absent", "RUNNING", "FAILED"},
             attemptRow[a] # "COMPLETED", attemptRow' = [attemptRow EXCEPT ![a] = r],
             UNCHANGED <<generation, status, variants>>
      PROVE  PublicationComplete'
  <2>1. \A b \in AttemptId : attemptRow'[b] = "COMPLETED" <=> attemptRow[b] = "COMPLETED"
    BY <1>3
  <2>2. \A m \in Media : status'[m] # "COMPLETED" => variants'[m] = {}
    BY <1>3
  <2>3. \A b \in AttemptId : attemptRow'[b] = "COMPLETED" =>
          /\ status'[b.media] = "COMPLETED"
          /\ generation'[b.media] = b.generation
          /\ variants'[b.media] = ObjectKeys(b, NumArtifacts)
    BY <1>3, <2>1
  <2>4. ASSUME NEW m \in Media, status'[m] = "COMPLETED"
        PROVE  \E n \in AttemptNo :
                 LET b == [media |-> m, generation |-> generation'[m], number |-> n]
                 IN  /\ attemptRow'[b] = "COMPLETED"
                     /\ variants'[m] = ObjectKeys(b, NumArtifacts)
    <3>1. PICK n \in AttemptNo :
            LET b == [media |-> m, generation |-> generation[m], number |-> n]
            IN  /\ attemptRow[b] = "COMPLETED"
                /\ variants[m] = ObjectKeys(b, NumArtifacts)
      BY <1>3, <2>4
    <3>2. [media |-> m, generation |-> generation[m], number |-> n] \in AttemptId
      BY <3>1 DEF AttemptId
    <3>3. QED
      BY <1>3, <2>1, <3>1, <3>2
  <2>5. QED
    BY <2>2, <2>3, <2>4
<1>4. ASSUME NEW e \in Execution, Claim(e) \/ ClaimErrors(e)
      PROVE  PublicationComplete'
  BY <1>1, <1>2, <1>4
     DEF Claim, ClaimErrors, Goto, row, Claimable, TakeLease, ExecutionInv,
         AttemptId
<1>5. ASSUME NEW e \in Execution, CreateAttempt(e) \/ SetupErrors(e)
      PROVE  PublicationComplete'
  <2>1. att[e] \in AttemptId
    BY <1>5 DEF CreateAttempt, SetupErrors, Goto, ExecutionInv
  <2>2. CASE attemptRow[att[e]] = "absent" /\ UpsertAttempt(e)
    BY <1>3, <1>5, <2>1, <2>2 DEF CreateAttempt, SetupErrors, UpsertAttempt, row
  <2>3. CASE UNCHANGED attemptRow
    BY <1>1, <1>5, <2>3 DEF CreateAttempt, SetupErrors, row
  <2>4. QED
    BY <1>5, <2>1, <2>2, <2>3 DEF CreateAttempt, SetupErrors, UpsertAttempt
<1>6. ASSUME NEW e \in Execution, Publishable(e), RecordPublication(e)
      PROVE  PublicationComplete'
  <2> DEFINE a == att[e]
  <2>1. /\ a \in AttemptId
        /\ a.media \in Media
        /\ a.number \in AttemptNo
        /\ a = [media |-> a.media, generation |-> a.generation,
                number |-> a.number]
    BY <1>6 DEF Publishable, ExecutionInv, AttemptId
  <2>2. status[a.media] = "PROCESSING" /\ generation[a.media] = a.generation
    BY <1>6, <2>1, MediaAssumption
       DEF RecordPublication, HoldsLease, RowConsistent
  <2>3. /\ status' = [status EXCEPT ![a.media] = "COMPLETED"]
        /\ variants' = [variants EXCEPT ![a.media] = ObjectKeys(a, NumArtifacts)]
        /\ attemptRow' = [attemptRow EXCEPT ![a] = "COMPLETED"]
        /\ generation' = generation
    BY <1>6 DEF RecordPublication, ReleaseLease
  <2> HIDE DEF a
  <2>4. \A m \in Media : status'[m] # "COMPLETED" => variants'[m] = {}
    BY <2>1, <2>3
  <2>5. ASSUME NEW m \in Media, status'[m] = "COMPLETED"
        PROVE \E n \in AttemptNo :
              LET b == [media |-> m, generation |-> generation'[m], number |-> n]
              IN  /\ attemptRow'[b] = "COMPLETED"
                  /\ variants'[m] = ObjectKeys(b, NumArtifacts)
    <3>1. CASE m = a.media
      BY <2>1, <2>2, <2>3, <3>1
    <3>2. CASE m # a.media
      <4>1. PICK n \in AttemptNo :
              LET b == [media |-> m, generation |-> generation[m], number |-> n]
              IN  /\ attemptRow[b] = "COMPLETED"
                  /\ variants[m] = ObjectKeys(b, NumArtifacts)
        BY <2>1, <2>3, <2>5, <3>2
      <4>2. [media |-> m, generation |-> generation[m], number |-> n] \in AttemptId
        BY DEF AttemptId
      <4>3. QED
        BY <2>1, <2>3, <3>2, <4>1, <4>2
    <3>3. QED
      BY <3>1, <3>2
  <2>6. ASSUME NEW b \in AttemptId, attemptRow'[b] = "COMPLETED"
        PROVE  /\ status'[b.media] = "COMPLETED"
               /\ generation'[b.media] = b.generation
               /\ variants'[b.media] = ObjectKeys(b, NumArtifacts)
    <3>1. b.media \in Media
      BY DEF AttemptId
    <3>2. CASE b = a
      BY <2>1, <2>2, <2>3, <3>2
    <3>3. CASE b # a
      BY <2>1, <2>2, <2>3, <2>6, <3>1, <3>3
    <3>4. QED
      BY <3>2, <3>3
  <2>7. QED
    BY <2>4, <2>5, <2>6
<1>7. ASSUME NEW e \in Execution, Publish(e) \/ PublishErrors(e)
      PROVE  PublicationComplete'
  BY <1>1, <1>6, <1>7 DEF Publish, PublishErrors, tables, row
<1>8. ASSUME NEW e \in Execution, Complete(e) PROVE PublicationComplete'
  BY <1>1, <1>8, CompleteWritesNothing DEF tables, row
<1>9. ASSUME NEW e \in Execution, Fail(e) PROVE PublicationComplete'
  <2>1. CASE HoldsLease(e)
    <3> DEFINE a == att[e]
               st == IF IsFinal(e) THEN "FAILED" ELSE "PENDING"
    <3>1. a \in AttemptId /\ a.media \in Media
      BY <1>9 DEF Fail, Goto, ExecutionInv, AttemptId
    <3>2. status[a.media] = "PROCESSING"
      BY <2>1, <3>1, MediaAssumption DEF HoldsLease, RowConsistent
    <3>3. /\ status' = [status EXCEPT ![a.media] = st]
          /\ attemptRow' = [attemptRow EXCEPT ![a] = "FAILED"]
          /\ UNCHANGED <<generation, variants>>
      BY <1>9, <2>1 DEF Fail, ReleaseLease
    <3>4. attemptRow[a] # "COMPLETED"
      BY <3>1, <3>2
    <3>5. st \in {"FAILED", "PENDING"}
      OBVIOUS
    <3> HIDE DEF a, st
    <3>6. \A m \in Media : status'[m] = "COMPLETED" <=> status[m] = "COMPLETED"
      BY <3>1, <3>2, <3>3, <3>5
    <3>7. \A b \in AttemptId :
             attemptRow'[b] = "COMPLETED" <=> attemptRow[b] = "COMPLETED"
      BY <3>1, <3>3, <3>4
    <3>8. \A m \in Media, n \in AttemptNo :
             [media |-> m, generation |-> generation[m], number |-> n] \in AttemptId
      BY DEF AttemptId
    <3>9. \A b \in AttemptId : b.media \in Media
      BY DEF AttemptId
    <3>10. QED
      BY <3>3, <3>6, <3>7, <3>8, <3>9
  <2>2. CASE ~HoldsLease(e)
    BY <1>1, <1>9, <2>2 DEF Fail, row
  <2>3. QED
    BY <2>1, <2>2
<1>10. ASSUME NEW m \in Media, ManualRetry(m) PROVE PublicationComplete'
  BY <1>2, <1>10 DEF ManualRetry
<1>11. ASSUME NEW m \in Media, LeaseExpires(m) PROVE PublicationComplete'
  BY <1>1, <1>11 DEF LeaseExpires
<1>12. ASSUME NEW e \in Execution, Renew(e) PROVE PublicationComplete'
  BY <1>1, <1>12 DEF Renew
<1>13. QED
  BY <1>1, <1>4, <1>5, <1>7, <1>8, <1>9, <1>10, <1>11, <1>12
     DEF Next, Execute, Err, vars, locals, tables, row, ClaimRefused,
         Process, ProcessErrors, PutTemp, PutTempErrors, CopyFinal, CopyErrors,
         PublishRefused, Compensate, Sweep, CompleteErrors, FailErrors,
         Return, Throw, Crash, QueueAdd, StalledCheck, Deliver

----------------------------------------------------------------------------
(* The invariant holds.                                                     *)

LEMMA InitIInv == Init => IInv
<1> SUFFICES ASSUME Init PROVE IInv
  OBVIOUS
<1> USE DEF Init
<1>1. TypeOK
  <2>1. NoJob \in Job
    BY BoundsAssumption DEF NoJob, Job
  <2>2. job \in [JobId -> Job]
    BY <2>1
  <2>3. QED
    BY <2>2, BoundsAssumption DEF TypeOK, PC, Generation
<1>2. JobInv
  BY BoundsAssumption DEF JobInv, NoJob
<1>3. ExecutionInv /\ TokenInv
  BY DEF ExecutionInv, TokenInv
<1>4. RowConsistent
  BY DEF RowConsistent
<1>5. PublicationComplete
  BY DEF PublicationComplete
<1>6. QED
  BY <1>1, <1>2, <1>3, <1>4, <1>5 DEF IInv

LEMMA IInvStep == IInv /\ [Next]_vars => IInv'
BY TypeOKStep, JobInvStep, ExecutionInvStep, TokenInvStep, RowConsistentStep,
   PublicationCompleteStep DEF IInv

THEOREM InductiveInvariant == Spec => []IInv
BY InitIInv, IInvStep, PTL DEF Spec

\* Types, for every number of media, executions, attempts and artifacts: the
\* attempt number never exceeds worker.mediaJobAttempts.
THEOREM TypeCorrect == Spec => []TypeOK
<1>1. IInv => TypeOK
  BY DEF IInv
<1>2. QED
  BY <1>1, InductiveInvariant, PTL

\* A PROCESSING row always carries a token and an expiry, and no other row
\* does.
THEOREM RowsConsistent == Spec => []RowConsistent
<1>1. IInv => RowConsistent
  BY DEF IInv
<1>2. QED
  BY <1>1, InductiveInvariant, PTL

\* A media is COMPLETED exactly with all the artifacts of one attempt of its
\* current generation, whatever crashes, stalls and lost commits happen.
THEOREM PublicationIsComplete == Spec => []PublicationComplete
<1>1. IInv => PublicationComplete
  BY DEF IInv
<1>2. QED
  BY <1>1, InductiveInvariant, PTL

LEMMA CompletedStaysStep == IInv /\ [Next]_vars => [CompletedStays]_vars
<1> SUFFICES ASSUME IInv, Next PROVE CompletedStays
  OBVIOUS
<1> USE DEF IInv, CompletedStays, TypeOK
<1>1. CASE UNCHANGED <<generation, status, variants, attemptRow>>
  BY <1>1
\* A row that changes was not COMPLETED, and neither were its attempts.
<1>2. ASSUME NEW m \in Media, status[m] # "COMPLETED",
             \A k \in Media : k # m => /\ status'[k] = status[k]
                                       /\ generation'[k] = generation[k]
                                       /\ variants'[k] = variants[k],
             \A a \in AttemptId : a.media # m => attemptRow'[a] = attemptRow[a]
      PROVE  CompletedStays
  BY <1>2
<1>3. ASSUME NEW e \in Execution, Claim(e) \/ ClaimErrors(e)
      PROVE  CompletedStays
  BY <1>1, <1>2, <1>3
     DEF Claim, ClaimErrors, Goto, row, Claimable, TakeLease, ExecutionInv,
         AttemptId
<1>4. ASSUME NEW e \in Execution, CreateAttempt(e) \/ SetupErrors(e)
      PROVE  CompletedStays
  BY <1>4 DEF CreateAttempt, SetupErrors, UpsertAttempt, Goto, ExecutionInv, row
\* Who holds the lease of a row knows that it is PROCESSING.
<1>5. ASSUME NEW e \in Execution, pc[e] # "idle", HoldsLease(e)
      PROVE  att[e] \in AttemptId /\ att[e].media \in Media
             /\ status[att[e].media] # "COMPLETED"
  BY <1>5, MediaAssumption DEF HoldsLease, RowConsistent, ExecutionInv, AttemptId
<1>6. ASSUME NEW e \in Execution, Publish(e) \/ PublishErrors(e)
      PROVE  CompletedStays
  BY <1>1, <1>2, <1>5, <1>6
     DEF Publish, PublishErrors, Publishable, RecordPublication, ReleaseLease,
         tables, row
<1>7. ASSUME NEW e \in Execution, Complete(e) PROVE CompletedStays
  BY <1>1, <1>7, CompleteWritesNothing DEF tables, row
<1>8. ASSUME NEW e \in Execution, Fail(e) PROVE CompletedStays
  BY <1>1, <1>2, <1>5, <1>8 DEF Fail, Goto, ReleaseLease, row
<1>9. ASSUME NEW m \in Media, ManualRetry(m) PROVE CompletedStays
  BY <1>2, <1>9 DEF ManualRetry
<1>10. ASSUME NEW m \in Media, LeaseExpires(m) PROVE CompletedStays
  BY <1>1, <1>10 DEF LeaseExpires
<1>11. ASSUME NEW e \in Execution, Renew(e) PROVE CompletedStays
  BY <1>1, <1>11 DEF Renew
<1>12. QED
  BY <1>1, <1>3, <1>4, <1>6, <1>7, <1>8, <1>9, <1>10, <1>11
     DEF Next, Execute, Err, locals, tables, row, ClaimRefused,
         Process, ProcessErrors, PutTemp, PutTempErrors, CopyFinal, CopyErrors,
         PublishRefused, Compensate, Sweep, CompleteErrors, FailErrors,
         Return, Throw, Crash, QueueAdd, StalledCheck, Deliver

\* What is COMPLETED stays as published.
THEOREM CompletedForever == Spec => CompletedIsFinal
BY InductiveInvariant, CompletedStaysStep, PTL DEF Spec, CompletedIsFinal

----------------------------------------------------------------------------
(* Published objects.  Two live executions of one job share the attempt row *)
(* and so the object keys; without that, and without commits of unknown     *)
(* outcome, no object that a variant names is ever removed.                 *)

SoleWorker == "stall" \notin Faults /\ "lostAck" \notin Faults

\* A live execution owns its job, so no other runs the same generation.
OwnerInv == \A e \in Execution : pc[e] # "idle" => job[JobOf(e)].owner = e

\* What a publishing execution has copied is there.
CopiedInv ==
    \A e \in Execution :
        /\ pc[e] \in {"idle", "claiming", "attempting", "processing"} =>
             finalCount[e] = 0
        /\ pc[e] = "publishing" => ObjectKeys(att[e], finalCount[e]) \subseteq finals

\* An execution that may still remove final objects works for a generation
\* that is not published.
UnpublishedInv ==
    \A e \in Execution :
        pc[e] \in {"attempting", "processing", "publishing", "compensating"} =>
            ~ /\ status[att[e].media] = "COMPLETED"
              /\ generation[att[e].media] = att[e].generation

SInv ==
    /\ IInv
    /\ OwnerInv
    /\ CopiedInv
    /\ UnpublishedInv
    /\ PublishedObjectsExist

LEMMA OwnerInvStep ==
  "stall" \notin Faults /\ IInv /\ OwnerInv /\ [Next]_vars => OwnerInv'
<1> SUFFICES ASSUME "stall" \notin Faults, IInv, OwnerInv, [Next]_vars
             PROVE  OwnerInv'
  OBVIOUS
<1> USE DEF IInv, OwnerInv, JobOf
<1>1. ASSUME NEW e \in Execution, pc[e] # "idle"
      PROVE  JobOf(e) \in JobId /\ job[JobOf(e)].state = "active"
  BY <1>1, JobOfType, MediaAssumption DEF JobInv
<1>2. CASE UNCHANGED <<job, pc, att>>
  BY <1>2
<1>3. ASSUME NEW e \in Execution, pc[e] # "idle", NEW to \in PC,
             pc' = [pc EXCEPT ![e] = to], UNCHANGED <<job, att>>
      PROVE  OwnerInv'
  BY <1>3 DEF TypeOK
<1>4. ASSUME NEW e \in Execution, pc[e] # "idle", Forget(e),
             \A j \in JobId : j # JobOf(e) => job'[j] = job[j]
      PROVE  OwnerInv'
  <2> SUFFICES ASSUME NEW x \in Execution, pc'[x] # "idle"
               PROVE  job'[JobOf(x)'].owner = x
    OBVIOUS
  <2>1. x # e /\ pc[x] # "idle" /\ att'[x] = att[x]
    BY <1>4 DEF Forget, TypeOK
  <2>2. JobOf(x) \in JobId /\ JobOf(x) # JobOf(e)
    BY <1>1, <1>4, <2>1
  <2>3. QED
    BY <1>4, <2>1, <2>2
<1>5. ASSUME NEW e \in Execution, Return(e) \/ Throw(e) \/ Crash(e)
      PROVE  OwnerInv'
  <2>1. pc[e] # "idle" /\ Forget(e)
    BY <1>5 DEF Return, Throw, Crash
  <2>2. \A j \in JobId : j # JobOf(e) => job'[j] = job[j]
    BY <1>5 DEF Return, Throw, Crash, TypeOK
  <2>3. QED
    BY <1>4, <2>1, <2>2
<1>6. ASSUME NEW j \in JobId, job[j].state # "active" \/ job[j].owner = NoExecution,
             UNCHANGED <<pc, att>>, \A k \in JobId : k # j => job'[k] = job[k]
      PROVE  OwnerInv'
  <2> SUFFICES ASSUME NEW x \in Execution, pc[x] # "idle"
               PROVE  job'[JobOf(x)].owner = x
    BY <1>6
  <2>1. JobOf(x) \in JobId /\ JobOf(x) # j
    BY <1>1, <1>6, MediaAssumption
  <2>2. QED
    BY <1>6, <2>1
<1>7. ASSUME NEW j \in JobId, QueueAdd(j) \/ StalledCheck(j)
      PROVE  OwnerInv'
  <2>1. job[j].state # "active" \/ job[j].owner = NoExecution
    BY <1>7 DEF QueueAdd, StalledCheck
  <2>2. \A k \in JobId : k # j => job'[k] = job[k]
    BY <1>7 DEF QueueAdd, StalledCheck, TypeOK
  <2>3. QED
    BY <1>6, <1>7, <2>1, <2>2 DEF QueueAdd, StalledCheck, locals
<1>8. ASSUME NEW e \in Execution, NEW j \in JobId, Deliver(e, j)
      PROVE  OwnerInv'
  <2> SUFFICES ASSUME NEW x \in Execution, pc'[x] # "idle"
               PROVE  job'[JobOf(x)'].owner = x
    OBVIOUS
  <2>1. job[j] \in Job /\ job' = [job EXCEPT ![j] = [@ EXCEPT !.state = "active", !.owner = e]]
    BY <1>8 DEF Deliver, TypeOK
  <2>2. job'[j].owner = e
    BY <2>1 DEF TypeOK, Job
  <2>3. CASE x = e
    <3>1. JobOf(x)' = j
      BY <1>8, <2>3 DEF Deliver, TypeOK, JobId
    <3>2. QED
      BY <2>2, <2>3, <3>1
  <2>4. CASE x # e
    <3>1. pc[x] # "idle" /\ att'[x] = att[x]
      BY <1>8, <2>4 DEF Deliver, Goto, TypeOK
    <3>2. JobOf(x) \in JobId /\ JobOf(x) # j
      BY <1>1, <1>8, <3>1 DEF Deliver
    <3>3. job'[JobOf(x)] = job[JobOf(x)]
      BY <2>1, <3>2 DEF TypeOK
    <3>4. QED
      BY <3>1, <3>3
  <2>5. QED
    BY <2>3, <2>4
<1>9. ASSUME NEW e \in Execution, Execute(e) \/ Err(e) PROVE OwnerInv'
  BY <1>2, <1>3, <1>5, <1>9
     DEF Execute, Err, Goto, locals, PC, Claim, ClaimRefused, ClaimErrors, CreateAttempt, SetupErrors,
         Process, ProcessErrors, PutTemp, PutTempErrors, CopyFinal, CopyErrors,
         Publish, PublishRefused, PublishErrors, Compensate, Sweep, Complete,
         CompleteErrors, Fail, FailErrors
<1>10. QED
  BY <1>2, <1>5, <1>7, <1>8, <1>9
     DEF Next, vars, locals, Renew, LeaseExpires, ManualRetry

\* Two live executions have different attempts, and so different objects.
LEMMA AttemptsDiffer ==
  ASSUME SInv, NEW e \in Execution, NEW x \in Execution, e # x,
         pc[e] # "idle", pc[x] # "idle"
  PROVE  /\ att[e].media = att[x].media => att[e].generation # att[x].generation
         /\ \A k \in Nat, l \in Nat :
              ObjectKeys(att[e], k) \cap ObjectKeys(att[x], l) = {}
<1>1. JobOf(e) # JobOf(x)
  BY DEF SInv, OwnerInv
<1>2. att[e].media = att[x].media => att[e].generation # att[x].generation
  BY <1>1 DEF JobOf
<1>3. att[e] # att[x]
  BY <1>2
<1>4. QED
  BY <1>2, <1>3 DEF ObjectKeys, ObjectKey

LEMMA CopiedInvStep == SoleWorker /\ SInv /\ [Next]_vars => CopiedInv'
<1> SUFFICES ASSUME SoleWorker, SInv, [Next]_vars PROVE CopiedInv'
  OBVIOUS
<1> USE DEF SInv, IInv, CopiedInv
<1>1. ASSUME finals \subseteq finals',
             \A x \in Execution :
                \/ pc'[x] \notin {"idle", "claiming", "attempting", "processing",
                                  "publishing"}
                \/ finalCount'[x] = 0
                \/ /\ pc'[x] = pc[x]
                   /\ UNCHANGED <<att[x], finalCount[x]>>
      PROVE  CopiedInv'
  BY <1>1 DEF ObjectKeys
<1>2. ASSUME NEW e \in Execution, NEW to \in PC, pc' = [pc EXCEPT ![e] = to],
             \/ to \notin {"idle", "claiming", "attempting", "processing",
                           "publishing"}
             \/ pc[e] \in {"idle", "claiming", "attempting", "processing"},
             \A x \in Execution : x # e => att'[x] = att[x],
             \A x \in Execution : \/ finalCount'[x] = finalCount[x]
                                  \/ x = e /\ pc[e] = "publishing",
             finals \subseteq finals'
      PROVE  CopiedInv'
  BY <1>1, <1>2 DEF TypeOK
<1>3. ASSUME NEW e \in Execution, Forget(e), UNCHANGED finals
      PROVE  CopiedInv'
  BY <1>1, <1>3 DEF Forget, TypeOK
<1>4. ASSUME NEW e \in Execution, CopyFinal(e) PROVE CopiedInv'
  <2>1. finalCount[e] \in Nat /\ pc[e] = "publishing"
    BY <1>4, BoundsAssumption DEF CopyFinal, Copying, TypeOK
  <2>2. ObjectKeys(att[e], finalCount[e] + 1) \subseteq finals'
    BY <1>4, <2>1 DEF CopyFinal, NextKey, ObjectKeys
  <2>3. \A x \in Execution : x # e =>
           pc'[x] = pc[x] /\ att'[x] = att[x] /\ finalCount'[x] = finalCount[x]
    BY <1>4 DEF CopyFinal, TypeOK
  <2>4. /\ pc'[e] = "publishing"
        /\ att'[e] = att[e]
        /\ finalCount'[e] = finalCount[e] + 1
        /\ finals \subseteq finals'
    BY <1>4, <2>1 DEF CopyFinal, TypeOK
  <2>5. QED
    BY <2>2, <2>3, <2>4
<1>5. ASSUME NEW e \in Execution, Compensate(e) PROVE CopiedInv'
  <2>1. pc[e] = "compensating" /\ pc'[e] = "failing" /\ finalCount[e] \in Nat
    BY <1>5, BoundsAssumption DEF Compensate, Goto, TypeOK
  <2>2. finals \ ObjectKeys(att[e], finalCount[e]) \subseteq finals'
    BY <1>5 DEF Compensate, Remaining
  <2>3. ASSUME NEW x \in Execution, x # e, pc[x] = "publishing"
        PROVE  ObjectKeys(att[x], finalCount[x]) \subseteq finals'
    <3>1. finalCount[x] \in Nat
      BY BoundsAssumption DEF TypeOK
    <3>2. ObjectKeys(att[x], finalCount[x]) \cap ObjectKeys(att[e], finalCount[e]) = {}
      BY <2>1, <2>3, <3>1, AttemptsDiffer
    <3>3. QED
      BY <2>2, <2>3, <3>2
  <2>4. \A x \in Execution : x # e => pc'[x] = pc[x]
    BY <1>5 DEF Compensate, Goto, TypeOK
  <2>5. UNCHANGED <<att, finalCount>>
    BY <1>5 DEF Compensate, locals
  <2>6. QED
    BY <2>1, <2>3, <2>4, <2>5
<1>6. CASE UNCHANGED <<pc, att, finalCount, finals>>
  BY <1>1, <1>6
<1>7. ASSUME NEW e \in Execution, CopyErrors(e) PROVE CopiedInv'
  <2>1. finals \subseteq finals'
    BY <1>7 DEF CopyErrors
  <2>2. \A x \in Execution : x # e => finalCount'[x] = finalCount[x]
    BY <1>7 DEF CopyErrors, TypeOK
  <2>3. QED
    BY <1>2, <1>7, <2>1, <2>2 DEF CopyErrors, Copying, Goto, PC
<1>8. ASSUME NEW e \in Execution, Execute(e) \/ Err(e) PROVE CopiedInv'
  BY <1>2, <1>3, <1>4, <1>5, <1>6, <1>7, <1>8
     DEF Execute, Err, Goto, locals, storage, PC, Uploading, Publishable,
         Claim, ClaimRefused, ClaimErrors, CreateAttempt, SetupErrors,
         Process, ProcessErrors, PutTemp, PutTempErrors, Publish,
         PublishRefused, PublishErrors, Sweep, Complete, CompleteErrors,
         Fail, FailErrors, Return, Throw
<1>9. ASSUME NEW e \in Execution, NEW j \in JobId, Deliver(e, j) PROVE CopiedInv'
  BY <1>2, <1>9 DEF Deliver, Goto, storage, PC, TypeOK
<1>10. QED
  BY <1>3, <1>6, <1>8, <1>9
     DEF Next, vars, locals, storage, Crash, Renew, LeaseExpires, ManualRetry,
         QueueAdd, StalledCheck

LEMMA UnpublishedInvStep == SoleWorker /\ SInv /\ [Next]_vars => UnpublishedInv'
<1> SUFFICES ASSUME SoleWorker, SInv, [Next]_vars PROVE UnpublishedInv'
  OBVIOUS
<1> DEFINE Unpublished(m, g) == ~ (status[m] = "COMPLETED" /\ generation[m] = g)
           Live == {"attempting", "processing", "publishing", "compensating"}
<1> USE DEF SInv, IInv, UnpublishedInv
<1>0. ASSUME NEW x \in Execution, pc[x] # "idle"
      PROVE  att[x] \in AttemptId /\ att[x].media \in Media
             /\ att[x].generation \in Generation
  BY <1>0 DEF ExecutionInv, AttemptId
<1>1. ASSUME \A x \in Execution : pc'[x] \in Live => pc[x] \in Live /\ att'[x] = att[x],
             \A x \in Execution : pc'[x] \in Live =>
                Unpublished(att[x].media, att[x].generation)'
      PROVE  UnpublishedInv'
  BY <1>1
\* No row becomes COMPLETED, and no generation is reached again.
<1>2. ASSUME \A m \in Media : /\ status'[m] = "COMPLETED" => status[m] = "COMPLETED"
                              /\ \/ status'[m] # "COMPLETED"
                                 \/ generation'[m] = generation[m],
             \A x \in Execution : pc'[x] \in Live => pc[x] \in Live /\ att'[x] = att[x]
      PROVE  UnpublishedInv'
  BY <1>0, <1>2
<1>3. ASSUME NEW e \in Execution, NEW to \in PC, pc' = [pc EXCEPT ![e] = to],
             pc[e] \in Live \/ to \notin Live,
             UNCHANGED <<att, status, generation>>
      PROVE  UnpublishedInv'
  BY <1>2, <1>3 DEF TypeOK
<1>4. ASSUME NEW e \in Execution, Claim(e) \/ ClaimErrors(e)
      PROVE  UnpublishedInv'
  <2>1. CASE TakeLease(e) /\ Claimable(e)
    <3>1. att[e].media \in Media /\ pc[e] = "claiming"
      BY <1>0, <1>4 DEF Claim, ClaimErrors, Goto
    <3>2. /\ status' = [status EXCEPT ![att[e].media] = "PROCESSING"]
          /\ generation' = generation
          /\ att' = att
          /\ \A x \in Execution : x # e => pc'[x] = pc[x]
      BY <1>4, <2>1 DEF Claim, ClaimErrors, Goto, TakeLease, locals, TypeOK
    <3>3. status'[att[e].media] = "PROCESSING"
      BY <3>1, <3>2 DEF TypeOK
    <3>4. QED
      BY <1>0, <3>1, <3>2, <3>3 DEF TypeOK
  <2>2. CASE UNCHANGED row /\ ClaimErrors(e)
    BY <1>3, <2>2 DEF ClaimErrors, Goto, row, locals, PC
  <2>3. QED
    BY <1>4, <2>1, <2>2 DEF Claim, ClaimErrors
\* A row becomes COMPLETED by the only live execution of its generation.
<1>5. ASSUME NEW e \in Execution, Publish(e) PROVE UnpublishedInv'
  <2>1. pc[e] = "publishing" /\ att[e].media \in Media
    BY <1>0, <1>5 DEF Publish, Publishable
  <2>2. /\ status' = [status EXCEPT ![att[e].media] = "COMPLETED"]
        /\ generation' = generation
        /\ generation[att[e].media] = att[e].generation
        /\ att' = att
        /\ pc' = [pc EXCEPT ![e] = "sweeping"]
    BY <1>5 DEF Publish, Goto, RecordPublication, ReleaseLease, HoldsLease, locals
  <2>3. ASSUME NEW x \in Execution, pc'[x] \in Live
        PROVE  /\ pc[x] \in Live
               /\ Unpublished(att[x].media, att[x].generation)'
    <3>1. x # e /\ pc[x] \in Live
      BY <2>1, <2>2, <2>3 DEF TypeOK
    <3>2. att[e].media = att[x].media => att[e].generation # att[x].generation
      BY <2>1, <3>1, AttemptsDiffer
    <3>3. att[x].media \in Media
      BY <1>0, <3>1
    <3>4. QED
      BY <2>1, <2>2, <3>1, <3>2, <3>3 DEF TypeOK
  <2>4. QED
    BY <1>1, <2>2, <2>3
<1>6. ASSUME NEW e \in Execution, PublishErrors(e) PROVE UnpublishedInv'
  BY <1>3, <1>6
     DEF PublishErrors, Publishable, Goto, SoleWorker, tables, row, locals, PC
<1>7. ASSUME NEW e \in Execution, Complete(e) PROVE UnpublishedInv'
  BY <1>3, <1>7, CompleteWritesNothing DEF Complete, Goto, tables, row, locals, PC
<1>8. ASSUME NEW e \in Execution, Fail(e) PROVE UnpublishedInv'
  <2>1. CASE HoldsLease(e)
    <3>1. att[e].media \in Media
      BY <1>0, <1>8 DEF Fail, Goto
    <3>2. \A m \in Media : status'[m] = "COMPLETED" => status[m] = "COMPLETED"
      BY <1>8, <2>1, <3>1 DEF Fail, ReleaseLease, TypeOK
    <3>3. QED
      BY <1>2, <1>8, <2>1, <3>2 DEF Fail, Goto, ReleaseLease, locals, TypeOK
  <2>2. CASE ~HoldsLease(e)
    BY <1>3, <1>8, <2>2 DEF Fail, Goto, row, locals, PC
  <2>3. QED
    BY <2>1, <2>2
<1>9. ASSUME NEW m \in Media, ManualRetry(m) PROVE UnpublishedInv'
  <2>1. /\ status' = [status EXCEPT ![m] = "PENDING"]
        /\ generation' = [generation EXCEPT ![m] = @ + 1]
        /\ UNCHANGED <<pc, att>>
    BY <1>9 DEF ManualRetry, locals
  <2>2. QED
    BY <1>2, <2>1 DEF TypeOK
<1>10. ASSUME NEW e \in Execution, Forget(e), UNCHANGED <<status, generation>>
       PROVE  UnpublishedInv'
  BY <1>2, <1>10 DEF Forget, TypeOK
<1>11. ASSUME NEW e \in Execution, NEW j \in JobId, Deliver(e, j)
       PROVE  UnpublishedInv'
  BY <1>2, <1>11 DEF Deliver, Goto, tables, row, TypeOK
<1>12. CASE UNCHANGED <<pc, att, status, generation>>
  BY <1>2, <1>12
<1>13. ASSUME NEW e \in Execution, Execute(e) \/ Err(e) PROVE UnpublishedInv'
  BY <1>3, <1>4, <1>5, <1>6, <1>7, <1>8, <1>10, <1>12, <1>13
     DEF Execute, Err, Goto, locals, tables, row, PC, Uploading, Copying,
         Publishable, ClaimRefused, CreateAttempt, SetupErrors, Process,
         ProcessErrors, PutTemp, PutTempErrors, CopyFinal, CopyErrors,
         PublishRefused, Compensate, Sweep, CompleteErrors, FailErrors, Return,
         Throw
<1>14. QED
  BY <1>9, <1>10, <1>11, <1>12, <1>13
     DEF Next, vars, locals, tables, row, Crash, Renew, LeaseExpires,
         QueueAdd, StalledCheck

LEMMA PublishedObjectsExistStep ==
  SoleWorker /\ SInv /\ [Next]_vars => PublishedObjectsExist'
<1> SUFFICES ASSUME SoleWorker, SInv, [Next]_vars PROVE PublishedObjectsExist'
  OBVIOUS
<1> USE DEF SInv, IInv, PublishedObjectsExist
<1>1. CASE UNCHANGED variants /\ finals \subseteq finals'
  BY <1>1
<1>2. ASSUME NEW e \in Execution, Publish(e) PROVE PublishedObjectsExist'
  <2>1. pc[e] = "publishing" /\ finalCount[e] = NumArtifacts
    BY <1>2 DEF Publish, Publishable
  <2>2. /\ variants' = [variants EXCEPT ![att[e].media] =
                          ObjectKeys(att[e], NumArtifacts)]
        /\ finals' = finals
    BY <1>2 DEF Publish, RecordPublication, storage
  <2>3. ObjectKeys(att[e], NumArtifacts) \subseteq finals
    BY <2>1 DEF CopiedInv
  <2>4. QED
    BY <2>2, <2>3 DEF TypeOK
<1>3. ASSUME NEW e \in Execution, Compensate(e) PROVE PublishedObjectsExist'
  <2>1. pc[e] = "compensating" /\ UNCHANGED variants
    BY <1>3 DEF Compensate, Goto, tables
  <2>2. finals \ ObjectKeys(att[e], finalCount[e]) \subseteq finals'
    BY <1>3 DEF Compensate, Remaining
  <2>3. ASSUME NEW m \in Media
        PROVE  variants[m] \cap ObjectKeys(att[e], finalCount[e]) = {}
    <3>1. CASE status[m] # "COMPLETED"
      BY <3>1 DEF PublicationComplete
    <3>2. CASE status[m] = "COMPLETED"
      <4>1. PICK n \in AttemptNo :
              variants[m] = ObjectKeys([media |-> m, generation |-> generation[m],
                                        number |-> n], NumArtifacts)
        BY <3>2 DEF PublicationComplete
      <4>2. att[e].media = m => att[e].generation # generation[m]
        BY <2>1, <3>2 DEF UnpublishedInv
      <4>3. att[e] # [media |-> m, generation |-> generation[m], number |-> n]
        BY <4>2
      <4>4. QED
        BY <4>1, <4>3 DEF ObjectKeys, ObjectKey
    <3>3. QED
      BY <3>1, <3>2
  <2>4. QED
    BY <2>1, <2>2, <2>3
<1>4. ASSUME NEW e \in Execution, PublishErrors(e) PROVE PublishedObjectsExist'
  BY <1>1, <1>4 DEF PublishErrors, SoleWorker, tables, storage
<1>5. ASSUME NEW e \in Execution, CopyFinal(e) \/ CopyErrors(e)
      PROVE  PublishedObjectsExist'
  BY <1>1, <1>5 DEF CopyFinal, CopyErrors, tables
<1>6. QED
  BY <1>1, <1>2, <1>3, <1>4, <1>5
     DEF Next, Execute, Err, vars, tables, storage, Claim, ClaimRefused,
         ClaimErrors, CreateAttempt, SetupErrors, Process, ProcessErrors,
         PutTemp, PutTempErrors, PublishRefused, Sweep, Complete,
         CompleteErrors, Fail, FailErrors, Return, Throw, Crash, Renew, Deliver,
         QueueAdd, StalledCheck, LeaseExpires, ManualRetry

\* With one live execution per job and commits whose outcome is known, every
\* object a variant names stays in the bucket, through crashes, redeliveries,
\* storage and database errors and partial clean-ups.
THEOREM PublishedObjectsStay ==
  ASSUME SoleWorker PROVE Spec => []PublishedObjectsExist
<1>1. Init => SInv
  BY InitIInv DEF Init, SInv, OwnerInv, CopiedInv, UnpublishedInv,
                  PublishedObjectsExist
<1>2. SInv /\ [Next]_vars => SInv'
  BY SoleWorker, IInvStep, OwnerInvStep, CopiedInvStep, UnpublishedInvStep,
     PublishedObjectsExistStep DEF SInv, SoleWorker
<1>3. SInv => PublishedObjectsExist
  BY DEF SInv
<1>4. QED
  BY <1>1, <1>2, <1>3, PTL DEF Spec

----------------------------------------------------------------------------
(* A FAILED media.  While no worker dies and none loses its job's lock, the *)
(* job of its generation has no attempt left, so nobody can claim it.       *)

NoLostWorker == "crash" \notin Faults /\ "stall" \notin Faults

\* An active job has its lock owner.
LockedInv == \A j \in JobId : job[j].state = "active" => job[j].owner # NoExecution

\* A live execution runs the attempt that comes after those its job counts.
AttemptNoInv == \A e \in Execution : pc[e] # "idle" =>
                    att[e].number = job[JobOf(e)].made + 1

\* BullMQ has recorded the last attempt of the job, or is about to.
GivenUp(j) ==
    \/ job[j].state = "failed"
    \/ \E e \in Execution : /\ pc[e] = "throwing"
                            /\ JobOf(e) = j
                            /\ att[e].number = MaxAttempts

CurrentJob(m) == [media |-> m, generation |-> generation[m]]

FailedInv == \A m \in Media : status[m] = "FAILED" => GivenUp(CurrentJob(m))

FInv ==
    /\ IInv
    /\ OwnerInv
    /\ LockedInv
    /\ AttemptNoInv
    /\ FailedInv

\* Two live executions run different jobs.
LEMMA JobsDiffer ==
  ASSUME FInv, NEW e \in Execution, NEW x \in Execution, e # x,
         pc[e] # "idle", pc[x] # "idle"
  PROVE  JobOf(e) # JobOf(x)
BY DEF FInv, OwnerInv

\* The job of a live execution.
LEMMA LiveJob ==
  ASSUME FInv, NEW e \in Execution, pc[e] # "idle"
  PROVE  /\ JobOf(e) \in JobId
         /\ job[JobOf(e)] \in Job
         /\ job[JobOf(e)].state = "active"
         /\ OwnsJob(e)
         /\ att[e] \in AttemptId
         /\ att[e].number = job[JobOf(e)].made + 1
BY JobOfType, JobHasType, MediaAssumption
   DEF FInv, IInv, OwnerInv, AttemptNoInv, JobInv, OwnsJob

\* What one step does to the jobs and the executions: nothing, or it moves
\* one execution on, or it takes one out, or it changes one waiting job.
LEMMA JobSteps ==
  ASSUME NoLostWorker, FInv, Next
  PROVE  \/ UNCHANGED <<job, pc, att>>
         \/ \E e \in Execution, to \in PC \ {"idle"} :
              /\ pc[e] # "idle"
              /\ pc' = [pc EXCEPT ![e] = to]
              /\ UNCHANGED <<job, att>>
              /\ pc[e] # "throwing"
         \/ \E e \in Execution : Return(e) \/ Throw(e)
         \/ \E j \in JobId : QueueAdd(j)
         \/ \E e \in Execution, j \in JobId : Deliver(e, j)
<1>1. ASSUME NEW e \in Execution, Execute(e) \/ Err(e)
      PROVE  \/ UNCHANGED <<job, pc, att>>
             \/ \E to \in PC \ {"idle"} : /\ pc[e] # "idle"
                                           /\ pc' = [pc EXCEPT ![e] = to]
                                           /\ UNCHANGED <<job, att>>
                                           /\ pc[e] # "throwing"
             \/ Return(e) \/ Throw(e)
  BY <1>1
     DEF Execute, Err, Goto, locals, PC, Claim, ClaimRefused, ClaimErrors,
         CreateAttempt, SetupErrors, Process, ProcessErrors, PutTemp,
         PutTempErrors, Uploading, CopyFinal, CopyErrors, Copying, Publish,
         PublishRefused, PublishErrors, Publishable, Compensate, Sweep,
         Complete, CompleteErrors, Fail, FailErrors
\* No lock is ever found lost.
<1>2. ASSUME NEW j \in JobId, StalledCheck(j) PROVE FALSE
  BY <1>2 DEF StalledCheck, NoLostWorker, FInv, LockedInv
<1>3. QED
  BY <1>1, <1>2
     DEF Next, Crash, NoLostWorker, Renew, LeaseExpires, ManualRetry, locals

\* The steps that change a job, each by what it does to its own job.
LEMMA JobEffects ==
  ASSUME FInv
  PROVE  /\ \A e \in Execution : Return(e) =>
              /\ pc[e] = "returning" /\ Forget(e)
              /\ \A k \in JobId : k # JobOf(e) => job'[k] = job[k]
              /\ job'[JobOf(e)].state = "completed"
         /\ \A e \in Execution : Throw(e) =>
              /\ pc[e] = "throwing" /\ Forget(e)
              /\ \A k \in JobId : k # JobOf(e) => job'[k] = job[k]
              /\ job'[JobOf(e)].state =
                   IF job[JobOf(e)].made + 1 >= MaxAttempts THEN "failed" ELSE "waiting"
         /\ \A j \in JobId : QueueAdd(j) =>
              /\ job[j].state = "absent"
              /\ \A k \in JobId : k # j => job'[k] = job[k]
              /\ job'[j].state = "waiting"
              /\ UNCHANGED <<pc, att>>
         /\ \A e \in Execution, j \in JobId : Deliver(e, j) =>
              /\ job[j].state = "waiting"
              /\ \A k \in JobId : k # j => job'[k] = job[k]
              /\ job'[j].state = "active"
              /\ job'[j].owner = e
              /\ job'[j].made = job[j].made
              /\ pc[e] = "idle"
              /\ pc' = [pc EXCEPT ![e] = "claiming"]
              /\ att' = [att EXCEPT ![e] = [media |-> j.media,
                                           generation |-> j.generation,
                                           number |-> job[j].made + 1]]
<1> USE DEF FInv, IInv
<1>1. ASSUME NEW k \in JobId, NEW r \in Job, job' = [job EXCEPT ![k] = r]
      PROVE  /\ job'[k] = r
             /\ \A l \in JobId : l # k => job'[l] = job[l]
  BY <1>1 DEF TypeOK
<1>2. ASSUME NEW e \in Execution, Return(e)
      PROVE  /\ pc[e] = "returning" /\ Forget(e)
             /\ \A k \in JobId : k # JobOf(e) => job'[k] = job[k]
             /\ job'[JobOf(e)].state = "completed"
  <2> DEFINE r == [job[JobOf(e)] EXCEPT !.state = "completed", !.owner = NoExecution]
  <2>1. pc[e] = "returning" /\ Forget(e)
    BY <1>2 DEF Return
  <2>2. JobOf(e) \in JobId /\ job[JobOf(e)] \in Job /\ OwnsJob(e)
    BY <2>1, LiveJob
  <2>3. r \in Job
    BY <2>2, JobRecordType
  <2>4. r.state = "completed"
    BY <2>2 DEF Job
  <2>5. job' = [job EXCEPT ![JobOf(e)] = r]
    BY <1>2, <2>2 DEF Return
  <2> HIDE DEF r
  <2>6. QED
    BY <1>1, <2>1, <2>2, <2>3, <2>4, <2>5
<1>3. ASSUME NEW e \in Execution, Throw(e)
      PROVE  /\ pc[e] = "throwing" /\ Forget(e)
             /\ \A k \in JobId : k # JobOf(e) => job'[k] = job[k]
             /\ job'[JobOf(e)].state =
                  IF job[JobOf(e)].made + 1 >= MaxAttempts THEN "failed" ELSE "waiting"
  <2> DEFINE n == job[JobOf(e)].made + 1
             s == IF n >= MaxAttempts THEN "failed" ELSE "waiting"
             r == [job[JobOf(e)] EXCEPT !.made = n, !.owner = NoExecution, !.state = s]
  <2>1. pc[e] = "throwing" /\ Forget(e)
    BY <1>3 DEF Throw
  <2>2. JobOf(e) \in JobId /\ job[JobOf(e)] \in Job /\ OwnsJob(e)
    BY <2>1, LiveJob
  <2>3. n \in 0..MaxAttempts
    <3>1. job[JobOf(e)].state = "active" /\ job[JobOf(e)].made \in 0..MaxAttempts
      BY <2>1, <2>2, LiveJob DEF Job
    <3>2. QED
      BY <2>2, <3>1, BoundsAssumption DEF JobInv
  <2>4. s \in {"absent", "waiting", "active", "completed", "failed"}
    OBVIOUS
  <2>5. job' = [job EXCEPT ![JobOf(e)] = r]
    BY <1>3, <2>2 DEF Throw
  <2>6. r \in Job /\ r.state = s
    <3> HIDE DEF n, s
    <3>1. r \in Job
      BY <2>2, <2>3, <2>4, JobRecordType
    <3>2. r.state = s
      BY <2>2 DEF Job
    <3>3. QED
      BY <3>1, <3>2
  <2>7. job'[JobOf(e)].state = s /\ \A k \in JobId : k # JobOf(e) => job'[k] = job[k]
    <3> HIDE DEF r, s
    <3>1. QED
      BY <1>1, <2>2, <2>5, <2>6
  <2>8. QED
    BY <2>1, <2>7
<1>4. ASSUME NEW j \in JobId, QueueAdd(j)
      PROVE  /\ \A k \in JobId : k # j => job'[k] = job[k]
             /\ job'[j].state = "waiting"
  <2> DEFINE r == [job[j] EXCEPT !.state = "waiting"]
  <2>1. job[j] \in Job
    BY JobHasType
  <2>2. r \in Job
    BY <2>1, JobRecordType
  <2>3. r.state = "waiting"
    BY <2>1 DEF Job
  <2>4. job' = [job EXCEPT ![j] = r]
    BY <1>4 DEF QueueAdd
  <2> HIDE DEF r
  <2>5. QED
    BY <1>1, <2>2, <2>3, <2>4
<1>5. ASSUME NEW e \in Execution, NEW j \in JobId, Deliver(e, j)
      PROVE  /\ \A k \in JobId : k # j => job'[k] = job[k]
             /\ job'[j].state = "active"
             /\ job'[j].owner = e
             /\ job'[j].made = job[j].made
  <2> DEFINE r == [job[j] EXCEPT !.state = "active", !.owner = e]
  <2>1. job[j] \in Job
    BY JobHasType
  <2>2. r \in Job
    BY <2>1, JobRecordType
  <2>3. r.state = "active" /\ r.owner = e /\ r.made = job[j].made
    BY <2>1 DEF Job
  <2>4. job' = [job EXCEPT ![j] = r]
    BY <1>5 DEF Deliver
  <2> HIDE DEF r
  <2>5. QED
    BY <1>1, <2>2, <2>3, <2>4
<1>6. \A j \in JobId : QueueAdd(j) => job[j].state = "absent" /\ UNCHANGED <<pc, att>>
  BY DEF QueueAdd, locals
<1>7. \A e \in Execution, j \in JobId : Deliver(e, j) =>
        /\ job[j].state = "waiting"
        /\ pc[e] = "idle"
        /\ pc' = [pc EXCEPT ![e] = "claiming"]
        /\ att' = [att EXCEPT ![e] = [media |-> j.media, generation |-> j.generation,
                                     number |-> job[j].made + 1]]
  BY DEF Deliver, Goto, NextAttemptNo
<1>8. QED
  BY <1>2, <1>3, <1>4, <1>5, <1>6, <1>7

LEMMA LockedInvStep == NoLostWorker /\ FInv /\ [Next]_vars => LockedInv'
<1> SUFFICES ASSUME NoLostWorker, FInv, [Next]_vars PROVE LockedInv'
  OBVIOUS
<1>1. ASSUME NEW k, \A l \in JobId : l # k => job'[l] = job[l],
             job'[k].state # "active" \/ job'[k].owner # NoExecution
      PROVE  LockedInv'
  BY <1>1 DEF FInv, LockedInv
<1>2. CASE UNCHANGED job
  BY <1>2 DEF FInv, LockedInv
<1>3. ASSUME NEW e \in Execution, Return(e) \/ Throw(e) PROVE LockedInv'
  BY <1>1, <1>3, JobEffects
<1>4. ASSUME NEW j \in JobId, QueueAdd(j) PROVE LockedInv'
  BY <1>1, <1>4, JobEffects
<1>5. ASSUME NEW e \in Execution, NEW j \in JobId, Deliver(e, j) PROVE LockedInv'
  BY <1>1, <1>5, JobEffects, MediaAssumption
<1>6. QED
  BY <1>2, <1>3, <1>4, <1>5, JobSteps DEF vars

LEMMA AttemptNoInvStep == NoLostWorker /\ FInv /\ [Next]_vars => AttemptNoInv'
<1> SUFFICES ASSUME NoLostWorker, FInv, [Next]_vars PROVE AttemptNoInv'
  OBVIOUS
<1>0. \A x \in Execution : pc[x] # "idle" =>
        JobOf(x) \in JobId /\ att[x].number = job[JobOf(x)].made + 1
  BY LiveJob
<1>1. CASE UNCHANGED <<job, pc, att>>
  BY <1>0, <1>1 DEF AttemptNoInv, JobOf
<1>2. ASSUME NEW e \in Execution, NEW to, pc[e] # "idle",
             pc' = [pc EXCEPT ![e] = to], UNCHANGED <<job, att>>
      PROVE  AttemptNoInv'
  BY <1>0, <1>2 DEF AttemptNoInv, JobOf, FInv, IInv, TypeOK
<1>3. ASSUME NEW e \in Execution, Return(e) \/ Throw(e) PROVE AttemptNoInv'
  <2>1. /\ pc[e] # "idle" /\ Forget(e)
        /\ \A k \in JobId : k # JobOf(e) => job'[k] = job[k]
    BY <1>3, JobEffects
  <2> SUFFICES ASSUME NEW x \in Execution, pc'[x] # "idle"
               PROVE  att'[x].number = job'[JobOf(x)'].made + 1
    BY DEF AttemptNoInv
  <2>2. x # e /\ pc[x] # "idle" /\ att'[x] = att[x]
    BY <2>1 DEF Forget, FInv, IInv, TypeOK
  <2>3. JobOf(x) \in JobId /\ JobOf(x) # JobOf(e) /\ JobOf(x)' = JobOf(x)
    BY <1>0, <2>1, <2>2, JobsDiffer DEF JobOf
  <2>4. QED
    BY <1>0, <2>1, <2>2, <2>3
<1>4. ASSUME NEW j \in JobId, QueueAdd(j) PROVE AttemptNoInv'
  <2>1. /\ job[j].state = "absent"
        /\ \A k \in JobId : k # j => job'[k] = job[k]
        /\ UNCHANGED <<pc, att>>
    BY <1>4, JobEffects
  <2>2. \A x \in Execution : pc[x] # "idle" => JobOf(x) # j
    BY <2>1, LiveJob
  <2>3. QED
    BY <1>0, <2>1, <2>2 DEF AttemptNoInv, JobOf
<1>5. ASSUME NEW e \in Execution, NEW j \in JobId, Deliver(e, j)
      PROVE  AttemptNoInv'
  <2>1. /\ job[j].state = "waiting"
        /\ \A k \in JobId : k # j => job'[k] = job[k]
        /\ job'[j].made = job[j].made
        /\ pc' = [pc EXCEPT ![e] = "claiming"]
        /\ att' = [att EXCEPT ![e] = [media |-> j.media, generation |-> j.generation,
                                     number |-> job[j].made + 1]]
    BY <1>5, JobEffects
  <2>2. att'[e].number = job[j].made + 1 /\ JobOf(e)' = j
    BY <2>1 DEF JobOf, JobId, FInv, IInv, TypeOK
  <2>3. \A x \in Execution : x # e /\ pc'[x] # "idle" =>
          /\ pc[x] # "idle" /\ att'[x] = att[x]
          /\ JobOf(x)' = JobOf(x) /\ JobOf(x) \in JobId /\ JobOf(x) # j
    BY <2>1, LiveJob DEF JobOf, FInv, IInv, TypeOK
  <2>4. QED
    BY <1>0, <2>1, <2>2, <2>3 DEF AttemptNoInv
<1>6. QED
  BY <1>1, <1>2, <1>3, <1>4, <1>5, JobSteps DEF vars

\* A job that was given up stays so: BullMQ records the last attempt when the
\* execution that made it ends.
LEMMA GivenUpStays ==
  ASSUME NoLostWorker, FInv, Next, NEW j \in JobId, GivenUp(j)
  PROVE  GivenUp(j)'
<1> SUFFICES ASSUME ~GivenUp(j)' PROVE FALSE
  OBVIOUS
<1> USE DEF GivenUp
<1>1. CASE UNCHANGED <<job, pc, att>>
  BY <1>1 DEF JobOf
<1>2. ASSUME NEW e \in Execution, NEW to, pc[e] # "throwing",
             pc' = [pc EXCEPT ![e] = to], UNCHANGED <<job, att>>
      PROVE  FALSE
  BY <1>2 DEF JobOf, FInv, IInv, TypeOK
<1>3. ASSUME NEW e \in Execution, Return(e) \/ Throw(e) PROVE FALSE
  <2>1. /\ pc[e] # "idle" /\ Forget(e)
        /\ \A k \in JobId : k # JobOf(e) => job'[k] = job[k]
    BY <1>3, JobEffects
  <2>2. CASE job[j].state = "failed"
    BY <2>1, <2>2, LiveJob
  <2>3. ASSUME NEW x \in Execution, pc[x] = "throwing", JobOf(x) = j,
               att[x].number = MaxAttempts
        PROVE  FALSE
    <3>1. CASE x = e
      <4>1. /\ job'[j].state = IF job[j].made + 1 >= MaxAttempts THEN "failed"
                                                               ELSE "waiting"
            /\ job[j].made + 1 = MaxAttempts
        BY <1>3, <2>3, <3>1, JobEffects, LiveJob
      <4>2. QED
        BY <4>1, BoundsAssumption
    <3>2. CASE x # e
      <4>1. pc'[x] = pc[x] /\ att'[x] = att[x]
        BY <2>1, <3>2 DEF Forget, FInv, IInv, TypeOK
      <4>2. QED
        BY <2>3, <4>1 DEF JobOf
    <3>3. QED
      BY <3>1, <3>2
  <2>4. QED
    BY <2>2, <2>3
<1>4. ASSUME NEW k \in JobId, QueueAdd(k) PROVE FALSE
  BY <1>4, JobEffects DEF JobOf
<1>5. ASSUME NEW e \in Execution, NEW k \in JobId, Deliver(e, k) PROVE FALSE
  <2>1. /\ job[k].state = "waiting"
        /\ pc[e] = "idle"
        /\ \A l \in JobId : l # k => job'[l] = job[l]
        /\ \A x \in Execution : x # e => pc'[x] = pc[x] /\ att'[x] = att[x]
    BY <1>5, JobEffects DEF FInv, IInv, TypeOK
  <2>2. QED
    BY <2>1 DEF JobOf
<1>6. QED
  BY <1>1, <1>2, <1>3, <1>4, <1>5, JobSteps

\* The media of an execution's current generation is not FAILED before the
\* execution has failed it.
LEMMA LiveIsNotFailed ==
  ASSUME FInv, NEW e \in Execution, pc[e] \notin {"idle", "throwing"},
         HoldsGeneration(e)
  PROVE  status[att[e].media] # "FAILED"
<1>1. att[e].media \in Media /\ CurrentJob(att[e].media) = JobOf(e)
  BY LiveJob DEF HoldsGeneration, CurrentJob, JobOf, AttemptId
<1>2. ~GivenUp(JobOf(e))
  BY LiveJob, JobsDiffer DEF GivenUp
<1>3. QED
  BY <1>1, <1>2 DEF FInv, FailedInv

\* A row that carries a token is not FAILED.
LEMMA HeldIsNotFailed ==
  ASSUME FInv, NEW e \in Execution, pc[e] # "idle", HoldsLease(e)
  PROVE  att[e].media \in Media /\ status[att[e].media] # "FAILED"
BY LiveJob, MediaAssumption DEF HoldsLease, FInv, IInv, RowConsistent, AttemptId

LEMMA FailedInvStep == NoLostWorker /\ FInv /\ [Next]_vars => FailedInv'
<1>0. FInv /\ UNCHANGED vars => FailedInv'
  <2> SUFFICES ASSUME FInv, UNCHANGED <<generation, status, job, pc, att>>
               PROVE  FailedInv'
    BY DEF vars
  <2>1. FailedInv
    BY DEF FInv
  <2>2. \A m \in Media : GivenUp(CurrentJob(m)) => GivenUp(CurrentJob(m))'
    BY DEF GivenUp, CurrentJob, JobOf
  <2>3. QED
    BY <2>1, <2>2 DEF FailedInv
<1> SUFFICES ASSUME NoLostWorker, FInv, Next PROVE FailedInv'
  BY <1>0
<1> USE DEF FInv, IInv, TypeOK
<1>1. ASSUME NEW m \in Media, status[m] = "FAILED", generation'[m] = generation[m]
      PROVE  GivenUp(CurrentJob(m))'
  <2>1. CurrentJob(m) \in JobId /\ CurrentJob(m)' = CurrentJob(m)
    BY <1>1 DEF CurrentJob, JobId
  <2>2. GivenUp(CurrentJob(m))
    BY <1>1 DEF FailedInv
  <2>3. \A j : CurrentJob(m)' = j /\ GivenUp(j)' => GivenUp(CurrentJob(m))'
    BY DEF GivenUp
  <2>4. QED
    BY <2>1, <2>2, <2>3, GivenUpStays
\* Most steps fail no media.
<1>2. ASSUME \A m \in Media : status'[m] = "FAILED" =>
                status[m] = "FAILED" /\ generation'[m] = generation[m]
      PROVE  FailedInv'
  BY <1>1, <1>2 DEF FailedInv
<1>3. ASSUME NEW e \in Execution, Fail(e), HoldsLease(e), IsFinal(e)
      PROVE  FailedInv'
  <2> DEFINE m == att[e].media
  <2>1. /\ pc[e] = "failing" /\ pc' = [pc EXCEPT ![e] = "throwing"]
        /\ status' = [status EXCEPT ![m] = "FAILED"]
        /\ UNCHANGED <<generation, att>>
    BY <1>3 DEF Fail, Goto, ReleaseLease, locals
  <2>2. att[e] \in AttemptId
    BY <2>1, LiveJob
  <2>3. att[e].number = MaxAttempts
    <3>1. att[e].number \in AttemptNo
      BY <2>2 DEF AttemptId
    <3>2. att[e].number >= MaxAttempts
      BY <1>3 DEF IsFinal
    <3>3. QED
      BY <3>1, <3>2, BoundsAssumption DEF AttemptNo
  <2>4. m \in Media /\ CurrentJob(m) = JobOf(e)
    BY <1>3, <2>2 DEF HoldsLease, CurrentJob, JobOf, AttemptId
  <2>5. m \in Media /\ att[e].number = MaxAttempts /\ CurrentJob(m) = JobOf(e)
    BY <2>3, <2>4
  <2>6. GivenUp(CurrentJob(m))'
    BY <2>1, <2>5 DEF GivenUp, CurrentJob, JobOf
  <2>7. ASSUME NEW n \in Media, status'[n] = "FAILED"
        PROVE  GivenUp(CurrentJob(n))'
    <3>1. CASE n = m
      BY <2>1, <2>6, <3>1
    <3>2. CASE n # m
      BY <1>1, <2>1, <2>7, <3>2
    <3>3. QED
      BY <3>1, <3>2
  <2>8. QED
    BY <2>7 DEF FailedInv
<1>4. ASSUME NEW e \in Execution, Fail(e), ~ (HoldsLease(e) /\ IsFinal(e))
      PROVE  FailedInv'
  BY <1>2, <1>4 DEF Fail, ReleaseLease, row
<1>5. ASSUME NEW e \in Execution, Claim(e) \/ ClaimErrors(e) PROVE FailedInv'
  BY <1>2, <1>5 DEF Claim, ClaimErrors, TakeLease, row
<1>6. ASSUME NEW e \in Execution, Publish(e) \/ PublishErrors(e) \/ Complete(e)
      PROVE  FailedInv'
  BY <1>2, <1>6 DEF Publish, PublishErrors, Complete, RecordPublication,
                    ReleaseLease, tables, row
<1>7. ASSUME NEW m \in Media, ManualRetry(m) PROVE FailedInv'
  BY <1>2, <1>7 DEF ManualRetry
<1>8. CASE UNCHANGED <<status, generation>>
  BY <1>2, <1>8
<1>9. QED
  BY <1>3, <1>4, <1>5, <1>6, <1>7, <1>8
     DEF Next, Execute, Err, locals, tables, row, CreateAttempt, SetupErrors,
         ClaimRefused, Process, ProcessErrors, PutTemp, PutTempErrors, CopyFinal,
         CopyErrors, PublishRefused, Compensate, Sweep, CompleteErrors, FailErrors,
         Return, Throw, Crash, QueueAdd, StalledCheck, Deliver, LeaseExpires, Renew

LEMMA LeavesFailedStep == FInv /\ [Next]_vars => [LeavesFailedByRetry]_vars
<1> SUFFICES ASSUME FInv, Next PROVE LeavesFailedByRetry
  OBVIOUS
<1>1. ASSUME NEW m \in Media, status[m] # "FAILED",
             \A k \in Media : k # m => status'[k] = status[k]
      PROVE  LeavesFailedByRetry
  BY <1>1 DEF LeavesFailedByRetry
<1>2. CASE UNCHANGED status
  BY <1>2 DEF LeavesFailedByRetry
<1> USE DEF IInv, TypeOK
<1>3. ASSUME NEW e \in Execution, TakeLease(e), Claimable(e), pc[e] = "claiming"
      PROVE  LeavesFailedByRetry
  <2>1. att[e].media \in Media /\ status[att[e].media] # "FAILED"
    BY <1>3, LiveIsNotFailed, LiveJob DEF Claimable, HoldsGeneration, AttemptId
  <2>2. QED
    BY <1>1, <1>3, <2>1 DEF TakeLease, FInv
<1>4. ASSUME NEW e \in Execution, pc[e] # "idle", HoldsLease(e), NEW to,
             ReleaseLease(att[e].media, to)
      PROVE  LeavesFailedByRetry
  BY <1>1, <1>4, HeldIsNotFailed DEF ReleaseLease, FInv
<1>5. ASSUME NEW e \in Execution, Claim(e) \/ ClaimErrors(e)
      PROVE  LeavesFailedByRetry
  BY <1>2, <1>3, <1>5 DEF Claim, ClaimErrors, Goto, row
<1>6. ASSUME NEW e \in Execution, Publish(e) \/ PublishErrors(e)
      PROVE  LeavesFailedByRetry
  BY <1>2, <1>4, <1>6 DEF Publish, PublishErrors, Publishable,
                          RecordPublication, tables, row
<1>7. ASSUME NEW e \in Execution, Complete(e) \/ Fail(e)
      PROVE  LeavesFailedByRetry
  BY <1>2, <1>4, <1>7 DEF Complete, Fail, Goto, row
<1>8. ASSUME NEW m \in Media, ManualRetry(m) PROVE LeavesFailedByRetry
  BY <1>8 DEF ManualRetry, LeavesFailedByRetry, FInv
<1>9. QED
  BY <1>2, <1>5, <1>6, <1>7, <1>8
     DEF Next, Execute, Err, locals, tables, row, CreateAttempt, SetupErrors,
         ClaimRefused, Process, ProcessErrors, PutTemp, PutTempErrors, CopyFinal,
         CopyErrors, PublishRefused, Compensate, Sweep, CompleteErrors, FailErrors,
         Return, Throw, Crash, QueueAdd, StalledCheck, Deliver, LeaseExpires, Renew

\* While no worker dies or stalls, whatever handlers, clean-ups, the database
\* and lost acknowledgements do, a media whose attempts are exhausted leaves
\* FAILED by MediaService.retry only, with a new generation: no execution of
\* the failed generation is left that could claim it.
THEOREM FailedMediaWaitsForRetry ==
  ASSUME NoLostWorker PROVE Spec => FailedLeftOnlyByRetry
<1>1. Init => FInv
  BY InitIInv
     DEF Init, FInv, OwnerInv, LockedInv, AttemptNoInv, FailedInv, NoJob
<1>2. FInv /\ [Next]_vars => FInv'
  BY NoLostWorker, IInvStep, OwnerInvStep, LockedInvStep, AttemptNoInvStep,
     FailedInvStep DEF FInv, NoLostWorker
<1>3. QED
  BY <1>1, <1>2, LeavesFailedStep, PTL DEF Spec, FailedLeftOnlyByRetry

=============================================================================
