--------------------------- MODULE Outbox_proofs ---------------------------
(***************************************************************************)
(* Proofs about Outbox: its type invariant, that the owner of a live lease *)
(* alone settles a row, and that the outbox implements DispatchDelivery.   *)
(***************************************************************************)
EXTENDS Outbox, TLAPS

\* What the steps of publish know: a dispatch on its way to the queue could be
\* mapped, one about to be marked is in the queue, one about to be buried
\* could not be mapped; and all of them have a row.
StepsInv ==
    \A b \in Batch, d \in Dispatch :
        /\ step[b][d] \in {"adding", "marking", "retrying"} => d \notin Invalid
        /\ step[b][d] = "marking" => d \in jobs
        /\ step[b][d] = "burying" => d \in Invalid
        /\ step[b][d] # "out" => status[d] # "absent"

\* What the rows and the queue know of each other.
RowsInv ==
    \A d \in Dispatch :
        /\ d \in jobs => d \notin Invalid
        /\ status[d] \in {"PUBLISHED", "deleted"} => d \in jobs
        /\ status[d] = "DEAD" => d \in Invalid

IInv == TypeOK /\ StepsInv /\ RowsInv

\* Candidates are claimable.
LEMMA CandidatesClaimable == Candidates \subseteq {d \in Dispatch : Claimable(d)}
BY DEF Candidates, Oldest

\* What a guarded update of the row of d leaves behind.
RowTypes ==
    /\ status \in [Dispatch -> {"absent", "PENDING", "PUBLISHING", "RETRY_WAIT",
                                "PUBLISHED", "DEAD", "deleted"}]
    /\ leaseToken \in [Dispatch -> Batch \cup {NoBatch}]
    /\ lease \in [Dispatch -> Time]
    /\ retryAt \in [Dispatch -> Time]
    /\ \A d \in Dispatch :
          /\ leaseToken[d] # NoBatch <=> status[d] = "PUBLISHING"
          /\ lease[d] # "none" <=> status[d] = "PUBLISHING"
          /\ status[d] = "RETRY_WAIT" => retryAt[d] # "none"

Marked(b, d, to) ==
    /\ RowTypes'
    /\ \A x \in Dispatch : x # d => status'[x] = status[x] /\ leaseToken'[x] = leaseToken[x]
    /\ \/ status' = status /\ leaseToken' = leaseToken
       \/ status[d] = "PUBLISHING" /\ leaseToken[d] = b /\ status'[d] = to

LEMMA RecordMarks ==
    ASSUME RowTypes, NEW b \in Batch, NEW d \in Dispatch,
           NEW to \in {"RETRY_WAIT", "PUBLISHED", "DEAD"}, NEW at \in Time,
           to = "RETRY_WAIT" => at # "none",
           Record(b, d, to, at)
    PROVE  Marked(b, d, to)
<1>1. CASE Holds(b, d)
  <2>1. RowTypes'
    BY <1>1 DEF Record, Holds, RowTypes, Time
  <2>2. \A x \in Dispatch : x # d => status'[x] = status[x] /\ leaseToken'[x] = leaseToken[x]
    BY <1>1 DEF Record, RowTypes
  <2>3. status[d] = "PUBLISHING" /\ leaseToken[d] = b /\ status'[d] = to
    BY <1>1 DEF Record, Holds, RowTypes
  <2>. QED BY <2>1, <2>2, <2>3 DEF Marked
<1>2. CASE ~Holds(b, d)
  BY <1>2 DEF Record, rows, Marked, RowTypes
<1>. QED BY <1>1, <1>2

\* The three updates of OutboxClaimRepository.
LEMMA Marks ==
    ASSUME RowTypes, NEW b \in Batch, NEW d \in Dispatch
    PROVE  /\ MarkPublished(b, d) => Marked(b, d, "PUBLISHED")
           /\ MarkRetryWait(b, d) => Marked(b, d, "RETRY_WAIT")
           /\ MarkDead(b, d)      => Marked(b, d, "DEAD")
<1>1. ASSUME MarkPublished(b, d) PROVE Marked(b, d, "PUBLISHED")
  BY <1>1, RecordMarks DEF MarkPublished, Time
<1>2. ASSUME MarkRetryWait(b, d) PROVE Marked(b, d, "RETRY_WAIT")
  BY <1>2, RecordMarks DEF MarkRetryWait, Time
<1>3. ASSUME MarkDead(b, d) PROVE Marked(b, d, "DEAD")
  <2>1. retryAt[d] \in Time
    BY DEF RowTypes
  <2>. QED BY <1>3, <2>1, RecordMarks DEF MarkDead
<1>. QED BY <1>1, <1>2, <1>3

\* Claiming keeps the rows well formed; it changes claimable rows only, and
\* leaves them PUBLISHING.
LEMMA ClaimRows ==
    ASSUME RowTypes, NEW b \in Batch, TakeLease(b, Candidates)
    PROVE  /\ RowTypes'
           /\ \A d \in Dispatch :
                \/ status'[d] = status[d] /\ leaseToken'[d] = leaseToken[d]
                \/ Claimable(d) /\ status'[d] = "PUBLISHING"
<1>1. \A d \in Candidates : d \in Dispatch /\ Claimable(d)
  BY CandidatesClaimable
<1>2. \A d \in Dispatch :
         \/ d \notin Candidates /\ status'[d] = status[d] /\ leaseToken'[d] = leaseToken[d]
                               /\ lease'[d] = lease[d]
         \/ d \in Candidates /\ status'[d] = "PUBLISHING" /\ leaseToken'[d] = b
                            /\ lease'[d] = "future"
  BY DEF TakeLease
<1>3. RowTypes'
  <2>1. status' \in [Dispatch -> {"absent", "PENDING", "PUBLISHING", "RETRY_WAIT",
                                  "PUBLISHED", "DEAD", "deleted"}]
    BY DEF TakeLease, RowTypes
  <2>2. leaseToken' \in [Dispatch -> Batch \cup {NoBatch}]
    BY DEF TakeLease, RowTypes
  <2>3. lease' \in [Dispatch -> Time] /\ retryAt' = retryAt
    BY DEF TakeLease, RowTypes, Time
  <2>. QED BY <1>2, <2>1, <2>2, <2>3, BatchAssumption DEF RowTypes
<1>. QED BY <1>1, <1>2, <1>3

----------------------------------------------------------------------------
(* What one step does to a row, to a step of publish and to the queue.      *)

RowEffect(d) ==
    \/ status'[d] = status[d] /\ leaseToken'[d] = leaseToken[d]
    \/ /\ status[d] = "absent" /\ status'[d] = "PENDING"
       /\ leaseToken'[d] = leaseToken[d]
    \/ Claimable(d) /\ status'[d] = "PUBLISHING"
    \/ /\ status[d] = "PUBLISHED" /\ status'[d] = "deleted"
       /\ leaseToken'[d] = leaseToken[d]
    \/ /\ status[d] = "PUBLISHING" /\ leaseToken[d] \in Batch
       /\ step'[leaseToken[d]][d] # step[leaseToken[d]][d]
       /\ \/ step[leaseToken[d]][d] = "marking"  /\ status'[d] = "PUBLISHED"
          \/ step[leaseToken[d]][d] = "retrying" /\ status'[d] = "RETRY_WAIT"
          \/ step[leaseToken[d]][d] = "burying"  /\ status'[d] = "DEAD"

PubEffect(b, d) ==
    \/ step'[b][d] = step[b][d]
    \/ step'[b][d] = "out"
    \/ step'[b][d] = "queued" /\ status'[d] = "PUBLISHING"
    \/ step[b][d] = "queued" /\ step'[b][d] = FirstStep(d)
    \/ step[b][d] = "adding" /\ step'[b][d] = "marking" /\ d \in jobs'
    \/ step[b][d] \in {"adding", "marking"} /\ step'[b][d] = "retrying"

JobsEffect ==
    \/ jobs' = jobs
    \/ \E b \in Batch, d \in Dispatch :
         /\ step[b][d] = "adding"
         /\ jobs' = jobs \cup {d}
         /\ UNCHANGED status

RunTypes ==
    /\ jobs \subseteq Dispatch
    /\ step \in [Batch -> [Dispatch -> PubStep]]
    /\ runner \in [Batch -> Worker]
    /\ awaited \subseteq Batch
    /\ crashes \in 0..MaxCrashes

LEMMA TypeOKParts == TypeOK <=> RowTypes /\ RunTypes
BY DEF TypeOK, RowTypes, RunTypes

Effects ==
    /\ RowTypes' /\ RunTypes'
    /\ \A d \in Dispatch : RowEffect(d)
    /\ \A b \in Batch, d \in Dispatch : PubEffect(b, d)
    /\ JobsEffect

\* The steps of the environment: a row is created, or time passes.
LEMMA EnvironmentEffects ==
    ASSUME TypeOK, NEW d \in Dispatch, Create(d) \/ LeaseExpires(d) \/ RetryDue(d)
    PROVE  Effects
<1>. RowTypes /\ RunTypes
  BY TypeOKParts
<1>1. RunTypes' /\ JobsEffect /\ \A b \in Batch, x \in Dispatch : PubEffect(b, x)
  BY DEF Create, LeaseExpires, RetryDue, runs, RunTypes, JobsEffect, PubEffect
<1>2. CASE Create(d)
  BY <1>1, <1>2, BatchAssumption DEF Create, RowTypes, RowEffect, Effects, Time
<1>3. CASE LeaseExpires(d)
  BY <1>1, <1>3 DEF LeaseExpires, RowTypes, RowEffect, Effects, Time
<1>4. CASE RetryDue(d)
  BY <1>1, <1>4 DEF RetryDue, RowTypes, RowEffect, Effects, Time
<1>. QED BY <1>2, <1>3, <1>4

LEMMA ClaimEffects ==
    ASSUME TypeOK, NEW w \in Worker, NEW b \in Batch,
           ClaimBatch(w, b) \/ ClaimLost(w, b)
    PROVE  Effects
<1>. RowTypes /\ RunTypes
  BY TypeOKParts
<1>1. /\ RowTypes'
      /\ \A d \in Dispatch :
           \/ status'[d] = status[d] /\ leaseToken'[d] = leaseToken[d]
           \/ Claimable(d) /\ status'[d] = "PUBLISHING"
  BY ClaimRows DEF ClaimBatch, ClaimLost
<1>2. \A d \in Dispatch : RowEffect(d)
  BY <1>1 DEF RowEffect
<1>3. JobsEffect
  BY DEF ClaimBatch, ClaimLost, JobsEffect, runs
<1>4. CASE ClaimBatch(w, b)
  <2>1. RunTypes'
    BY <1>4 DEF ClaimBatch, RunTypes, PubStep
  <2>2. \A x \in Batch, d \in Dispatch : PubEffect(x, d)
    <3>. SUFFICES ASSUME NEW x \in Batch, NEW d \in Dispatch PROVE PubEffect(x, d)
      OBVIOUS
    <3>1. x # b => step'[x] = step[x]
      BY <1>4 DEF ClaimBatch, RunTypes
    <3>2. x = b /\ d \notin Candidates => step'[x][d] = "out"
      BY <1>4 DEF ClaimBatch, RunTypes
    <3>3. x = b /\ d \in Candidates => step'[x][d] = "queued" /\ status'[d] = "PUBLISHING"
      BY <1>4 DEF ClaimBatch, RunTypes, TakeLease
    <3>. QED BY <3>1, <3>2, <3>3 DEF PubEffect
  <2>. QED BY <1>1, <1>2, <1>3, <2>1, <2>2 DEF Effects
<1>5. CASE ClaimLost(w, b)
  <2>1. RunTypes' /\ \A x \in Batch, d \in Dispatch : PubEffect(x, d)
    BY <1>5 DEF ClaimLost, RunTypes, runs, PubEffect
  <2>. QED BY <1>1, <1>2, <1>3, <2>1 DEF Effects
<1>. QED BY <1>4, <1>5

LEMMA RunEffects ==
    ASSUME TypeOK, NEW b \in Batch, NextChunk(b) \/ Cleanup(b)
    PROVE  Effects
<1>. RowTypes /\ RunTypes
  BY TypeOKParts
<1>1. CASE NextChunk(b)
  <2>1. RowTypes' /\ JobsEffect /\ \A d \in Dispatch : RowEffect(d)
    BY <1>1 DEF NextChunk, rows, RowTypes, JobsEffect, RowEffect
  <2>2. PICK chunk \in SUBSET Queued(b) :
           step' = [step EXCEPT ![b] = [d \in Dispatch |->
                      IF d \in chunk THEN FirstStep(d) ELSE step[b][d]]]
    BY <1>1 DEF NextChunk
  <2>3. RunTypes'
    BY <1>1, <2>2 DEF NextChunk, RunTypes, FirstStep, PubStep
  <2>4. \A x \in Batch, d \in Dispatch : PubEffect(x, d)
    BY <2>2 DEF RunTypes, Queued, PubEffect
  <2>. QED BY <2>1, <2>3, <2>4 DEF Effects
<1>2. CASE Cleanup(b)
  <2>1. PICK old \in SUBSET {d \in Dispatch : Purgeable(d)} :
           status' = [d \in Dispatch |-> IF d \in old THEN "deleted" ELSE status[d]]
    BY <1>2 DEF Cleanup
  <2>2. RowTypes' /\ \A d \in Dispatch : RowEffect(d)
    BY <1>2, <2>1 DEF Cleanup, Purgeable, RowTypes, RowEffect
  <2>3. RunTypes' /\ JobsEffect /\ \A x \in Batch, d \in Dispatch : PubEffect(x, d)
    BY <1>2 DEF Cleanup, RunTypes, JobsEffect, PubEffect
  <2>. QED BY <2>2, <2>3 DEF Effects
<1>. QED BY <1>1, <1>2

\* A step of publish that moves one dispatch of one batch.
LEMMA GotoEffects ==
    ASSUME RunTypes, NEW b \in Batch, NEW d \in Dispatch,
           NEW from \in PubStep, NEW to \in PubStep, Goto(b, d, from, to)
    PROVE  /\ step[b][d] = from /\ step'[b][d] = to
           /\ \A x \in Batch, y \in Dispatch :
                x # b \/ y # d => step'[x][y] = step[x][y]
           /\ step' \in [Batch -> [Dispatch -> PubStep]]
BY DEF Goto, RunTypes

LEMMA AddEffects ==
    ASSUME TypeOK, NEW b \in Batch, NEW d \in Dispatch, Add(b, d) \/ AddErrors(b, d)
    PROVE  Effects
<1>. RowTypes /\ RunTypes
  BY TypeOKParts
<1>1. RowTypes' /\ \A x \in Dispatch : RowEffect(x)
  BY DEF Add, AddErrors, rows, RowTypes, RowEffect
<1>2. JobsEffect
  BY DEF Add, AddErrors, Goto, rows, JobsEffect
<1>3. CASE Add(b, d)
  <2>1. Goto(b, d, "adding", "marking") /\ "adding" \in PubStep /\ "marking" \in PubStep
    BY <1>3 DEF Add, PubStep
  <2>2. RunTypes'
    BY <1>3, <2>1, GotoEffects DEF Add, RunTypes
  <2>3. \A x \in Batch, y \in Dispatch : PubEffect(x, y)
    BY <1>3, <2>1, GotoEffects DEF Add, PubEffect
  <2>. QED BY <1>1, <1>2, <2>2, <2>3 DEF Effects
<1>4. CASE AddErrors(b, d)
  <2>1. Goto(b, d, "adding", "retrying") /\ "adding" \in PubStep /\ "retrying" \in PubStep
    BY <1>4 DEF AddErrors, PubStep
  <2>2. RunTypes'
    BY <1>4, <2>1, GotoEffects DEF AddErrors, RunTypes
  <2>3. \A x \in Batch, y \in Dispatch : PubEffect(x, y)
    BY <1>4, <2>1, GotoEffects DEF PubEffect
  <2>. QED BY <1>1, <1>2, <2>2, <2>3 DEF Effects
<1>. QED BY <1>3, <1>4

\* What an update of the row of d does, by the step of publish that makes it.
LEMMA MarkEffects ==
    ASSUME TypeOK, NEW b \in Batch, NEW d \in Dispatch, step'[b][d] # step[b][d],
           \/ step[b][d] = "marking" /\ MarkPublished(b, d)
           \/ step[b][d] = "retrying" /\ MarkRetryWait(b, d)
           \/ step[b][d] = "burying" /\ MarkDead(b, d)
           \/ UNCHANGED rows
    PROVE  RowTypes' /\ \A x \in Dispatch : RowEffect(x)
<1>. RowTypes /\ RunTypes
  BY TypeOKParts
<1>1. CASE UNCHANGED rows
  BY <1>1 DEF rows, RowTypes, RowEffect
<1>2. CASE \/ step[b][d] = "marking" /\ Marked(b, d, "PUBLISHED")
           \/ step[b][d] = "retrying" /\ Marked(b, d, "RETRY_WAIT")
           \/ step[b][d] = "burying" /\ Marked(b, d, "DEAD")
  <2>1. RowTypes' /\ \A x \in Dispatch : x # d => RowEffect(x)
    BY <1>2 DEF Marked, RowEffect
  <2>2. RowEffect(d)
    BY <1>2 DEF Marked, RowEffect
  <2>. QED BY <2>1, <2>2
<1>. QED BY <1>1, <1>2, Marks

LEMMA MarkingEffects ==
    ASSUME TypeOK, NEW b \in Batch, NEW d \in Dispatch,
           \/ Publish(b, d) \/ PublishErrors(b, d) \/ Retry(b, d) \/ Bury(b, d)
    PROVE  Effects
<1>. RowTypes /\ RunTypes
  BY TypeOKParts
<1>1. PICK to \in {"out", "retrying"}, from \in {"marking", "retrying", "burying"} :
        /\ Goto(b, d, from, to)
        /\ to = "retrying" => from = "marking"
        /\ from # to
  BY DEF Publish, PublishErrors, Retry, Bury
<1>2. to \in PubStep /\ from \in PubStep
  BY DEF PubStep
<1>3. RunTypes'
  BY <1>1, <1>2, GotoEffects DEF Publish, PublishErrors, Retry, Bury, RunTypes
<1>4. JobsEffect
  BY DEF Publish, PublishErrors, Retry, Bury, JobsEffect
<1>5. \A x \in Batch, y \in Dispatch : PubEffect(x, y)
  BY <1>1, <1>2, GotoEffects DEF PubEffect
<1>6. step'[b][d] # step[b][d]
  BY <1>1, <1>2, GotoEffects
<1>7. \/ step[b][d] = "marking" /\ MarkPublished(b, d)
      \/ step[b][d] = "retrying" /\ MarkRetryWait(b, d)
      \/ step[b][d] = "burying" /\ MarkDead(b, d)
      \/ UNCHANGED rows
  BY DEF Publish, PublishErrors, Retry, Bury, Goto
<1>8. RowTypes' /\ \A x \in Dispatch : RowEffect(x)
  BY <1>6, <1>7, MarkEffects
<1>. QED BY <1>3, <1>4, <1>5, <1>8 DEF Effects

LEMMA RecordErrorsEffects ==
    ASSUME TypeOK, NEW b \in Batch, NEW d \in Dispatch, RecordErrors(b, d)
    PROVE  Effects
<1>. RowTypes /\ RunTypes
  BY TypeOKParts
<1>1. step' = [step EXCEPT ![b] = [x \in Dispatch |->
                  IF x = d \/ (b \in awaited /\ step[b][x] = "queued")
                  THEN "out" ELSE step[b][x]]]
  BY DEF RecordErrors, Abort
<1>2. RunTypes'
  BY <1>1 DEF RecordErrors, Abort, RunTypes, PubStep
<1>3. JobsEffect /\ \A x \in Batch, y \in Dispatch : PubEffect(x, y)
  BY <1>1 DEF RecordErrors, RunTypes, JobsEffect, PubEffect
<1>4. step'[b][d] # step[b][d]
  BY <1>1 DEF RecordErrors, RunTypes
<1>5. \/ step[b][d] = "retrying" /\ MarkRetryWait(b, d)
      \/ step[b][d] = "burying" /\ MarkDead(b, d)
      \/ UNCHANGED rows
  BY DEF RecordErrors
<1>6. RowTypes' /\ \A x \in Dispatch : RowEffect(x)
  BY <1>4, <1>5, MarkEffects
<1>. QED BY <1>2, <1>3, <1>6 DEF Effects

LEMMA CrashEffects ==
    ASSUME TypeOK, NEW w \in Worker, Crash(w)
    PROVE  Effects
<1>. RowTypes /\ RunTypes
  BY TypeOKParts
<1>1. RowTypes' /\ JobsEffect /\ \A d \in Dispatch : RowEffect(d)
  BY DEF Crash, rows, RowTypes, JobsEffect, RowEffect
<1>2. RunTypes'
  BY BoundsAssumption DEF Crash, RunTypes, PubStep
<1>3. \A b \in Batch, d \in Dispatch : PubEffect(b, d)
  BY DEF Crash, RunTypes, PubEffect
<1>. QED BY <1>1, <1>2, <1>3 DEF Effects

LEMMA StepEffects ==
    ASSUME TypeOK, [Next]_vars
    PROVE  Effects
<1>1. CASE Next
  <2>1. CASE \E d \in Dispatch : Create(d) \/ LeaseExpires(d) \/ RetryDue(d)
    BY <2>1, EnvironmentEffects
  <2>2. CASE \E w \in Worker, b \in Batch : ClaimBatch(w, b) \/ ClaimLost(w, b)
    BY <2>2, ClaimEffects
  <2>3. CASE \E b \in Batch : NextChunk(b) \/ Cleanup(b)
    BY <2>3, RunEffects
  <2>4. CASE \E b \in Batch, d \in Dispatch : Act(b, d) \/ Err(b, d)
    BY <2>4, AddEffects, MarkingEffects, RecordErrorsEffects DEF Act, Err
  <2>5. CASE \E w \in Worker : Crash(w)
    BY <2>5, CrashEffects
  <2>. QED BY <1>1, <2>1, <2>2, <2>3, <2>4, <2>5 DEF Next
<1>2. CASE UNCHANGED vars
  <2>. RowTypes /\ RunTypes
    BY TypeOKParts
  <2>. QED BY <1>2 DEF vars, RowTypes, RunTypes, Effects, RowEffect, PubEffect, JobsEffect
<1>. QED BY <1>1, <1>2

----------------------------------------------------------------------------
(* The invariant.                                                           *)

LEMMA InitIInv == Init => IInv
<1>. SUFFICES ASSUME Init PROVE IInv
  OBVIOUS
<1>1. TypeOK
  BY BoundsAssumption DEF Init, TypeOK, Time, PubStep
<1>2. StepsInv /\ RowsInv
  BY DEF Init, StepsInv, RowsInv
<1>. QED BY <1>1, <1>2 DEF IInv

LEMMA StepsInvStep ==
    ASSUME IInv, Effects
    PROVE  StepsInv'
<1>. SUFFICES ASSUME NEW b \in Batch, NEW d \in Dispatch
     PROVE  /\ step'[b][d] \in {"adding", "marking", "retrying"} => d \notin Invalid
            /\ step'[b][d] = "marking" => d \in jobs'
            /\ step'[b][d] = "burying" => d \in Invalid
            /\ step'[b][d] # "out" => status'[d] # "absent"
  BY DEF StepsInv
<1>1. PubEffect(b, d) /\ RowEffect(d)
  BY DEF Effects
<1>2. jobs \subseteq jobs'
  BY DEF Effects, JobsEffect
<1>3. status[d] # "absent" => status'[d] # "absent"
  BY <1>1 DEF RowEffect
<1>. QED BY <1>1, <1>2, <1>3 DEF IInv, StepsInv, PubEffect, FirstStep

LEMMA RowsInvStep ==
    ASSUME IInv, Effects
    PROVE  RowsInv'
<1>. SUFFICES ASSUME NEW d \in Dispatch
     PROVE  /\ d \in jobs' => d \notin Invalid
            /\ status'[d] \in {"PUBLISHED", "deleted"} => d \in jobs'
            /\ status'[d] = "DEAD" => d \in Invalid
  BY DEF RowsInv
<1>1. jobs \subseteq jobs' /\ (d \in jobs' => d \notin Invalid)
  BY DEF Effects, JobsEffect, IInv, StepsInv, RowsInv
<1>2. RowEffect(d)
  BY DEF Effects
<1>. QED BY <1>1, <1>2 DEF IInv, StepsInv, RowsInv, RowEffect

LEMMA IInvStep == IInv /\ [Next]_vars => IInv'
<1>. SUFFICES ASSUME IInv, [Next]_vars PROVE IInv'
  OBVIOUS
<1>1. Effects
  BY StepEffects DEF IInv
<1>2. TypeOK'
  BY <1>1 DEF Effects, TypeOK, RowTypes, RunTypes
<1>. QED BY <1>1, <1>2, StepsInvStep, RowsInvStep DEF IInv

\* The invariant the other theorems rest on.
THEOREM InductiveInvariant == Spec => []IInv
BY InitIInv, IInvStep, PTL DEF Spec

\* In every reachable state the variables have their types and the columns of
\* every row agree, however many rows, batches and workers there are.
THEOREM TypeCorrect == Spec => []TypeOK
<1>1. IInv => TypeOK
  BY DEF IInv
<1>. QED BY <1>1, InductiveInvariant, PTL

\* A step settles a row with a live lease only if the batch that holds the
\* lease takes it (markPublished, markRetryWait, markDead), whatever faults
\* are allowed.
THEOREM OwnersSettle == Spec => OnlyTheOwnerSettles
<1>1. ASSUME IInv, [Next]_vars
      PROVE  [\A d \in Dispatch : OwnersStep(d)]_vars
  <2>1. Effects
    BY <1>1, StepEffects DEF IInv
  <2>2. ASSUME NEW d \in Dispatch PROVE OwnersStep(d)
    <3>. SUFFICES ASSUME lease[d] = "future", leaseToken'[d] # leaseToken[d]
         PROVE  /\ step[leaseToken[d]][d] \in {"marking", "retrying", "burying"}
                /\ step'[leaseToken[d]][d] # step[leaseToken[d]][d]
      BY DEF OwnersStep
    <3>1. status[d] = "PUBLISHING"
      BY <1>1 DEF IInv, TypeOK
    <3>2. ~Claimable(d)
      BY <3>1 DEF Claimable
    <3>3. RowEffect(d)
      BY <2>1 DEF Effects
    <3>. QED BY <3>1, <3>2, <3>3 DEF RowEffect
  <2>. QED BY <2>2
<1>. QED BY <1>1, InductiveInvariant, PTL DEF Spec, OnlyTheOwnerSettles

----------------------------------------------------------------------------
(* The refinement.                                                          *)

Abstract(st) == CASE st = "absent"    -> "absent"
                  [] st = "PUBLISHED" -> "closed"
                  [] st = "deleted"   -> "purged"
                  [] st = "DEAD"      -> "buried"
                  [] OTHER            -> "open"

LEMMA RowOfIsAbstract ==
    /\ RowOf = [d \in Dispatch |-> Abstract(status[d])]
    /\ RowOf' = [d \in Dispatch |-> Abstract(status'[d])]
BY DEF RowOf, Abstract

LEMMA AbstractValues ==
    /\ Abstract("absent") = "absent"
    /\ Abstract("PENDING") = "open"
    /\ Abstract("PUBLISHING") = "open"
    /\ Abstract("RETRY_WAIT") = "open"
    /\ Abstract("PUBLISHED") = "closed"
    /\ Abstract("deleted") = "purged"
    /\ Abstract("DEAD") = "buried"
BY DEF Abstract

\* A step that keeps what every status stands for, and the queue, stutters.
LEMMA Stutters ==
    ASSUME \A d \in Dispatch : Abstract(status'[d]) = Abstract(status[d]),
           jobs' = jobs
    PROVE  UNCHANGED <<RowOf, jobs>>
BY RowOfIsAbstract

\* One row changes what it stands for.
LEMMA OneRow ==
    ASSUME NEW d \in Dispatch, \A x \in Dispatch : x # d => status'[x] = status[x]
    PROVE  RowOf' = [RowOf EXCEPT ![d] = Abstract(status'[d])]
BY RowOfIsAbstract

\* The updates of a row: PUBLISHED closes it, DEAD buries it, RETRY_WAIT
\* leaves it open.
LEMMA MarkRefines ==
    ASSUME NEW b \in Batch, NEW d \in Dispatch, jobs' = jobs,
           \/ Marked(b, d, "PUBLISHED") /\ d \in jobs
           \/ Marked(b, d, "RETRY_WAIT")
           \/ Marked(b, d, "DEAD") /\ d \in Invalid
           \/ status' = status
    PROVE  [Delivery!Next]_<<RowOf, jobs>>
<1>1. CASE status' = status
  BY <1>1, Stutters
<1>2. CASE Marked(b, d, "PUBLISHED") /\ d \in jobs /\ status' # status
  <2>1. RowOf[d] = "open" /\ RowOf' = [RowOf EXCEPT ![d] = "closed"]
    BY <1>2, OneRow, RowOfIsAbstract, AbstractValues DEF Marked
  <2>. QED BY <1>2, <2>1 DEF Delivery!Close, Delivery!Next
<1>3. CASE Marked(b, d, "RETRY_WAIT") /\ status' # status
  <2>1. \A x \in Dispatch : Abstract(status'[x]) = Abstract(status[x])
    BY <1>3, AbstractValues DEF Marked
  <2>. QED BY <2>1, Stutters
<1>4. CASE Marked(b, d, "DEAD") /\ d \in Invalid /\ status' # status
  <2>1. RowOf[d] = "open" /\ RowOf' = [RowOf EXCEPT ![d] = "buried"]
    BY <1>4, OneRow, RowOfIsAbstract, AbstractValues DEF Marked
  <2>. QED BY <1>4, <2>1 DEF Delivery!Bury, Delivery!Next
<1>. QED BY <1>1, <1>2, <1>3, <1>4

\* A dispatch whose job was not in the queue before has an open row.
LEMMA AddRefines ==
    ASSUME IInv, NEW b \in Batch, NEW d \in Dispatch, step[b][d] = "adding",
           status' = status, jobs' \in {jobs, jobs \cup {d}}
    PROVE  [Delivery!Next]_<<RowOf, jobs>>
<1>0. RowOf' = RowOf
  BY RowOfIsAbstract
<1>1. CASE jobs' = jobs
  BY <1>0, <1>1
<1>2. CASE jobs' = jobs \cup {d} /\ d \notin jobs
  <2>1. d \notin Invalid /\ status[d] \in {"PENDING", "PUBLISHING", "RETRY_WAIT"}
    BY <1>2 DEF IInv, StepsInv, RowsInv, TypeOK
  <2>2. RowOf[d] = "open"
    BY <2>1, RowOfIsAbstract, AbstractValues
  <2>. QED BY <1>0, <1>2, <2>1, <2>2 DEF Delivery!Enqueue, Delivery!Next
<1>. QED BY <1>1, <1>2

LEMMA CleanupRefines ==
    ASSUME NEW b \in Batch, Cleanup(b)
    PROVE  [Delivery!Next]_<<RowOf, jobs>>
<1>1. PICK old \in SUBSET {d \in Dispatch : Purgeable(d)} :
         status' = [d \in Dispatch |-> IF d \in old THEN "deleted" ELSE status[d]]
  BY DEF Cleanup
<1>2. \A d \in old : d \in Dispatch /\ RowOf[d] = "closed"
  BY <1>1, RowOfIsAbstract, AbstractValues DEF Purgeable
<1>3. \A d \in Dispatch : Abstract(status'[d]) = IF d \in old THEN "purged" ELSE RowOf[d]
  BY <1>1, RowOfIsAbstract, AbstractValues
<1>4. RowOf' = [d \in Dispatch |-> IF d \in old THEN "purged" ELSE RowOf[d]]
  BY <1>3, RowOfIsAbstract
<1>5. jobs' = jobs /\ old \in SUBSET Dispatch
  BY <1>1 DEF Cleanup
<1>6. Delivery!Purge(old)
  BY <1>2, <1>4, <1>5 DEF Delivery!Purge
<1>. QED BY <1>5, <1>6 DEF Delivery!Next

LEMMA StepRefines ==
    ASSUME IInv, [Next]_vars
    PROVE  [Delivery!Next]_<<RowOf, jobs>>
<1>. RowTypes
  BY TypeOKParts DEF IInv
<1>1. ASSUME NEW d \in Dispatch, Create(d)
      PROVE  [Delivery!Next]_<<RowOf, jobs>>
  <2>1. /\ \A x \in Dispatch : x # d => status'[x] = status[x]
        /\ status[d] = "absent" /\ status'[d] = "PENDING" /\ jobs' = jobs
    BY <1>1 DEF Create, RowTypes
  <2>2. RowOf[d] = "absent" /\ RowOf' = [RowOf EXCEPT ![d] = "open"]
    BY <2>1, OneRow, RowOfIsAbstract, AbstractValues
  <2>. QED BY <2>1, <2>2 DEF Delivery!Create, Delivery!Next
<1>2. ASSUME NEW w \in Worker, NEW b \in Batch, ClaimBatch(w, b) \/ ClaimLost(w, b)
      PROVE  [Delivery!Next]_<<RowOf, jobs>>
  <2>1. jobs' = jobs /\ TakeLease(b, Candidates)
    BY <1>2 DEF ClaimBatch, ClaimLost
  <2>2. \A d \in Dispatch : \/ status'[d] = status[d]
                            \/ /\ status[d] \in {"PENDING", "PUBLISHING", "RETRY_WAIT"}
                               /\ status'[d] = "PUBLISHING"
    BY <2>1, ClaimRows DEF Claimable
  <2>3. \A d \in Dispatch : Abstract(status'[d]) = Abstract(status[d])
    BY <2>2, AbstractValues
  <2>. QED BY <2>1, <2>3, Stutters
<1>3. ASSUME NEW b \in Batch, NEW d \in Dispatch, Add(b, d) \/ AddErrors(b, d)
      PROVE  [Delivery!Next]_<<RowOf, jobs>>
  <2>1. step[b][d] = "adding" /\ status' = status /\ jobs' \in {jobs, jobs \cup {d}}
    BY <1>3 DEF Add, AddErrors, Goto, rows
  <2>. QED BY <2>1, AddRefines
<1>4. ASSUME NEW b \in Batch, NEW d \in Dispatch,
             \/ Publish(b, d) \/ PublishErrors(b, d) \/ Retry(b, d) \/ Bury(b, d)
             \/ RecordErrors(b, d)
      PROVE  [Delivery!Next]_<<RowOf, jobs>>
  <2>1. /\ jobs' = jobs
        /\ \/ step[b][d] = "marking" /\ MarkPublished(b, d)
           \/ MarkRetryWait(b, d)
           \/ step[b][d] = "burying" /\ MarkDead(b, d)
           \/ status' = status
    BY <1>4 DEF Publish, PublishErrors, Retry, Bury, RecordErrors, Goto, rows
  <2>2. /\ step[b][d] = "marking" => d \in jobs
        /\ step[b][d] = "burying" => d \in Invalid
    BY DEF IInv, StepsInv
  <2>. QED BY <2>1, <2>2, Marks, MarkRefines
<1>5. ASSUME status' = status, jobs' = jobs
      PROVE  [Delivery!Next]_<<RowOf, jobs>>
  BY <1>5, RowOfIsAbstract
<1>6. ASSUME NEW d \in Dispatch, LeaseExpires(d) \/ RetryDue(d)
      PROVE  status' = status /\ jobs' = jobs
  BY <1>6 DEF LeaseExpires, RetryDue
<1>7. ASSUME NEW b \in Batch, NextChunk(b)
      PROVE  status' = status /\ jobs' = jobs
  BY <1>7 DEF NextChunk, rows
<1>8. ASSUME NEW w \in Worker, Crash(w)
      PROVE  status' = status /\ jobs' = jobs
  BY <1>8 DEF Crash, rows
<1>9. UNCHANGED vars => status' = status /\ jobs' = jobs
  BY DEF vars
<1>. QED BY <1>1, <1>2, <1>3, <1>4, <1>5, <1>6, <1>7, <1>8, <1>9, CleanupRefines
         DEF Next, Act, Err

\* The outbox implements DispatchDelivery: for any number of rows, batches and
\* workers and under every fault, rows are closed only once their job is in
\* the queue, purged only once closed, and never reopened.
THEOREM OutboxKeepsPromise == Spec => KeepsPromise
<1>1. Init => Delivery!Init
  <2>. SUFFICES ASSUME Init PROVE Delivery!Init
    OBVIOUS
  <2>1. \A d \in Dispatch : Abstract(status[d]) = "absent"
    BY AbstractValues DEF Init
  <2>2. RowOf = [d \in Dispatch |-> "absent"] /\ jobs = {}
    BY <2>1, RowOfIsAbstract DEF Init
  <2>. QED BY <2>2 DEF Delivery!Init
<1>2. IInv /\ [Next]_vars => [Delivery!Next]_<<RowOf, jobs>>
  BY StepRefines
<1>. QED BY <1>1, <1>2, InductiveInvariant, PTL DEF Spec, KeepsPromise, Delivery!Spec
=============================================================================
