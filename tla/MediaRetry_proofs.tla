-------------------------- MODULE MediaRetry_proofs --------------------------
(***************************************************************************)
(* What MediaRetry promises, for any number of requests, keys and media,   *)
(* any bound on the generations and every fault.  A retry that holds a     *)
(* generation it has read may open the next one only while it is the       *)
(* current one; what the answer names was therefore opened once, by it.    *)
(***************************************************************************)
EXTENDS MediaRetry, PostUploads_proofs

RetryTyped ==
    /\ status \in [Media -> {"PENDING", "COMPLETED", "FAILED"}]
    /\ generation \in [Media -> 1..MaxGeneration]
    /\ seen \in [Request -> 0..(MaxGeneration - 1)]
    /\ opened \in [Media -> [1..MaxGeneration -> Nat]]

\* What a retry has read is at most the current generation, and less once it
\* has opened the next one.
RetryFlowOf(r) ==
    /\ pc[r] \in {"retrying", "claiming", "finalizing"} => MediaOf(r) \in Media
    /\ pc[r] = "claiming" => seen[r] >= 1
    /\ pc[r] = "finalizing" => seen[r] >= 1 /\ seen[r] < generation[MediaOf(r)]

RetryFlow == \A r \in Request : RetryFlowOf(r)

FailedIsNotLast == \A m \in Media : status[m] = "FAILED" => generation[m] < MaxGeneration

\* What a retry is about to be answered is its own: no other retry is, and no
\* key was.
OwnGeneration ==
    \A r \in Request : pc[r] = "finalizing" =>
        /\ \A s \in Request \ {r} : pc[s] = "finalizing" => Retried(s) # Retried(r)
        /\ \A k \in Key : record[k].state = "FINALIZED" => record[k].outcome # Retried(r)

RetryInv ==
    /\ SafeInv
    /\ RetryTyped
    /\ RetryFlow
    /\ FailedIsNotLast
    /\ OwnGeneration
    /\ RetryIsBacked
    /\ EachRetryOpensItsGeneration

----------------------------------------------------------------------------
(* Steps that open no generation and finalize no key with one.              *)

RetriesKept ==
    \A k \in Key :
        record'[k].state = "FINALIZED" /\ record'[k].outcome.kind = "retried" =>
            record[k].state = "FINALIZED" /\ record'[k].outcome = record[k].outcome

\* Only what was about to be finalized still is.
FinalizingKept ==
    \A r \in Request : pc'[r] = "finalizing" =>
        /\ pc[r] = "finalizing"
        /\ asked'[r] = asked[r]
        /\ seen'[r] = seen[r]

LEMMA RetriedFields ==
    ASSUME NEW r \in Request
    PROVE  /\ Retried(r).kind = "retried"
           /\ Retried(r).media = MediaOf(r)
           /\ Retried(r).generation = seen[r] + 1
  BY DEF Retried, NextGeneration

LEMMA RetriedIsResult ==
    ASSUME RetryTyped, NEW r \in Request, MediaOf(r) \in Media
    PROVE  Retried(r) \in Result
<1>1. seen[r] + 1 \in Nat
  BY GenerationAssumption DEF RetryTyped
<1> QED BY <1>1 DEF Retried, NextGeneration, Result, Generation

LEMMA QuietSteps ==
    ASSUME RetryInv, SafeInv', RetryTyped', RetryFlow', FailedIsNotLast',
           RetriesKept, FinalizingKept, UNCHANGED <<generation, opened>>
    PROVE  RetryInv'
<1>1. ASSUME NEW r \in Request, pc'[r] = "finalizing"
      PROVE  pc[r] = "finalizing" /\ Retried(r)' = Retried(r)
  BY <1>1 DEF FinalizingKept, Retried, NextGeneration, MediaOf, InputOf
<1>2. OwnGeneration'
  <2> SUFFICES ASSUME NEW r \in Request, pc'[r] = "finalizing"
               PROVE  /\ \A s \in Request \ {r} :
                           pc'[s] = "finalizing" => Retried(s)' # Retried(r)'
                      /\ \A k \in Key : record'[k].state = "FINALIZED" =>
                           record'[k].outcome # Retried(r)'
    BY DEF OwnGeneration
  <2>1. \A s \in Request \ {r} : pc'[s] = "finalizing" => Retried(s)' # Retried(r)'
    BY <1>1 DEF RetryInv, OwnGeneration
  <2>2. ASSUME NEW k \in Key, record'[k].state = "FINALIZED",
               record'[k].outcome = Retried(r)'
        PROVE  FALSE
    <3>1. record'[k].outcome = Retried(r) /\ pc[r] = "finalizing"
      BY <1>1, <2>2
    <3>2. record[k].state = "FINALIZED" /\ record[k].outcome = Retried(r)
      BY <2>2, <3>1, RetriedFields DEF RetriesKept
    <3> QED BY <3>1, <3>2 DEF RetryInv, OwnGeneration
  <2> QED BY <2>1, <2>2
<1>3. RetryIsBacked'
  BY DEF RetryInv, RetryIsBacked, RetriesKept
<1>4. EachRetryOpensItsGeneration'
  BY DEF RetryInv, EachRetryOpensItsGeneration
<1> QED BY <1>2, <1>3, <1>4 DEF RetryInv

----------------------------------------------------------------------------
(* The uploads do not disturb the retries.                                  *)

\* A step of one request that is not, or no longer, about to claim or finalize.
Leaves(r) ==
    /\ pc'[r] \notin {"claiming", "finalizing"}
    /\ pc'[r] = "retrying" => InputOf(r)'.media \in Media
    /\ \A s \in Request \ {r} : pc'[s] = pc[s] /\ asked'[s] = asked[s]

Undisturbed == RetriesKept /\ \E r \in Request : Leaves(r)

LEMMA Typing ==
    ASSUME SafeInv
    PROVE  /\ pc \in [Request -> PC] /\ record \in [Key -> Row]
           /\ \A r \in Request : pc[r] # "idle" => KeyOf(r) \in Key /\ InputOf(r) \in Input
  BY DEF SafeInv, Typed, RequestsTyped, RecordsTyped, Flow, FlowOf, Asked

LEMMA SettledRow ==
    ASSUME SafeInv, NEW k \in Key, NEW o \in Result, o.kind # "retried",
           record' = Finalized(k, o) \/ record' = Retryable(k) \/ UNCHANGED record
    PROVE  RetriesKept
<1>1. RecordsTyped
  BY DEF SafeInv, Typed
<1>2. CASE record' = Finalized(k, o)
  BY <1>1, <1>2, FinalizedRow DEF RetriesKept
<1>3. CASE record' = Retryable(k)
  BY <1>1, <1>3, RetryableRow DEF RetriesKept
<1>4. CASE UNCHANGED record
  BY <1>4 DEF RetriesKept
<1> QED BY <1>2, <1>3, <1>4

LEMMA AskLeaves ==
    ASSUME SafeInv, NEW r \in Request, NEW k \in Key, NEW i \in Input, Ask(r, k, i)
    PROVE  Undisturbed
<1>1. pc'[r] = "acquiring" /\ \A s \in Request \ {r} : pc'[s] = pc[s] /\ asked'[s] = asked[s]
  BY Typing DEF Ask, Goto, SafeInv, Typed, RequestsTyped
<1> QED BY <1>1 DEF Undisturbed, RetriesKept, Leaves, Ask

LEMMA FirstStepLeaves ==
    ASSUME NEW r \in Request, InputOf(r) \in Input, UNCHANGED asked,
           pc' = [pc EXCEPT ![r] = FirstStep(r)], pc \in [Request -> PC]
    PROVE  Leaves(r)
<1>1. pc'[r] = FirstStep(r) /\ \A s \in Request \ {r} : pc'[s] = pc[s]
  OBVIOUS
<1>2. InputOf(r).op \in {"create", "add", "retry"}
  BY InputKinds
<1>3. InputOf(r).op = "retry" => InputOf(r).media \in Media
  BY UploadAssumption DEF Upload, Retry
<1>4. InputOf(r)' = InputOf(r)
  BY DEF InputOf
<1>5. CASE InputOf(r).op = "retry"
  BY <1>1, <1>3, <1>4, <1>5 DEF FirstStep, Leaves
<1>6. CASE InputOf(r).op = "create"
  BY <1>1, <1>6 DEF FirstStep, Leaves
<1>7. CASE InputOf(r).op = "add"
  BY <1>1, <1>7 DEF FirstStep, Leaves
<1> QED BY <1>2, <1>5, <1>6, <1>7

LEMMA GotoLeaves ==
    ASSUME SafeInv, NEW r \in Request, NEW from,
           NEW to \in PC \ {"retrying", "claiming", "finalizing"}, Goto(r, from, to),
           UNCHANGED asked
    PROVE  Leaves(r)
  BY Typing DEF Goto, Leaves

LEMMA AnswerLeaves ==
    ASSUME SafeInv, NEW r \in Request, NEW a, Answer(r, a), UNCHANGED asked
    PROVE  Leaves(r)
  BY Typing DEF Answer, Leaves

LEMMA AcquireLeaves ==
    ASSUME SafeInv, NEW r \in Request, Acquire(r)
    PROVE  Undisturbed
<1>1. UNCHANGED asked /\ pc[r] # "idle"
  BY DEF Acquire, Insert, Read, Reclaim
<1>2. KeyOf(r) \in Key /\ InputOf(r) \in Input /\ record \in [Key -> Row]
      /\ pc \in [Request -> PC]
  BY <1>1, Typing
<1>3. RetriesKept
  <2>1. CASE UNCHANGED record
    BY <2>1 DEF RetriesKept
  <2>2. CASE \E row : row.state = "IN_PROGRESS" /\ record' = [record EXCEPT ![KeyOf(r)] = row]
    BY <1>2, <2>2 DEF RetriesKept
  <2>3. CASE Insert(r, FirstStep(r))
    BY <2>1, <2>2, <2>3 DEF Insert
  <2>4. CASE Read(r)
    BY <2>1, <2>4 DEF Read
  <2>5. CASE Reclaim(r, FirstStep(r))
    BY <2>1, <2>2, <2>5 DEF Reclaim
  <2> QED BY <2>3, <2>4, <2>5 DEF Acquire
<1>4. Leaves(r)
  <2>1. CASE \E from : Goto(r, from, FirstStep(r))
    BY <1>1, <1>2, <2>1, FirstStepLeaves DEF Goto
  <2>2. CASE \E from : \E to \in {"reading", "reclaiming"} : Goto(r, from, to)
    BY <1>1, <2>2, GotoLeaves DEF PC, Holding
  <2>3. CASE \E a : Answer(r, a)
    BY <1>1, <2>3, AnswerLeaves
  <2>4. CASE Insert(r, FirstStep(r))
    BY <2>1, <2>2, <2>4 DEF Insert
  <2>5. CASE Read(r)
    BY <2>2, <2>3, <2>5 DEF Read
  <2>6. CASE Reclaim(r, FirstStep(r))
    BY <2>1, <2>3, <2>6 DEF Reclaim
  <2> QED BY <2>4, <2>5, <2>6 DEF Acquire
<1> QED BY <1>3, <1>4 DEF Undisturbed

LEMMA RequestLeaves ==
    ASSUME SafeInv, NEW r \in Request,
           \/ Check(r) \/ Refuse(r) \/ Accept(r) \/ Promote(r) \/ PromoteErrors(r)
           \/ Compensate(r) \/ AcquireErrors(r) \/ Crash(r)
    PROVE  Undisturbed
<1>1. UNCHANGED <<record, asked>>
  BY DEF Check, Refuse, Accept, Promote, PromoteErrors, Compensate, AcquireErrors,
         Crash, keys
<1>2. RetriesKept
  BY <1>1 DEF RetriesKept
<1>3. Leaves(r)
  <2>1. CASE \E from, to \in PC \ {"retrying", "claiming", "finalizing"} : Goto(r, from, to)
    BY <1>1, <2>1, GotoLeaves
  <2>2. CASE Check(r) \/ Refuse(r) \/ Accept(r)
    BY <2>1, <2>2 DEF Check, Refuse, Accept, PC, Holding
  <2>3. CASE PromoteErrors(r) \/ Compensate(r)
    BY <2>1, <2>3 DEF PromoteErrors, Compensate, PC, Holding
  <2>4. CASE Promote(r)
    BY <1>1, <2>4 DEF Promote, keys, Leaves
  <2>5. CASE AcquireErrors(r) \/ Crash(r)
    BY <1>1, <2>5, AnswerLeaves DEF AcquireErrors, Crash, Fails
  <2> QED BY <2>2, <2>3, <2>4, <2>5
<1> QED BY <1>2, <1>3 DEF Undisturbed

LEMMA SettlingLeaves ==
    ASSUME SafeInv, NEW r \in Request,
           \/ Reject(r) \/ RejectErrors(r) \/ Release(r) \/ Commit(r) \/ CommitErrors(r)
    PROVE  Undisturbed
<1>1. pc[r] # "idle" /\ UNCHANGED asked
  BY DEF Reject, RejectErrors, Release, Commit, CommitErrors, Ready, Fails
<1>2. KeyOf(r) \in Key
  BY <1>1, Typing
<1>3. Plain("rejected") \in Result /\ Plain("rejected").kind = "rejected"
  BY PlainIsResult
<1>4. RetriesKept
  <2>1. CASE Reject(r) \/ RejectErrors(r) \/ Release(r)
    BY <1>2, <1>3, <2>1, SettledRow DEF Reject, RejectErrors, Release
  <2>2. CASE CommitErrors(r) /\ RolledBack(r)
    BY <1>2, <1>3, <2>2, SettledRow DEF RolledBack
  <2>3. CASE Ready(r) /\ Transaction(r)
    <3>1. target[r] \in Post /\ ids[r] \in SUBSET Media
      BY <2>3 DEF Ready, SafeInv, Typed, LocalsTyped, Flow, FlowOf
    <3>2. Outcome(r) \in Result /\ Outcome(r).kind = "created"
      BY <3>1, OutcomeIsResult
    <3> QED BY <1>2, <2>3, <3>2, SettledRow DEF Transaction
  <2> QED BY <2>1, <2>2, <2>3 DEF Commit, CommitErrors
<1>5. Leaves(r)
  <2>1. CASE CommitErrors(r)
    BY <1>1, <2>1, GotoLeaves DEF CommitErrors, PC, Holding
  <2>2. CASE Reject(r) \/ RejectErrors(r) \/ Release(r) \/ Commit(r)
    BY <1>1, <2>2, AnswerLeaves DEF Reject, RejectErrors, Release, Commit, Fails
  <2> QED BY <2>1, <2>2
<1> QED BY <1>4, <1>5 DEF Undisturbed

LEMMA UploadsLeave ==
    ASSUME SafeInv, Next
    PROVE  RetriesKept /\ (UNCHANGED <<pc, asked>> \/ \E r \in Request : Leaves(r))
<1>1. ASSUME NEW k \in Key, LeaseExpires(k)
      PROVE  RetriesKept /\ UNCHANGED <<pc, asked>>
  BY <1>1, ExpiredRow DEF LeaseExpires, RetriesKept, SafeInv, Typed
<1>2. ASSUME NEW p \in Post, SoftDelete(p) \/ Restore(p)
      PROVE  RetriesKept /\ UNCHANGED <<pc, asked>>
  BY <1>2 DEF SoftDelete, Restore, keys, RetriesKept
<1> QED BY <1>1, <1>2, AskLeaves, AcquireLeaves, RequestLeaves, SettlingLeaves
        DEF Next, Undisturbed

LEMMA NextKeepsRetries ==
    ASSUME RetryInv, Next, SeenBy(StillRetrying), UNCHANGED <<status, generation, opened>>
    PROVE  RetryInv'
<1>1. SafeInv /\ RetryTyped /\ RetryFlow /\ FailedIsNotLast
  BY DEF RetryInv
<1>2. SafeInv'
  BY <1>1, NextSafe
<1>3. RetriesKept /\ (UNCHANGED <<pc, asked>> \/ \E r \in Request : Leaves(r))
  BY <1>1, UploadsLeave
<1>4. \A r \in Request : pc'[r] \in {"claiming", "finalizing"} =>
        pc'[r] = pc[r] /\ asked'[r] = asked[r] /\ seen'[r] = seen[r]
  BY <1>3 DEF Leaves, SeenBy, StillRetrying
<1>5. RetryTyped' /\ FailedIsNotLast'
  BY <1>1, GenerationAssumption DEF RetryTyped, FailedIsNotLast, SeenBy
<1>6. RetryFlow'
  <2> SUFFICES ASSUME NEW r \in Request PROVE RetryFlowOf(r)'
    BY DEF RetryFlow
  <2>1. RetryFlowOf(r)
    BY <1>1 DEF RetryFlow
  <2>2. CASE pc'[r] = "retrying"
    BY <1>3, <2>1, <2>2 DEF Leaves, RetryFlowOf, MediaOf, InputOf
  <2>3. CASE pc'[r] \in {"claiming", "finalizing"}
    BY <1>4, <2>1, <2>3 DEF RetryFlowOf, MediaOf, InputOf
  <2> QED BY <2>2, <2>3 DEF RetryFlowOf
<1>7. FinalizingKept
  BY <1>4 DEF FinalizingKept
<1> QED BY <1>2, <1>3, <1>5, <1>6, <1>7, QuietSteps

----------------------------------------------------------------------------
(* The steps of a retry.                                                    *)

\* A step of one retry that goes from one place to another.
MovesTo(r, to) ==
    /\ pc' = [pc EXCEPT ![r] = to]
    /\ UNCHANGED asked
    /\ \A s \in Request \ {r} : seen'[s] = seen[s]

\* It opens nothing and finalizes nothing.
LEMMA QuietMove ==
    ASSUME RetryInv, NEW r \in Request, NEW to \in {"claiming", "releasing"},
           MovesTo(r, to), SafeInv', RetryTyped', RetryFlowOf(r)',
           UNCHANGED <<record, status, generation, opened>>
    PROVE  RetryInv'
<1>1. /\ pc'[r] = to
      /\ \A s \in Request \ {r} : pc'[s] = pc[s] /\ asked'[s] = asked[s] /\ seen'[s] = seen[s]
  BY Typing DEF RetryInv, MovesTo
<1>2. RetryFlow'
  <2> SUFFICES ASSUME NEW s \in Request \ {r} PROVE RetryFlowOf(s)'
    BY DEF RetryFlow
  <2>1. RetryFlowOf(s)
    BY DEF RetryInv, RetryFlow
  <2> QED BY <1>1, <2>1 DEF RetryFlowOf, MediaOf, InputOf
<1>3. FinalizingKept
  BY <1>1 DEF FinalizingKept
<1>4. RetriesKept /\ FailedIsNotLast'
  BY DEF RetriesKept, RetryInv, FailedIsNotLast
<1> QED BY <1>2, <1>3, <1>4, QuietSteps

\* What is left of a retry when it gives its key back.
LEMMA GivesBack ==
    ASSUME RetryInv, NEW r \in Request, NEW from \in {"retrying", "claiming", "finalizing"},
           Goto(r, from, "releasing"), UNCHANGED asked,
           SeenBy(Request \ {r}) \/ UNCHANGED seen
    PROVE  /\ MovesTo(r, "releasing")
           /\ seen' \in [Request -> 0..(MaxGeneration - 1)]
           /\ RetryFlowOf(r)'
<1>1. pc' = [pc EXCEPT ![r] = "releasing"] /\ pc \in [Request -> PC]
  BY Typing DEF RetryInv, Goto
<1>2. seen' \in [Request -> 0..(MaxGeneration - 1)] /\ \A s \in Request \ {r} : seen'[s] = seen[s]
  BY GenerationAssumption DEF SeenBy, RetryInv, RetryTyped
<1> QED BY <1>1, <1>2 DEF MovesTo, RetryFlowOf

LEMMA ReadingSafe ==
    ASSUME SafeInv, NEW r \in Request, NEW from \in {"retrying", "claiming", "finalizing"},
           NEW to \in {"claiming", "finalizing", "releasing"}, Goto(r, from, to),
           UNCHANGED <<record, asked, answer, rows, originals, locals>>
    PROVE  SafeInv'
<1>1. pc'[r] = to /\ to \in PC /\ pc[r] # "idle" /\ originals' \subseteq Media
  BY Typing DEF Goto, PC, Holding, SafeInv, Typed, RowsTyped
<1>2. FlowOf(r)'
  BY <1>1, Typing DEF FlowOf, Asked, KeyOf, InputOf
<1> QED BY <1>1, <1>2, RecordKept, GotoSafe

LEMMA RetryReadsKeeps ==
    ASSUME RetryInv, NEW r \in Request, RetryReads(r)
    PROVE  RetryInv'
<1>1. SafeInv /\ RetryTyped /\ RetryFlowOf(r) /\ FailedIsNotLast
  BY DEF RetryInv, RetryFlow
<1>2. pc[r] = "retrying" /\ MediaOf(r) \in Media
  BY <1>1 DEF RetryReads, RetryFlowOf
<1>3. UNCHANGED <<record, asked, answer, rows, originals, locals, status, generation, opened>>
  BY DEF RetryReads
<1>4. CASE /\ HasFailed(MediaOf(r)) /\ Goto(r, "retrying", "claiming")
           /\ seen' = [seen EXCEPT ![r] = generation[MediaOf(r)]]
  <2>1. SafeInv'
    BY <1>1, <1>3, <1>4, ReadingSafe
  <2>2. generation[MediaOf(r)] \in 1..(MaxGeneration - 1)
    BY <1>1, <1>2, <1>4, GenerationAssumption DEF RetryTyped, HasFailed, FailedIsNotLast
  <2>3. /\ seen' \in [Request -> 0..(MaxGeneration - 1)]
        /\ seen'[r] >= 1
        /\ \A s \in Request \ {r} : seen'[s] = seen[s]
    BY <1>1, <1>4, <2>2, GenerationAssumption DEF RetryTyped
  <2>4. RetryTyped' /\ MovesTo(r, "claiming")
    BY <1>1, <1>3, <1>4, <2>3 DEF RetryTyped, MovesTo, Goto
  <2>5. pc'[r] = "claiming" /\ MediaOf(r)' \in Media
    BY <1>1, <1>2, <1>3, <1>4, Typing DEF Goto, MediaOf, InputOf
  <2>6. RetryFlowOf(r)'
    BY <2>3, <2>5 DEF RetryFlowOf
  <2> QED BY <1>3, <2>1, <2>4, <2>6, QuietMove
<1>5. CASE Goto(r, "retrying", "releasing") /\ UNCHANGED seen
  <2>1. SafeInv'
    BY <1>1, <1>3, <1>5, ReadingSafe
  <2>2. MovesTo(r, "releasing") /\ RetryFlowOf(r)'
    BY <1>3, <1>5, GivesBack
  <2>3. RetryTyped'
    BY <1>1, <1>3, <1>5 DEF RetryTyped
  <2> QED BY <1>3, <2>1, <2>2, <2>3, QuietMove
<1> QED BY <1>4, <1>5 DEF RetryReads

----------------------------------------------------------------------------
(* A retry opens the generation after the one it has read.                  *)

LEMMA OpenedOnce ==
    ASSUME opened \in [Media -> [1..MaxGeneration -> Nat]],
           NEW m \in Media, NEW g \in 1..MaxGeneration,
           opened' = [opened EXCEPT ![m][g] = @ + 1]
    PROVE  /\ opened' \in [Media -> [1..MaxGeneration -> Nat]]
           /\ \A n \in Media, h \in 1..MaxGeneration :
                opened'[n][h] = IF n = m /\ h = g THEN opened[n][h] + 1 ELSE opened[n][h]
<1> DEFINE old == opened[m]
<1> DEFINE row == [old EXCEPT ![g] = old[g] + 1]
<1>1. /\ row \in [1..MaxGeneration -> Nat]
      /\ \A h \in 1..MaxGeneration : row[h] = IF h = g THEN opened[m][h] + 1 ELSE opened[m][h]
  <2>1. old \in [1..MaxGeneration -> Nat]
    OBVIOUS
  <2>2. old[g] + 1 \in Nat
    <3> HIDE DEF old
    <3> QED BY <2>1
  <2>3. /\ row \in [1..MaxGeneration -> Nat]
        /\ \A h \in 1..MaxGeneration : row[h] = IF h = g THEN old[h] + 1 ELSE old[h]
    <3> HIDE DEF old
    <3> QED BY <2>1, <2>2
  <2> QED BY <2>3
<1>2. opened' = [opened EXCEPT ![m] = row]
  OBVIOUS
<1> HIDE DEF row
<1> QED BY <1>1, <1>2

\* Whether its answer arrives or not.
LEMMA OpeningKeeps ==
    ASSUME RetryInv, NEW r \in Request, NEW to \in {"finalizing", "releasing"},
           pc[r] = "claiming", AsRead(r), Open(r), MovesTo(r, to), SafeInv',
           seen' \in [Request -> 0..(MaxGeneration - 1)],
           to = "finalizing" => seen'[r] = seen[r], UNCHANGED record
    PROVE  RetryInv'
<1> DEFINE m == MediaOf(r)
<1> DEFINE g == generation[m] + 1
<1>1. SafeInv /\ RetryTyped /\ RetryFlowOf(r) /\ RetryFlow /\ OwnGeneration
  BY DEF RetryInv, RetryFlow
<1>2. /\ m \in Media /\ seen[r] = generation[m]
      /\ g \in 2..MaxGeneration /\ generation[m] \in 1..MaxGeneration
  BY <1>1, GenerationAssumption DEF RetryFlowOf, RetryTyped, AsRead
<1>3. /\ pc'[r] = to
      /\ \A s \in Request : asked'[s] = asked[s] /\ MediaOf(s)' = MediaOf(s)
      /\ \A s \in Request \ {r} : pc'[s] = pc[s] /\ seen'[s] = seen[s]
  BY <1>1, Typing DEF MovesTo, MediaOf, InputOf
<1>4. /\ generation' = [generation EXCEPT ![m] = g]
      /\ opened' = [opened EXCEPT ![m][g] = @ + 1]
      /\ status' = [status EXCEPT ![m] = "PENDING"]
  BY <1>2 DEF Open, NextGeneration
<1>5. \A n \in Media : generation'[n] = IF n = m THEN g ELSE generation[n]
  BY <1>1, <1>4 DEF RetryTyped
<1>6. RetryTyped'
  <2>1. opened' \in [Media -> [1..MaxGeneration -> Nat]]
    BY <1>1, <1>2, OpenedOnce DEF RetryTyped, Open, NextGeneration
  <2>2. generation' \in [Media -> 1..MaxGeneration]
    BY <1>1, <1>2, <1>4 DEF RetryTyped
  <2>3. status' \in [Media -> {"PENDING", "COMPLETED", "FAILED"}]
    BY <1>1, <1>4 DEF RetryTyped
  <2> QED BY <2>1, <2>2, <2>3 DEF RetryTyped
<1>7. RetryFlow'
  <2> SUFFICES ASSUME NEW s \in Request PROVE RetryFlowOf(s)'
    BY DEF RetryFlow
  <2>1. RetryFlowOf(s) /\ seen[s] \in Nat
    BY <1>1, GenerationAssumption DEF RetryFlow, RetryTyped
  <2>2. CASE s = r
    BY <1>2, <1>3, <1>5, <2>2 DEF RetryFlowOf
  <2>3. CASE s # r
    <3>1. CASE pc[s] = "finalizing"
      <4>1. MediaOf(s) \in Media /\ seen[s] >= 1 /\ seen[s] < generation[MediaOf(s)]
        BY <2>1, <3>1 DEF RetryFlowOf
      <4>2. seen[s] < generation'[MediaOf(s)]
        BY <1>2, <1>5, <2>1, <4>1
      <4> QED BY <1>3, <2>3, <3>1, <4>1, <4>2 DEF RetryFlowOf
    <3>2. CASE pc[s] # "finalizing"
      BY <1>3, <2>1, <2>3, <3>2 DEF RetryFlowOf
    <3> QED BY <3>1, <3>2
  <2> QED BY <2>2, <2>3
<1>8. FailedIsNotLast'
  BY <1>1, <1>4, <1>5 DEF RetryInv, FailedIsNotLast, RetryTyped
\* No retry and no key names the generation that is opened.
<1>9. \A s \in Request : pc[s] = "finalizing" /\ MediaOf(s) = m => seen[s] + 1 < g
  BY <1>1, <1>2, GenerationAssumption DEF RetryFlow, RetryFlowOf, RetryTyped
<1>10. \A k \in Key : record[k].state = "FINALIZED" /\ record[k].outcome.kind = "retried"
           /\ record[k].outcome.media = m => record[k].outcome.generation < g
  <2> SUFFICES ASSUME NEW k \in Key, record[k].state = "FINALIZED",
                      record[k].outcome.kind = "retried", record[k].outcome.media = m
               PROVE  record[k].outcome.generation < g
    OBVIOUS
  <2>1. record[k].outcome.generation \in Nat
    BY <1>1 DEF SafeInv, Typed, RecordsTyped, Result, Refusal, Creation, Generation
  <2>2. record[k].outcome.generation <= generation[m]
    BY <1>2, <2>1 DEF RetryInv, RetryIsBacked
  <2> QED BY <1>2, <2>1, <2>2
<1>11. \A s \in Request : pc'[s] = "finalizing" => Retried(s)' = Retried(s)
  BY <1>3 DEF Retried, NextGeneration
<1>12. OwnGeneration'
  <2> SUFFICES ASSUME NEW s \in Request, pc'[s] = "finalizing"
               PROVE  /\ \A t \in Request \ {s} :
                           pc'[t] = "finalizing" => Retried(t)' # Retried(s)'
                      /\ \A k \in Key : record'[k].state = "FINALIZED" =>
                           record'[k].outcome # Retried(s)'
    BY DEF OwnGeneration
  <2>1. \A t \in Request \ {r} : pc'[t] = "finalizing" =>
          pc[t] = "finalizing" /\ Retried(t) # Retried(r)
    BY <1>2, <1>3, <1>9, RetriedFields
  <2>2. \A k \in Key : record[k].state = "FINALIZED" => record[k].outcome # Retried(r)
    BY <1>2, <1>10, RetriedFields
  <2>3. CASE s = r
    BY <1>11, <2>1, <2>2, <2>3
  <2>4. CASE s # r
    <3>1. pc[s] = "finalizing"
      BY <1>3, <2>4
    <3>2. \A t \in Request \ {s} : pc'[t] = "finalizing" => Retried(t)' # Retried(s)'
      BY <1>1, <1>11, <2>1, <2>4, <3>1 DEF OwnGeneration
    <3>3. \A k \in Key : record'[k].state = "FINALIZED" => record'[k].outcome # Retried(s)'
      BY <1>1, <1>11, <3>1 DEF OwnGeneration
    <3> QED BY <3>2, <3>3
  <2> QED BY <2>3, <2>4
<1>13. RetryIsBacked'
  <2> SUFFICES ASSUME NEW k \in Key, record[k].state = "FINALIZED",
                      record[k].outcome.kind = "retried"
               PROVE  generation'[record[k].outcome.media] >= record[k].outcome.generation
    BY DEF RetryInv, RetryIsBacked
  <2>1. record[k].outcome.media \in Media /\ record[k].outcome.generation \in Nat
    BY <1>1 DEF SafeInv, Typed, RecordsTyped, Result, Refusal, Creation, Generation
  <2>2. generation[record[k].outcome.media] >= record[k].outcome.generation
    BY DEF RetryInv, RetryIsBacked
  <2> QED BY <1>2, <1>5, <2>1, <2>2
<1>14. EachRetryOpensItsGeneration'
  <2> SUFFICES ASSUME NEW n \in Media, NEW h \in 2..MaxGeneration
               PROVE  opened'[n][h] = IF h <= generation'[n] THEN 1 ELSE 0
    BY DEF EachRetryOpensItsGeneration
  <2>1. opened[n][h] = IF h <= generation[n] THEN 1 ELSE 0
    BY DEF RetryInv, EachRetryOpensItsGeneration
  <2>2. opened'[n][h] = IF n = m /\ h = g THEN opened[n][h] + 1 ELSE opened[n][h]
    <3>1. h \in 1..MaxGeneration /\ g \in 1..MaxGeneration
      BY <1>2, GenerationAssumption
    <3>2. opened \in [Media -> [1..MaxGeneration -> Nat]]
      BY <1>1 DEF RetryTyped
    <3> HIDE DEF m, g
    <3> QED BY <1>2, <1>4, <3>1, <3>2, OpenedOnce
  <2> QED BY <1>2, <1>5, <2>1, <2>2
<1> QED BY <1>6, <1>7, <1>8, <1>12, <1>13, <1>14 DEF RetryInv

----------------------------------------------------------------------------
(* A retry is answered with the generation it opened.                       *)

\* Whether finalize's own answer arrives or not.
LEMMA FinalizingKeeps ==
    ASSUME RetryInv, NEW r \in Request, pc[r] = "finalizing",
           record' = Finalized(KeyOf(r), Retried(r)), SafeInv', RetryTyped',
           \E to \in {"idle", "releasing"} : MovesTo(r, to),
           UNCHANGED <<status, generation, opened>>
    PROVE  RetryInv'
<1> DEFINE k == KeyOf(r)
<1>1. SafeInv /\ RetryTyped /\ RetryFlow /\ OwnGeneration /\ k \in Key
  BY Typing DEF RetryInv
<1>2. /\ MediaOf(r) \in Media /\ seen[r] + 1 <= generation[MediaOf(r)]
      /\ Retried(r) \in Result
  BY <1>1, RetriedIsResult, GenerationAssumption DEF RetryFlow, RetryFlowOf, RetryTyped
<1>3. /\ record'[k].state = "FINALIZED" /\ record'[k].outcome = Retried(r)
      /\ \A l \in Key \ {k} : record'[l] = record[l]
  BY <1>1, <1>2, FinalizedRow DEF SafeInv, Typed
<1>4. /\ pc'[r] \in {"idle", "releasing"}
      /\ \A s \in Request : asked'[s] = asked[s] /\ MediaOf(s)' = MediaOf(s)
      /\ \A s \in Request \ {r} : pc'[s] = pc[s] /\ seen'[s] = seen[s]
  BY <1>1, Typing DEF MovesTo, MediaOf, InputOf
<1>5. RetryFlow'
  BY <1>1, <1>4 DEF RetryFlow, RetryFlowOf
<1>6. FailedIsNotLast' /\ EachRetryOpensItsGeneration'
  BY DEF RetryInv, FailedIsNotLast, EachRetryOpensItsGeneration
<1>7. \A s \in Request : pc'[s] = "finalizing" =>
        s # r /\ pc[s] = "finalizing" /\ Retried(s)' = Retried(s)
  BY <1>4 DEF Retried, NextGeneration
<1>8. OwnGeneration'
  BY <1>1, <1>3, <1>7 DEF OwnGeneration
<1>9. RetryIsBacked'
  <2> SUFFICES ASSUME NEW l \in Key, record'[l].state = "FINALIZED",
                      record'[l].outcome.kind = "retried"
               PROVE  /\ generation[record'[l].outcome.media] >= record'[l].outcome.generation
                      /\ \A other \in Key \ {l} : record'[other].state = "FINALIZED" =>
                           record'[other].outcome # record'[l].outcome
    BY DEF RetryIsBacked
  <2>1. \A other \in Key \ {k} :
          record[other].state = "FINALIZED" => record[other].outcome # Retried(r)
    BY <1>1 DEF OwnGeneration
  <2>2. CASE l = k
    BY <1>2, <1>3, <2>1, <2>2, RetriedFields, GenerationAssumption DEF RetryTyped
  <2>3. CASE l # k
    <3>1. /\ generation[record[l].outcome.media] >= record[l].outcome.generation
          /\ \A other \in Key \ {l} : record[other].state = "FINALIZED" =>
               record[other].outcome # record[l].outcome
      BY <1>3, <2>3 DEF RetryInv, RetryIsBacked
    <3> QED BY <1>3, <2>1, <2>3, <3>1
  <2> QED BY <2>2, <2>3
<1> QED BY <1>5, <1>6, <1>8, <1>9 DEF RetryInv

----------------------------------------------------------------------------
(* Every step keeps RetryInv.                                               *)

LEMMA RetryClaimsKeeps ==
    ASSUME RetryInv, NEW r \in Request, RetryClaims(r)
    PROVE  RetryInv'
<1>1. SafeInv /\ RetryTyped /\ pc \in [Request -> PC]
  BY Typing DEF RetryInv
<1>2. pc[r] = "claiming" /\ UNCHANGED <<record, asked, answer, rows, originals, locals>>
  BY DEF RetryClaims
<1>3. CASE /\ AsRead(r) /\ Open(r) /\ Goto(r, "claiming", "finalizing")
           /\ UNCHANGED seen
  <2>1. SafeInv'
    BY <1>1, <1>2, <1>3, ReadingSafe
  <2>2. MovesTo(r, "finalizing") /\ seen' \in [Request -> 0..(MaxGeneration - 1)]
    BY <1>1, <1>2, <1>3 DEF MovesTo, Goto, RetryTyped
  <2> QED BY <1>2, <1>3, <2>1, <2>2, OpeningKeeps
<1>4. CASE /\ Goto(r, "claiming", "releasing") /\ SeenBy(Request \ {r})
           /\ UNCHANGED <<status, generation, opened>>
  <2>1. SafeInv'
    BY <1>1, <1>2, <1>4, ReadingSafe
  <2>2. /\ MovesTo(r, "releasing") /\ RetryFlowOf(r)'
        /\ seen' \in [Request -> 0..(MaxGeneration - 1)]
    BY <1>2, <1>4, GivesBack
  <2>3. RetryTyped'
    BY <1>1, <1>4, <2>2 DEF RetryTyped
  <2> QED BY <1>2, <1>4, <2>1, <2>2, <2>3, QuietMove
<1> QED BY <1>3, <1>4 DEF RetryClaims

LEMMA RetryErrorsKeeps ==
    ASSUME RetryInv, NEW r \in Request, RetryErrors(r)
    PROVE  RetryInv'
<1>1. SafeInv /\ RetryTyped
  BY DEF RetryInv
<1>2. UNCHANGED <<record, asked, answer, rows, originals, locals>> /\ SeenBy(Request \ {r})
  BY DEF RetryErrors
<1>3. PICK from \in {"retrying", "claiming"} : Goto(r, from, "releasing")
  BY DEF RetryErrors
<1>4. SafeInv'
  BY <1>1, <1>2, <1>3, ReadingSafe
<1>5. /\ MovesTo(r, "releasing") /\ RetryFlowOf(r)'
      /\ seen' \in [Request -> 0..(MaxGeneration - 1)]
  BY <1>2, <1>3, GivesBack
<1>6. CASE UNCHANGED <<status, generation, opened>>
  <2>1. RetryTyped'
    BY <1>1, <1>5, <1>6 DEF RetryTyped
  <2> QED BY <1>2, <1>4, <1>5, <1>6, <2>1, QuietMove
<1>7. CASE pc[r] = "claiming" /\ AsRead(r) /\ Open(r)
  BY <1>2, <1>4, <1>5, <1>7, OpeningKeeps
<1> QED BY <1>6, <1>7 DEF RetryErrors, Goto

LEMMA OutcomeIsSafe ==
    ASSUME RetryInv, NEW r \in Request, pc[r] = "finalizing",
           record' = Finalized(KeyOf(r), Retried(r))
    PROVE  RecordsTyped' /\ CreatesNothing /\ Retried(r) \in Result
<1>1. KeyOf(r) \in Key /\ RecordsTyped
  BY Typing DEF RetryInv, SafeInv, Typed
<1>2. Retried(r) \in Result /\ Retried(r).kind = "retried"
  BY RetriedIsResult, RetriedFields DEF RetryInv, RetryFlow, RetryFlowOf
<1> QED BY <1>1, <1>2, FinalizedRow DEF CreatesNothing

LEMMA FinalizeRetryKeeps ==
    ASSUME RetryInv, NEW r \in Request, FinalizeRetry(r)
    PROVE  RetryInv'
<1>1. /\ pc[r] = "finalizing" /\ record' = Finalized(KeyOf(r), Retried(r))
      /\ Answer(r, Retried(r))
      /\ UNCHANGED <<asked, rows, originals, locals, status, generation, opened>>
  BY DEF FinalizeRetry
<1>2. SafeInv'
  BY <1>1, OutcomeIsSafe, AnswerSafe DEF RetryInv
<1>3. MovesTo(r, "idle") /\ seen' \in [Request -> 0..(MaxGeneration - 1)]
  BY <1>1, GenerationAssumption
  DEF FinalizeRetry, MovesTo, Answer, SeenBy, RetryInv, RetryTyped
<1>4. RetryTyped'
  BY <1>1, <1>3 DEF RetryInv, RetryTyped
<1> QED BY <1>1, <1>2, <1>3, <1>4, FinalizingKeeps

LEMMA FinalizeRetryErrorsKeeps ==
    ASSUME RetryInv, NEW r \in Request, FinalizeRetryErrors(r)
    PROVE  RetryInv'
<1>1. /\ Goto(r, "finalizing", "releasing") /\ SeenBy(Request \ {r})
      /\ UNCHANGED <<asked, answer, rows, originals, locals, status, generation, opened>>
  BY DEF FinalizeRetryErrors
<1>2. /\ MovesTo(r, "releasing") /\ RetryFlowOf(r)'
      /\ seen' \in [Request -> 0..(MaxGeneration - 1)]
  BY <1>1, GivesBack
<1>3. RetryTyped'
  BY <1>1, <1>2 DEF RetryInv, RetryTyped
<1>4. CASE UNCHANGED record
  <2>1. SafeInv'
    BY <1>1, <1>4, ReadingSafe DEF RetryInv
  <2> QED BY <1>1, <1>2, <1>3, <1>4, <2>1, QuietMove
<1>5. CASE record' = Finalized(KeyOf(r), Retried(r))
  <2>1. pc[r] = "finalizing" /\ pc'[r] = "releasing" /\ "releasing" \in PC
    BY <1>1, Typing DEF RetryInv, Goto, PC, Holding
  <2>2. FlowOf(r)'
    BY <1>1, <2>1, Typing DEF RetryInv, FlowOf, Asked, KeyOf, InputOf
  <2>3. SafeInv'
    BY <1>1, <1>5, <2>1, <2>2, OutcomeIsSafe, GotoSafe
    DEF RetryInv, SafeInv, Typed, RowsTyped
  <2> QED BY <1>1, <1>2, <1>3, <1>5, <2>1, <2>3, FinalizingKeeps
<1> QED BY <1>4, <1>5 DEF FinalizeRetryErrors

LEMMA WorkerSettlesKeeps ==
    ASSUME RetryInv, NEW m \in Media, WorkerSettles(m)
    PROVE  RetryInv'
<1>1. UNCHANGED <<vars, generation, seen, opened>> /\ RetryTyped /\ RetryFlow /\ FailedIsNotLast
  BY DEF WorkerSettles, RetryInv
<1>2. SafeInv'
  BY <1>1, NextSafe DEF RetryInv
<1>3. RetryTyped' /\ FailedIsNotLast'
  BY <1>1 DEF WorkerSettles, RetryTyped, FailedIsNotLast
<1>4. RetryFlow' /\ RetriesKept /\ FinalizingKept
  BY <1>1 DEF vars, RetryFlow, RetryFlowOf, MediaOf, InputOf, RetriesKept, FinalizingKept
<1> QED BY <1>1, <1>2, <1>3, <1>4, QuietSteps

LEMMA StutterKeeps ==
    ASSUME RetryInv, UNCHANGED allVars
    PROVE  RetryInv'
<1>1. UNCHANGED <<vars, status, generation, seen, opened>>
  BY DEF allVars, retryVars
<1>2. SafeInv'
  BY <1>1, NextSafe DEF RetryInv
<1>3. RetryTyped' /\ FailedIsNotLast'
  BY <1>1 DEF RetryInv, RetryTyped, FailedIsNotLast
<1>4. RetryFlow' /\ RetriesKept /\ FinalizingKept
  BY <1>1 DEF RetryInv, vars, RetryFlow, RetryFlowOf, MediaOf, InputOf, RetriesKept,
              FinalizingKept
<1> QED BY <1>1, <1>2, <1>3, <1>4, QuietSteps

LEMMA InitRetry == RetryInit => RetryInv
<1> SUFFICES ASSUME RetryInit PROVE RetryInv
  OBVIOUS
<1>1. SafeInv
  BY InitSafe DEF RetryInit
<1>2. \A r \in Request : pc[r] = "idle"
  BY DEF RetryInit, Init, InitKeys
<1>3. \A k \in Key : record[k].state = "absent"
  BY DEF RetryInit, Init, InitKeys, NoRecord
<1>4. RetryTyped /\ FailedIsNotLast
  BY GenerationAssumption DEF RetryInit, RetryTyped, FailedIsNotLast
<1>5. RetryFlow /\ OwnGeneration /\ RetryIsBacked
  BY <1>2, <1>3 DEF RetryFlow, RetryFlowOf, OwnGeneration, RetryIsBacked
<1>6. EachRetryOpensItsGeneration
  BY GenerationAssumption DEF RetryInit, EachRetryOpensItsGeneration
<1> QED BY <1>1, <1>4, <1>5, <1>6 DEF RetryInv

LEMMA NextRetry == RetryInv /\ [RetryNext]_allVars => RetryInv'
<1> SUFFICES ASSUME RetryInv, [RetryNext]_allVars PROVE RetryInv'
  OBVIOUS
<1>1. CASE Next /\ SeenBy(StillRetrying) /\ UNCHANGED <<status, generation, opened>>
  BY <1>1, NextKeepsRetries
<1>2. ASSUME NEW r \in Request,
             \/ RetryReads(r) \/ RetryClaims(r) \/ FinalizeRetry(r)
             \/ RetryErrors(r) \/ FinalizeRetryErrors(r)
      PROVE  RetryInv'
  BY <1>2, RetryReadsKeeps, RetryClaimsKeeps, FinalizeRetryKeeps, RetryErrorsKeeps,
     FinalizeRetryErrorsKeeps
<1>3. ASSUME NEW m \in Media, WorkerSettles(m) PROVE RetryInv'
  BY <1>3, WorkerSettlesKeeps
<1>4. CASE UNCHANGED allVars
  BY <1>4, StutterKeeps
<1> QED BY <1>1, <1>2, <1>3, <1>4 DEF RetryNext

LEMMA RetryInvariance == RetrySpec => []RetryInv
  BY InitRetry, NextRetry, PTL DEF RetrySpec

----------------------------------------------------------------------------
(* What the retries promise.                                                *)

\* Every variable has its type: in particular no retry that has read a
\* generation can open one beyond the bound.
THEOREM RetryTypesAreKept == RetrySpec => []RetryTypeOK
<1>1. SafeInv => TypeOK
  BY SafeTypes
<1>2. RetryInv => RetryTypeOK
  BY <1>1 DEF RetryInv, RetryTyped, RetryTypeOK
<1> QED BY <1>2, RetryInvariance, PTL

\* However many retries of a media meet, with whatever keys, and whatever
\* storage, database and process do: every generation a media has had after its
\* first was opened by exactly one retry, and no later one by any.
THEOREM EachGenerationIsOpenedOnce == RetrySpec => []EachRetryOpensItsGeneration
<1>1. RetryInv => EachRetryOpensItsGeneration
  BY DEF RetryInv
<1> QED BY <1>1, RetryInvariance, PTL

\* The generation a finalized retry names has been opened, and no other key is
\* finalized with it.  Under every fault.
THEOREM RetriesAreBacked == RetrySpec => []RetryIsBacked
<1>1. RetryInv => RetryIsBacked
  BY DEF RetryInv
<1> QED BY <1>1, RetryInvariance, PTL

\* The uploads' replays stay backed beside the retries, which finalize keys of
\* their own and give others back.
THEOREM ReplaysAreBackedBesideRetries == RetrySpec => []ReplayIsBacked
<1>1. RetryInv => ReplayIsBacked
  BY DEF RetryInv, SafeInv
<1> QED BY <1>1, RetryInvariance, PTL
=============================================================================
