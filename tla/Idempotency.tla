---------------------------- MODULE Idempotency ----------------------------
(***************************************************************************)
(* IdempotencyService: the record behind an Idempotency-Key, and how the   *)
(* requests that carry the key acquire it, replay it, settle it or give it *)
(* back.  A module of requests extends this one and says what a request    *)
(* does once it has acquired its key.                                      *)
(*                                                                         *)
(* An input stands for a request fingerprint; two requests have the same   *)
(* fingerprint exactly when they ask for the same thing.  Expired records  *)
(* are never removed: nothing calls IdempotencyCleanupService.             *)
(***************************************************************************)
EXTENDS Integers, FiniteSets

CONSTANTS
    Request,     \* concurrent request handlers
    Key,         \* idempotency keys
    Input,       \* what a request may ask for
    NoInput,
    NoAnswer,    \* neither answered nor finalized
    Faults       \* what may go wrong

FaultKind == {"storage", "database", "lostAck", "crash", "slow"}

ASSUME InputAssumption == NoInput \notin Input
ASSUME FaultsAssumption == Faults \subseteq FaultKind

VARIABLES
    record,      \* the IdempotencyRequest row of a key
    pc,          \* what a request is about to do
    asked,       \* the key and the input of a request
    answer       \* what the last request of a handler was answered

keys == <<record, pc, asked, answer>>

RecordState == {"absent", "IN_PROGRESS", "FINALIZED", "RETRYABLE_FAILURE"}

NoRecord == [state |-> "absent", input |-> NoInput, lease |-> "none",
             outcome |-> NoAnswer]

\* The steps of a request that holds its key.
Holding == {"checking", "validating", "rejecting", "promoting", "retrying",
            "claiming", "finalizing", "compensating", "releasing"}

PC == Holding \cup {"idle", "acquiring", "reading", "reclaiming"}

\* An error with nothing behind it.
Plain(kind) == [kind |-> kind, post |-> NoInput, media |-> {}]

InitKeys ==
    /\ record = [k \in Key |-> NoRecord]
    /\ pc     = [r \in Request |-> "idle"]
    /\ asked  = [r \in Request |-> [key |-> NoInput, input |-> NoInput]]
    /\ answer = [r \in Request |-> NoAnswer]

Goto(r, from, to) ==
    /\ pc[r] = from
    /\ pc' = [pc EXCEPT ![r] = to]

Answer(r, a) ==
    /\ pc' = [pc EXCEPT ![r] = "idle"]
    /\ answer' = [answer EXCEPT ![r] = a]

KeyOf(r) == asked[r].key
InputOf(r) == asked[r].input

----------------------------------------------------------------------------
(* acquireOrReplay.                                                         *)

Ask(r, k, i) ==
    /\ Goto(r, "idle", "acquiring")
    /\ asked'  = [asked EXCEPT ![r] = [key |-> k, input |-> i]]
    /\ answer' = [answer EXCEPT ![r] = NoAnswer]
    /\ UNCHANGED record

\* The insert of a new key, or the unique violation that sends the request to
\* reconcileExisting.
Insert(r, next) ==
    /\ pc[r] = "acquiring"
    /\ \/ /\ record[KeyOf(r)].state = "absent"
          /\ Goto(r, "acquiring", next)
          /\ record' = [record EXCEPT ![KeyOf(r)] =
                [state |-> "IN_PROGRESS", input |-> InputOf(r), lease |-> "live",
                 outcome |-> NoAnswer]]
       \/ /\ record[KeyOf(r)].state # "absent"
          /\ Goto(r, "acquiring", "reading")
          /\ UNCHANGED record
    /\ UNCHANGED <<asked, answer>>

\* Slip: the lease of a request in progress is not looked at.
ReclaimableInProgress(k) ==
    record[k].state \in {"RETRYABLE_FAILURE", "IN_PROGRESS"}

Reclaimable(k) ==
    \/ record[k].state = "RETRYABLE_FAILURE"
    \/ record[k].state = "IN_PROGRESS" /\ record[k].lease = "expired"

\* Slip: the update takes the key whatever became of it since the read.
Unconditionally(k) == TRUE

\* The condition of the update that takes the key over.
StillReclaimable(k) == Reclaimable(k)

SameInput(r) == record[KeyOf(r)].input = InputOf(r)

\* reconcileExisting's read: a conflict, a replay, "in progress", or on to the
\* update that takes the key over.
Read(r) ==
    /\ pc[r] = "reading"
    /\ \/ /\ ~SameInput(r)
          /\ Answer(r, Plain("conflict"))
       \/ /\ SameInput(r)
          /\ record[KeyOf(r)].state = "FINALIZED"
          /\ Answer(r, record[KeyOf(r)].outcome)
       \/ /\ SameInput(r)
          /\ record[KeyOf(r)].state # "FINALIZED"
          /\ ~Reclaimable(KeyOf(r))
          /\ Answer(r, Plain("busy"))
       \/ /\ SameInput(r)
          /\ Reclaimable(KeyOf(r))
          /\ Goto(r, "reading", "reclaiming")
          /\ UNCHANGED answer
    /\ UNCHANGED <<record, asked>>

Reclaim(r, next) ==
    /\ pc[r] = "reclaiming"
    /\ \/ /\ StillReclaimable(KeyOf(r))
          /\ Goto(r, "reclaiming", next)
          /\ record' = [record EXCEPT ![KeyOf(r)] =
                [state |-> "IN_PROGRESS", input |-> @.input, lease |-> "live",
                 outcome |-> @.outcome]]
          /\ UNCHANGED answer
       \/ /\ ~StillReclaimable(KeyOf(r))
          /\ Answer(r, Plain("busy"))
          /\ UNCHANGED record
    /\ UNCHANGED asked

\* The 900 seconds of a lease run out.  A request is through before that,
\* unless it is slow.
LeaseExpires(k) ==
    /\ record[k].lease = "live"
    /\ "slow" \in Faults \/ \A r \in Request : KeyOf(r) = k => pc[r] \notin Holding
    /\ record' = [record EXCEPT ![k].lease = "expired"]
    /\ UNCHANGED <<pc, asked, answer>>

----------------------------------------------------------------------------
(* finalize and markRetryableFailure: the key alone selects the row.        *)

Finalized(k, outcome) ==
    [record EXCEPT ![k] = [state |-> "FINALIZED", input |-> @.input,
                           lease |-> "none", outcome |-> outcome]]

\* Slip: the lease is left on a key that may be tried again.
RetryableKeepsLease(k) == [record EXCEPT ![k].state = "RETRYABLE_FAILURE"]

Retryable(k) ==
    [record EXCEPT ![k] = [state |-> "RETRYABLE_FAILURE", input |-> @.input,
                           lease |-> "none", outcome |-> @.outcome]]
=============================================================================
