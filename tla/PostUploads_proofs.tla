-------------------------- MODULE PostUploads_proofs --------------------------
(***************************************************************************)
(* What PostUploads promises, for any number of requests, keys, posts and  *)
(* media.  TypeOK and ReplayIsBacked hold under every fault; one effect    *)
(* per key, recorded for good, and the originals of committed media need   *)
(* handlers that end within their lease and commits whose answers arrive.  *)
(***************************************************************************)
EXTENDS PostUploads, TLAPS

----------------------------------------------------------------------------
(* Types.                                                                   *)

\* What a key can be finalized with.
Refusal == [kind : {"conflict", "busy", "error", "rejected"}, post : {NoInput},
            media : {{}}]
Creation == [kind : {"created"}, post : Post, media : SUBSET Media]
Generation == [kind : {"retried"}, media : Media, generation : Nat]
Result == Refusal \cup Creation \cup Generation

Row == [state : RecordState, input : Input \cup {NoInput},
        lease : {"none", "live", "expired"}, outcome : Result \cup {NoAnswer}]

RowsTyped ==
    /\ post \in [Post -> {"absent", "live", "deleted"}]
    /\ mediaPost \in [Media -> Post \cup {NoPost}]
    /\ originals \subseteq Media
    /\ commits \in [Key -> Nat]

LocalsTyped ==
    /\ target \in [Request -> Post \cup {NoPost}]
    /\ ids \in [Request -> SUBSET Media]
    /\ promoted \in [Request -> SUBSET Media]

RequestsTyped ==
    /\ pc \in [Request -> PC]
    /\ asked \in [Request -> [key : Key \cup {NoInput}, input : Input \cup {NoInput}]]
    /\ answer \in [Request -> Result \cup {NoAnswer}]

\* A lease is on record exactly while the key is in progress, an outcome once it
\* is finalized.
RecordsTyped ==
    /\ record \in [Key -> Row]
    /\ \A k \in Key : /\ record[k].state = "IN_PROGRESS" <=> record[k].lease # "none"
                      /\ record[k].state = "FINALIZED" => record[k].outcome \in Result

Typed == RowsTyped /\ LocalsTyped /\ RequestsTyped /\ RecordsTyped

----------------------------------------------------------------------------
(* How far a request is, and what it knows.                                 *)

Asked(r) == KeyOf(r) \in Key /\ InputOf(r) \in Input

\* The post of an add was there when it was checked, and no post goes away.
PostThere(r) == InputOf(r).op = "add" => /\ InputOf(r).post \in Post
                                         /\ post[InputOf(r).post] # "absent"

FlowOf(r) ==
    /\ pc[r] # "idle" => Asked(r)
    /\ pc[r] = "checking" => InputOf(r).op = "add"
    /\ pc[r] \in {"validating", "promoting"} =>
         /\ InputOf(r).op \in {"create", "add"}
         /\ PostThere(r)
    /\ pc[r] = "promoting" =>
         /\ target[r] \in Post
         /\ InputOf(r).op = "add" => target[r] = InputOf(r).post
         /\ \A m \in ids[r] : mediaPost[m] = NoPost

Flow == \A r \in Request : FlowOf(r)

\* No media id is drawn twice.
Disjoint ==
    \A r, s \in Request : r # s => ids[r] \cap ids[s] = {}

SafeInv == Typed /\ Flow /\ Disjoint /\ ReplayIsBacked

----------------------------------------------------------------------------
(* Handlers that end within their lease, and commits whose answers arrive.  *)

Quick == "slow" \notin Faults /\ "lostAck" \notin Faults

\* A request that holds its key has its record, and no other request has.
Held ==
    /\ \A r \in Request : pc[r] \in Holding =>
         /\ record[KeyOf(r)].state = "IN_PROGRESS"
         /\ record[KeyOf(r)].lease = "live"
         /\ record[KeyOf(r)].input = InputOf(r)
    /\ \A r \in Request : pc[r] = "reclaiming" =>
         /\ record[KeyOf(r)].state # "absent"
         /\ record[KeyOf(r)].input = InputOf(r)
    /\ \A r, s \in Request :
         r # s /\ pc[r] \in Holding /\ pc[s] \in Holding => KeyOf(r) # KeyOf(s)

\* What a request was answered is on record.
AnswerOf(r) ==
    answer[r] # NoAnswer =>
        /\ Asked(r)
        /\ answer[r].kind \in {"created", "rejected"} =>
             /\ record[KeyOf(r)].state = "FINALIZED"
             /\ record[KeyOf(r)].input = InputOf(r)
             /\ record[KeyOf(r)].outcome = answer[r]

Recorded == OneEffectPerKey /\ EffectIsRecorded /\ \A r \in Request : AnswerOf(r)

\* What a request promotes, and what it would remove, is not committed yet.
Uncommitted(r) ==
    /\ promoted[r] \subseteq ids[r]
    /\ pc[r] \notin {"promoting", "compensating", "releasing"} => promoted[r] = {}
    /\ pc[r] = "promoting" => promoted[r] \subseteq originals
    /\ pc[r] \in {"promoting", "compensating"} =>
         \A m \in ids[r] : mediaPost[m] = NoPost

Stored == OriginalsExist /\ \A r \in Request : Uncommitted(r)

QuickInv == Held /\ Recorded /\ Stored

----------------------------------------------------------------------------
(* Facts about the values.                                                  *)

LEMMA PlainIsResult ==
    \A kind \in {"conflict", "busy", "error", "rejected"} :
        Plain(kind) \in Result /\ Plain(kind).kind = kind
  BY DEF Plain, Result, Refusal

LEMMA InputKinds ==
    ASSUME NEW i \in Input
    PROVE  /\ i.op \in {"create", "add", "retry"}
           /\ i.op = "add" => i.post \in Post
  BY UploadAssumption DEF Upload, Retry

LEMMA CreationFields ==
    ASSUME NEW o \in Result, o.kind = "created"
    PROVE  o.post \in Post /\ o.media \subseteq Media
  BY DEF Result, Refusal, Creation, Generation

LEMMA OutcomeIsResult ==
    ASSUME NEW r \in Request, target[r] \in Post, ids[r] \in SUBSET Media
    PROVE  /\ Outcome(r) \in Result /\ Outcome(r).kind = "created"
           /\ Outcome(r).post = target[r] /\ Outcome(r).media = ids[r]
  BY DEF Outcome, Result, Creation

LEMMA FinalizedRow ==
    ASSUME RecordsTyped, NEW k \in Key, NEW o \in Result, record' = Finalized(k, o)
    PROVE  /\ RecordsTyped'
           /\ record'[k].state = "FINALIZED" /\ record'[k].outcome = o
           /\ record'[k].input = record[k].input
           /\ \A l \in Key \ {k} : record'[l] = record[l]
<1> DEFINE row == [state |-> "FINALIZED", input |-> record[k].input, lease |-> "none",
                   outcome |-> o]
<1>1. record' = [record EXCEPT ![k] = row]
  BY DEF Finalized
<1>2. row \in Row
  BY DEF RecordsTyped, Row, RecordState
<1>3. record \in [Key -> Row]
  BY DEF RecordsTyped
<1>4. record' \in [Key -> Row]
  <2> HIDE DEF row
  <2> QED BY <1>1, <1>2, <1>3
<1>5. record'[k] = row
  <2> HIDE DEF row
  <2> QED BY <1>1, <1>3
<1>6. \A l \in Key \ {k} : record'[l] = record[l]
  <2> HIDE DEF row
  <2> QED BY <1>1, <1>3
<1> QED BY <1>4, <1>5, <1>6 DEF RecordsTyped

LEMMA RetryableRow ==
    ASSUME RecordsTyped, NEW k \in Key, record' = Retryable(k)
    PROVE  /\ RecordsTyped'
           /\ record'[k].state = "RETRYABLE_FAILURE"
           /\ record'[k].input = record[k].input
           /\ \A l \in Key \ {k} : record'[l] = record[l]
<1> DEFINE row == [state |-> "RETRYABLE_FAILURE", input |-> record[k].input,
                   lease |-> "none", outcome |-> record[k].outcome]
<1>1. record' = [record EXCEPT ![k] = row]
  BY DEF Retryable
<1>2. row \in Row
  BY DEF RecordsTyped, Row, RecordState
<1>3. record \in [Key -> Row]
  BY DEF RecordsTyped
<1>4. record' \in [Key -> Row]
  <2> HIDE DEF row
  <2> QED BY <1>1, <1>2, <1>3
<1>5. record'[k] = row
  <2> HIDE DEF row
  <2> QED BY <1>1, <1>3
<1>6. \A l \in Key \ {k} : record'[l] = record[l]
  <2> HIDE DEF row
  <2> QED BY <1>1, <1>3
<1> QED BY <1>4, <1>5, <1>6 DEF RecordsTyped

\* Insert and Reclaim leave a row in progress.
LEMMA TakenRow ==
    ASSUME RecordsTyped, NEW k \in Key, NEW i \in Input \cup {NoInput},
           NEW o \in Result \cup {NoAnswer},
           record' = [record EXCEPT ![k] =
                [state |-> "IN_PROGRESS", input |-> i, lease |-> "live",
                 outcome |-> o]]
    PROVE  /\ RecordsTyped'
           /\ record'[k].state = "IN_PROGRESS" /\ record'[k].lease = "live"
           /\ record'[k].input = i
           /\ \A l \in Key \ {k} : record'[l] = record[l]
<1> DEFINE row == [state |-> "IN_PROGRESS", input |-> i, lease |-> "live",
                   outcome |-> o]
<1>1. row \in Row
  BY DEF Row, RecordState
<1>2. record \in [Key -> Row]
  BY DEF RecordsTyped
<1>3. record' = [record EXCEPT ![k] = row]
  OBVIOUS
<1>4. record' \in [Key -> Row] /\ record'[k] = row
  <2> HIDE DEF row
  <2> QED BY <1>1, <1>2, <1>3
<1>5. \A l \in Key \ {k} : record'[l] = record[l]
  BY <1>2
<1> QED BY <1>4, <1>5 DEF RecordsTyped

LEMMA ExpiredRow ==
    ASSUME RecordsTyped, NEW k \in Key, record[k].lease = "live",
           record' = [record EXCEPT ![k].lease = "expired"]
    PROVE  /\ RecordsTyped'
           /\ \A l \in Key : /\ record'[l].state = record[l].state
                             /\ record'[l].input = record[l].input
                             /\ record'[l].outcome = record[l].outcome
           /\ \A l \in Key \ {k} : record'[l] = record[l]
<1>1. record' \in [Key -> Row]
  BY DEF RecordsTyped, Row
<1>2. \A l \in Key : /\ record'[l].state = record[l].state
                     /\ record'[l].input = record[l].input
                     /\ record'[l].outcome = record[l].outcome
  BY DEF RecordsTyped, Row
<1>3. record'[k].lease = "expired"
  BY DEF RecordsTyped, Row
<1>4. \A l \in Key \ {k} : record'[l] = record[l]
  BY DEF RecordsTyped, Row
<1> QED BY <1>1, <1>2, <1>3, <1>4 DEF RecordsTyped
----------------------------------------------------------------------------
(* Every step keeps SafeInv, whatever may fail.                             *)

\* A step of one request that writes no row: it is enough to look at what it
\* knows now, and at the keys it settles.
CreatesNothing ==
    \A k \in Key :
        record'[k].state = "FINALIZED" /\ record'[k].outcome.kind = "created" =>
            record[k].state = "FINALIZED" /\ record'[k].outcome = record[k].outcome

LEMMA Steps ==
    ASSUME SafeInv, NEW r \in Request,
           RequestsTyped', LocalsTyped', RecordsTyped',
           UNCHANGED rows, originals' \subseteq Media,
           FlowOf(r)', ids'[r] \subseteq ids[r],
           \A s \in Request \ {r} : /\ pc'[s] = pc[s] /\ asked'[s] = asked[s]
                                    /\ target'[s] = target[s] /\ ids'[s] = ids[s],
           CreatesNothing
    PROVE  SafeInv'
<1>1. Typed'
  BY DEF SafeInv, Typed, RowsTyped, rows
<1>2. Flow'
  <2> SUFFICES ASSUME NEW s \in Request PROVE FlowOf(s)'
    BY DEF Flow
  <2>1. CASE s = r
    BY <2>1
  <2>2. CASE s # r
    <3>1. FlowOf(s)
      BY DEF SafeInv, Flow
    <3> QED BY <2>2, <3>1 DEF FlowOf, Asked, PostThere, KeyOf, InputOf, rows
  <2> QED BY <2>1, <2>2
<1>3. Disjoint'
  BY DEF SafeInv, Disjoint
<1>4. ReplayIsBacked'
  BY DEF SafeInv, ReplayIsBacked, CreatesNothing, rows
<1> QED BY <1>1, <1>2, <1>3, <1>4 DEF SafeInv

\* An answer that ends a request.
LEMMA AnswerTyped ==
    ASSUME RequestsTyped, NEW r \in Request, NEW a \in Result, Answer(r, a),
           UNCHANGED asked
    PROVE  /\ RequestsTyped' /\ pc'[r] = "idle" /\ answer'[r] = a
           /\ \A s \in Request \ {r} : /\ pc'[s] = pc[s] /\ asked'[s] = asked[s]
                                       /\ answer'[s] = answer[s]
  BY DEF RequestsTyped, Answer, PC

LEMMA GotoTyped ==
    ASSUME RequestsTyped, NEW r \in Request, NEW from, NEW to \in PC,
           Goto(r, from, to), UNCHANGED <<asked, answer>>
    PROVE  /\ RequestsTyped' /\ pc[r] = from /\ pc'[r] = to
           /\ \A s \in Request \ {r} : pc'[s] = pc[s] /\ asked'[s] = asked[s]
  BY DEF RequestsTyped, Goto

LEMMA ForgetTyped ==
    ASSUME LocalsTyped, NEW r \in Request, Forget(r)
    PROVE  /\ LocalsTyped' /\ ids'[r] = {} /\ promoted'[r] = {}
           /\ \A s \in Request \ {r} : /\ target'[s] = target[s] /\ ids'[s] = ids[s]
                                       /\ promoted'[s] = promoted[s]
  BY DEF LocalsTyped, Forget

LEMMA IdleFlow ==
    ASSUME NEW r \in Request, pc'[r] = "idle"
    PROVE  FlowOf(r)'
  BY DEF FlowOf

\* An exception, with what it may do to the key.
LEMMA FailsSafe ==
    ASSUME SafeInv, NEW r \in Request, NEW from \in PC \ {"idle"}, Fails(r, from),
           UNCHANGED <<asked, rows, originals>>, Asked(r) => RecordsTyped' /\ CreatesNothing
    PROVE  SafeInv'
<1>1. Asked(r)
  BY DEF SafeInv, Flow, FlowOf, Fails
<1>2. Answer(r, Plain("error")) /\ Forget(r) /\ Plain("error") \in Result
  BY PlainIsResult DEF Fails
<1>3. RequestsTyped /\ LocalsTyped
  BY DEF SafeInv, Typed
<1>4. /\ RequestsTyped' /\ pc'[r] = "idle"
      /\ \A s \in Request \ {r} : pc'[s] = pc[s] /\ asked'[s] = asked[s]
  BY <1>2, <1>3, AnswerTyped
<1>5. /\ LocalsTyped' /\ ids'[r] = {}
      /\ \A s \in Request \ {r} : target'[s] = target[s] /\ ids'[s] = ids[s]
  BY <1>2, <1>3, ForgetTyped
<1>6. originals' \subseteq Media
  BY DEF SafeInv, Typed, RowsTyped
<1> QED BY <1>1, <1>4, <1>5, <1>6, Steps, IdleFlow
LEMMA RecordKept ==
    ASSUME SafeInv, UNCHANGED record
    PROVE  RecordsTyped' /\ CreatesNothing
  BY DEF SafeInv, Typed, RecordsTyped, CreatesNothing

\* A step on to the next place, with no id drawn or forgotten.
LEMMA GotoSafe ==
    ASSUME SafeInv, NEW r \in Request, NEW from, NEW to \in PC, Goto(r, from, to),
           UNCHANGED <<asked, answer, rows, locals>>, originals' \subseteq Media,
           RecordsTyped', CreatesNothing, FlowOf(r)'
    PROVE  SafeInv'
<1>1. RequestsTyped /\ LocalsTyped
  BY DEF SafeInv, Typed
<1>2. /\ RequestsTyped'
      /\ \A s \in Request \ {r} : pc'[s] = pc[s] /\ asked'[s] = asked[s]
  BY <1>1, GotoTyped
<1>3. LocalsTyped' /\ UNCHANGED <<target, ids>>
  BY <1>1 DEF LocalsTyped, locals
<1> QED BY <1>2, <1>3, Steps

\* A step that answers and leaves the ids as they are: none was drawn.
LEMMA AnswerSafe ==
    ASSUME SafeInv, NEW r \in Request, NEW a \in Result, Answer(r, a),
           UNCHANGED <<asked, rows, originals, locals>>,
           RecordsTyped', CreatesNothing
    PROVE  SafeInv'
<1>1. RequestsTyped /\ LocalsTyped /\ originals' \subseteq Media
  BY DEF SafeInv, Typed, RowsTyped
<1>2. /\ RequestsTyped' /\ pc'[r] = "idle"
      /\ \A s \in Request \ {r} : pc'[s] = pc[s] /\ asked'[s] = asked[s]
  BY <1>1, AnswerTyped
<1>3. LocalsTyped' /\ UNCHANGED <<target, ids>>
  BY <1>1 DEF LocalsTyped, locals
<1> QED BY <1>1, <1>2, <1>3, IdleFlow, Steps

LEMMA AskSafe ==
    ASSUME SafeInv, NEW r \in Request, NEW k \in Key, NEW i \in Input,
           Ask(r, k, i), UNCHANGED <<rows, originals, locals>>
    PROVE  SafeInv'
<1>1. RequestsTyped /\ LocalsTyped /\ originals' \subseteq Media
  BY DEF SafeInv, Typed, RowsTyped
<1>2. /\ RequestsTyped' /\ pc'[r] = "acquiring"
      /\ asked'[r] = [key |-> k, input |-> i]
      /\ \A s \in Request \ {r} : pc'[s] = pc[s] /\ asked'[s] = asked[s]
  BY <1>1 DEF RequestsTyped, Ask, Goto, PC
<1>3. LocalsTyped' /\ UNCHANGED <<target, ids>>
  BY <1>1 DEF LocalsTyped, locals
<1>4. RecordsTyped' /\ CreatesNothing
  BY RecordKept DEF Ask
<1>5. FlowOf(r)'
  BY <1>2 DEF FlowOf, Asked, KeyOf, InputOf
<1> QED BY <1>1, <1>2, <1>3, <1>4, <1>5, Steps

LEMMA AcquireSafe ==
    ASSUME SafeInv, NEW r \in Request, Acquire(r)
    PROVE  SafeInv'
<1> DEFINE k == KeyOf(r)
<1>1. RecordsTyped /\ originals' \subseteq Media
  BY DEF SafeInv, Typed, RowsTyped, Acquire
<1>2. UNCHANGED <<asked, rows, originals, locals>>
  BY DEF Acquire, Insert, Read, Reclaim
<1>3. pc[r] # "idle" /\ Asked(r)
  BY DEF SafeInv, Flow, FlowOf, Acquire, Insert, Read, Reclaim, Goto
<1>4. \A kind \in {"conflict", "busy"} : Plain(kind) \in Result
  BY PlainIsResult
<1>5. \A to \in {"reading", "reclaiming"} : pc'[r] = to => to \in PC /\ FlowOf(r)'
  BY <1>2, <1>3 DEF FlowOf, Asked, KeyOf, InputOf, PC
<1>6. FirstStep(r) \in PC /\ (pc'[r] = FirstStep(r) => FlowOf(r)')
  <2>1. InputOf(r).op \in {"create", "add", "retry"}
    BY <1>3, InputKinds DEF Asked
  <2>2. CASE InputOf(r).op = "create"
    BY <1>2, <1>3, <2>2
    DEF FirstStep, FlowOf, Asked, KeyOf, InputOf, PostThere, PC, Holding
  <2>3. CASE InputOf(r).op = "add"
    BY <1>2, <1>3, <2>3 DEF FirstStep, FlowOf, Asked, KeyOf, InputOf, PC, Holding
  <2>4. CASE InputOf(r).op = "retry"
    BY <1>2, <1>3, <2>4 DEF FirstStep, FlowOf, Asked, KeyOf, InputOf, PC, Holding
  <2> QED BY <2>1, <2>2, <2>3, <2>4
<1>7. \A from, to : Goto(r, from, to) => pc'[r] = to
  BY DEF Goto, SafeInv, Typed, RequestsTyped
<1>8. CASE /\ UNCHANGED <<record, answer>>
           /\ \E from \in {"acquiring", "reading"}, to \in {"reading", "reclaiming"} :
                Goto(r, from, to)
  BY <1>1, <1>2, <1>5, <1>7, <1>8, RecordKept, GotoSafe
<1>9. CASE UNCHANGED record /\ \E a \in Result : Answer(r, a)
  BY <1>2, <1>9, RecordKept, AnswerSafe
<1>10. CASE /\ UNCHANGED answer
            /\ \E from : Goto(r, from, FirstStep(r))
            /\ RecordsTyped' /\ CreatesNothing
  BY <1>1, <1>2, <1>6, <1>7, <1>10, GotoSafe
<1>11. CASE Insert(r, FirstStep(r))
  <2>1. CASE record[k].state = "absent"
    <3>1. /\ Goto(r, "acquiring", FirstStep(r)) /\ UNCHANGED answer
          /\ record' = [record EXCEPT ![k] =
                [state |-> "IN_PROGRESS", input |-> InputOf(r), lease |-> "live",
                 outcome |-> NoAnswer]]
      BY <1>11, <2>1 DEF Insert
    <3>2. /\ RecordsTyped' /\ record'[k].state = "IN_PROGRESS"
          /\ \A l \in Key \ {k} : record'[l] = record[l]
      BY <1>1, <1>3, <3>1, TakenRow DEF Asked
    <3> QED BY <1>10, <3>1, <3>2 DEF CreatesNothing
  <2>2. CASE record[k].state # "absent"
    BY <1>8, <1>11, <2>2 DEF Insert
  <2> QED BY <2>1, <2>2
<1>12. CASE Read(r)
  <2>1. CASE Goto(r, "reading", "reclaiming") /\ UNCHANGED <<record, answer>>
    BY <1>8, <2>1
  <2>2. CASE UNCHANGED record /\ \E kind \in {"conflict", "busy"} : Answer(r, Plain(kind))
    BY <1>4, <1>9, <2>2
  <2>3. CASE /\ UNCHANGED record /\ record[k].state = "FINALIZED"
             /\ Answer(r, record[k].outcome)
    BY <1>1, <1>3, <1>9, <2>3 DEF RecordsTyped, Asked
  <2> QED BY <1>12, <2>1, <2>2, <2>3 DEF Read
<1>13. CASE Reclaim(r, FirstStep(r))
  <2>1. CASE StillReclaimable(k)
    <3>1. /\ Goto(r, "reclaiming", FirstStep(r)) /\ UNCHANGED answer
          /\ record' = [record EXCEPT ![k] =
                [state |-> "IN_PROGRESS", input |-> record[k].input, lease |-> "live",
                 outcome |-> record[k].outcome]]
      BY <1>13, <2>1 DEF Reclaim
    <3>2. /\ record[k].input \in Input \cup {NoInput}
          /\ record[k].outcome \in Result \cup {NoAnswer}
      BY <1>1, <1>3 DEF RecordsTyped, Row, Asked
    <3>3. /\ RecordsTyped' /\ record'[k].state = "IN_PROGRESS"
          /\ \A l \in Key \ {k} : record'[l] = record[l]
      BY <1>1, <1>3, <3>1, <3>2, TakenRow DEF Asked
    <3> QED BY <1>10, <3>1, <3>3 DEF CreatesNothing
  <2>2. CASE ~StillReclaimable(k)
    BY <1>4, <1>9, <1>13, <2>2 DEF Reclaim
  <2> QED BY <2>1, <2>2
<1> QED BY <1>11, <1>12, <1>13 DEF Acquire
LEMMA AcquireErrorsSafe ==
    ASSUME SafeInv, NEW r \in Request, AcquireErrors(r)
    PROVE  SafeInv'
<1>1. PICK from \in {"acquiring", "reading", "reclaiming", "checking"} : Fails(r, from)
  BY DEF AcquireErrors
<1>2. from \in PC \ {"idle"}
  BY DEF PC, Holding
<1> QED BY <1>1, <1>2, RecordKept, FailsSafe DEF AcquireErrors

LEMMA CheckSafe ==
    ASSUME SafeInv, NEW r \in Request, Check(r)
    PROVE  SafeInv'
<1>1. originals' \subseteq Media /\ pc \in [Request -> PC]
  BY DEF SafeInv, Typed, RowsTyped, RequestsTyped, Check
<1>2. pc[r] = "checking" /\ Asked(r) /\ InputOf(r).op = "add"
  BY DEF SafeInv, Flow, FlowOf, Check
<1>3. InputOf(r).post \in Post
  BY <1>2, InputKinds DEF Asked
<1>4. RecordsTyped' /\ CreatesNothing
  BY RecordKept DEF Check
<1>5. CASE post[InputOf(r).post] = "live" /\ Goto(r, "checking", "validating")
  <2>1. pc'[r] = "validating"
    BY <1>1, <1>5 DEF Goto
  <2>2. FlowOf(r)'
    BY <1>2, <1>3, <1>5, <2>1 DEF Check, FlowOf, Asked, KeyOf, InputOf, PostThere, rows
  <2> QED BY <1>1, <1>4, <1>5, <2>2, GotoSafe DEF Check, PC, Holding
<1>6. CASE Goto(r, "checking", "rejecting")
  <2>1. pc'[r] = "rejecting"
    BY <1>1, <1>6 DEF Goto
  <2>2. FlowOf(r)'
    BY <1>2, <2>1 DEF Check, FlowOf, Asked, KeyOf, InputOf
  <2> QED BY <1>1, <1>4, <1>6, <2>2, GotoSafe DEF Check, PC, Holding
<1> QED BY <1>5, <1>6 DEF Check

\* A step to a place where a request needs to know no more than its key.
LEMMA GoesOn ==
    ASSUME SafeInv, NEW r \in Request, NEW from \in PC \ {"idle"},
           NEW to \in {"rejecting", "compensating", "releasing"}, Goto(r, from, to),
           UNCHANGED <<record, asked, answer, rows, locals>>, originals' \subseteq Media
    PROVE  SafeInv'
<1>1. pc'[r] = to /\ to \in PC
  BY DEF SafeInv, Typed, RequestsTyped, Goto, PC, Holding
<1>2. Asked(r)
  BY DEF SafeInv, Flow, FlowOf, Goto
<1>3. FlowOf(r)'
  BY <1>1, <1>2 DEF FlowOf, Asked, KeyOf, InputOf
<1> QED BY <1>1, <1>3, RecordKept, GotoSafe

LEMMA RefuseSafe ==
    ASSUME SafeInv, NEW r \in Request, Refuse(r)
    PROVE  SafeInv'
  BY GoesOn DEF Refuse, PC, Holding, SafeInv, Typed, RowsTyped

LEMMA PromoteErrorsSafe ==
    ASSUME SafeInv, NEW r \in Request, PromoteErrors(r)
    PROVE  SafeInv'
<1>1. originals' \subseteq Media
  BY DEF SafeInv, Typed, RowsTyped, LocalsTyped, PromoteErrors
<1> QED BY <1>1, GoesOn DEF PromoteErrors, PC, Holding

LEMMA CompensateSafe ==
    ASSUME SafeInv, NEW r \in Request, Compensate(r)
    PROVE  SafeInv'
<1>1. originals' \subseteq Media
  BY DEF SafeInv, Typed, RowsTyped, Compensate
<1> QED BY <1>1, GoesOn DEF Compensate, PC, Holding

LEMMA RejectSafe ==
    ASSUME SafeInv, NEW r \in Request, Reject(r)
    PROVE  SafeInv'
<1>1. Asked(r) /\ RecordsTyped
  BY DEF SafeInv, Flow, FlowOf, Reject, Typed
<1>2. Plain("rejected") \in Result /\ Plain("rejected").kind = "rejected"
  BY PlainIsResult
<1>3. RecordsTyped' /\ CreatesNothing
  BY <1>1, <1>2, FinalizedRow DEF Reject, Asked, CreatesNothing
<1> QED BY <1>2, <1>3, AnswerSafe DEF Reject

LEMMA RejectErrorsSafe ==
    ASSUME SafeInv, NEW r \in Request, RejectErrors(r)
    PROVE  SafeInv'
<1>1. Plain("rejected") \in Result /\ Plain("rejected").kind = "rejected"
  BY PlainIsResult
<1>2. RecordsTyped
  BY DEF SafeInv, Typed
<1>3. Asked(r) => RecordsTyped' /\ CreatesNothing
  <2>1. CASE UNCHANGED record
    BY <2>1, RecordKept
  <2>2. CASE record' = Finalized(KeyOf(r), Plain("rejected"))
    BY <1>1, <1>2, <2>2, FinalizedRow DEF Asked, CreatesNothing
  <2> QED BY <2>1, <2>2 DEF RejectErrors
<1> QED BY <1>3, FailsSafe DEF RejectErrors, PC, Holding

LEMMA ReleaseSafe ==
    ASSUME SafeInv, NEW r \in Request, Release(r)
    PROVE  SafeInv'
<1>1. RecordsTyped
  BY DEF SafeInv, Typed
<1>2. Asked(r) => RecordsTyped' /\ CreatesNothing
  <2>1. CASE UNCHANGED record
    BY <2>1, RecordKept
  <2>2. CASE record' = Retryable(KeyOf(r))
    BY <1>1, <2>2, RetryableRow DEF Asked, CreatesNothing
  <2> QED BY <2>1, <2>2 DEF Release
<1> QED BY <1>2, FailsSafe DEF Release, PC, Holding

LEMMA CrashSafe ==
    ASSUME SafeInv, NEW r \in Request, Crash(r)
    PROVE  SafeInv'
  BY RecordKept, FailsSafe DEF Crash

LEMMA PromoteSafe ==
    ASSUME SafeInv, NEW r \in Request, Promote(r)
    PROVE  SafeInv'
<1>1. RequestsTyped /\ LocalsTyped /\ originals \subseteq Media
  BY DEF SafeInv, Typed, RowsTyped
<1>2. /\ UNCHANGED <<record, pc, asked, answer, rows, target, ids>>
      /\ RequestsTyped'
  BY <1>1 DEF Promote, keys, RequestsTyped
<1>3. PICK m \in ids[r] \ promoted[r] :
        /\ originals' = originals \cup {m}
        /\ promoted' = [promoted EXCEPT ![r] = @ \cup {m}]
  BY DEF Promote
<1>4. LocalsTyped' /\ originals' \subseteq Media
  BY <1>1, <1>2, <1>3 DEF LocalsTyped
<1>5. FlowOf(r)'
  BY <1>2 DEF SafeInv, Flow, FlowOf, Asked, KeyOf, InputOf, PostThere, rows
<1> QED BY <1>2, <1>4, <1>5, RecordKept, Steps

----------------------------------------------------------------------------
(* The steps that draw ids, write rows or belong to no request.             *)

LEMMA AcceptSafe ==
    ASSUME SafeInv, NEW r \in Request, Accept(r)
    PROVE  SafeInv'
<1>1. RequestsTyped /\ LocalsTyped /\ RecordsTyped /\ RowsTyped
  BY DEF SafeInv, Typed
<1>2. PICK p \in Post, new \in SUBSET Media :
        /\ IF InputOf(r).op = "add" THEN p = InputOf(r).post ELSE FreshPost(p)
        /\ \A m \in new : FreshMedia(m)
        /\ target' = [target EXCEPT ![r] = p]
        /\ ids' = [ids EXCEPT ![r] = new]
  BY DEF Accept
<1>3. /\ RequestsTyped' /\ pc[r] = "validating" /\ pc'[r] = "promoting"
      /\ \A s \in Request \ {r} : pc'[s] = pc[s] /\ asked'[s] = asked[s]
      /\ UNCHANGED <<record, asked, rows, originals, promoted>>
  BY <1>1, GotoTyped DEF Accept, PC, Holding
<1>4. Typed'
  <2>1. LocalsTyped'
    BY <1>1, <1>2, <1>3 DEF LocalsTyped
  <2>2. RowsTyped' /\ RecordsTyped'
    BY <1>1, <1>3 DEF RowsTyped, RecordsTyped, rows
  <2> QED BY <1>3, <2>1, <2>2 DEF Typed
<1>5. Flow'
  <2> SUFFICES ASSUME NEW s \in Request PROVE FlowOf(s)'
    BY DEF Flow
  <2>1. FlowOf(s) /\ FlowOf(r)
    BY DEF SafeInv, Flow
  <2>2. CASE s = r
    <3>1. target'[r] = p /\ ids'[r] = new
      BY <1>1, <1>2 DEF LocalsTyped
    <3>2. \A m \in new : mediaPost[m] = NoPost
      BY <1>2 DEF FreshMedia
    <3> QED BY <1>2, <1>3, <2>1, <2>2, <3>1, <3>2
        DEF FlowOf, Asked, KeyOf, InputOf, PostThere, rows
  <2>3. CASE s # r
    <3>1. target'[s] = target[s] /\ ids'[s] = ids[s]
      BY <1>1, <1>2, <2>3 DEF LocalsTyped
    <3> QED BY <1>3, <2>1, <2>3, <3>1 DEF FlowOf, Asked, KeyOf, InputOf, PostThere, rows
  <2> QED BY <2>2, <2>3
<1>6. Disjoint'
  <2>1. \A s \in Request : ids[s] \cap new = {}
    BY <1>2 DEF FreshMedia
  <2>2. \A s \in Request : ids'[s] = IF s = r THEN new ELSE ids[s]
    BY <1>1, <1>2 DEF LocalsTyped
  <2> QED BY <2>1, <2>2 DEF SafeInv, Disjoint
<1>7. ReplayIsBacked'
  BY <1>3 DEF SafeInv, ReplayIsBacked, rows
<1> QED BY <1>4, <1>5, <1>6, <1>7 DEF SafeInv

\* The transaction, whether its answer arrives or not.
LEMMA TransactionSafe ==
    ASSUME SafeInv, NEW r \in Request, Ready(r), Transaction(r),
           RequestsTyped', LocalsTyped', UNCHANGED <<asked, originals>>,
           pc'[r] \in {"idle", "compensating"},
           \A s \in Request \ {r} : /\ pc'[s] = pc[s]
                                    /\ target'[s] = target[s] /\ ids'[s] = ids[s],
           ids'[r] \subseteq ids[r]
    PROVE  SafeInv'
<1>1. RowsTyped /\ RecordsTyped /\ LocalsTyped /\ FlowOf(r)
  BY DEF SafeInv, Typed, Flow
<1>2. /\ Asked(r) /\ target[r] \in Post /\ ids[r] \in SUBSET Media
      /\ \A m \in ids[r] : mediaPost[m] = NoPost
  BY <1>1 DEF FlowOf, Ready, LocalsTyped
<1>3. /\ Outcome(r) \in Result /\ Outcome(r).kind = "created"
      /\ Outcome(r).post = target[r] /\ Outcome(r).media = ids[r]
  BY <1>2, OutcomeIsResult
<1>4. /\ RecordsTyped' /\ record'[KeyOf(r)].outcome = Outcome(r)
      /\ \A k \in Key \ {KeyOf(r)} : record'[k] = record[k]
  BY <1>1, <1>2, <1>3, FinalizedRow DEF Transaction, Asked
<1>5. /\ RowsTyped'
      /\ \A p \in Post : post[p] # "absent" => post'[p] # "absent"
      /\ InputOf(r).op = "create" => post'[target[r]] = "live"
  BY <1>1, <1>2 DEF RowsTyped, Transaction, Asked
<1>6. \A m \in Media : mediaPost'[m] = IF m \in ids[r] THEN target[r] ELSE mediaPost[m]
  BY DEF Transaction
<1>7. post'[target[r]] # "absent"
  BY <1>1, <1>2, <1>5 DEF FlowOf, Ready, PostThere
<1>8. Flow'
  <2> SUFFICES ASSUME NEW s \in Request PROVE FlowOf(s)'
    BY DEF Flow
  <2>1. CASE s = r
    BY <1>2, <2>1 DEF FlowOf, Asked, KeyOf, InputOf
  <2>2. CASE s # r
    <3>1. FlowOf(s) /\ ids[s] \cap ids[r] = {} /\ ids[s] \subseteq Media
      BY <1>1, <2>2 DEF SafeInv, Flow, Disjoint, LocalsTyped
    <3>2. \A m \in ids[s] : mediaPost'[m] = mediaPost[m]
      BY <1>6, <3>1
    <3>3. PostThere(s) => PostThere(s)'
      BY <1>5 DEF PostThere, InputOf
    <3> QED BY <2>2, <3>1, <3>2, <3>3 DEF FlowOf, Asked, KeyOf, InputOf
  <2> QED BY <2>1, <2>2
<1>9. Disjoint'
  BY DEF SafeInv, Disjoint
<1>10. ReplayIsBacked'
  <2> SUFFICES ASSUME NEW k \in Key, record'[k].state = "FINALIZED",
                      record'[k].outcome.kind = "created"
               PROVE  /\ commits'[k] > 0
                      /\ post'[record'[k].outcome.post] # "absent"
                      /\ \A m \in record'[k].outcome.media :
                           mediaPost'[m] = record'[k].outcome.post
    BY DEF ReplayIsBacked
  <2>1. CASE k = KeyOf(r)
    <3>1. commits'[k] > 0
      BY <1>1, <2>1 DEF Transaction, RowsTyped
    <3> QED BY <1>2, <1>3, <1>4, <1>6, <1>7, <2>1, <3>1
  <2>2. CASE k # KeyOf(r)
    <3>1. record'[k] = record[k] /\ commits'[k] = commits[k]
      BY <1>1, <1>4, <2>2 DEF Transaction, RowsTyped
    <3>2. /\ record[k].outcome.post \in Post
          /\ record[k].outcome.media \subseteq Media
      BY <1>1, <3>1, CreationFields DEF RecordsTyped
    <3>3. /\ commits[k] > 0
          /\ post[record[k].outcome.post] # "absent"
          /\ \A m \in record[k].outcome.media : mediaPost[m] = record[k].outcome.post
      BY <3>1 DEF SafeInv, ReplayIsBacked
    <3>4. \A m \in record[k].outcome.media : m \notin ids[r]
      BY <1>2, <3>2, <3>3, UploadAssumption
    <3> QED BY <1>5, <1>6, <3>1, <3>2, <3>3, <3>4
  <2> QED BY <2>1, <2>2
<1> QED BY <1>4, <1>5, <1>8, <1>9, <1>10 DEF SafeInv, Typed

LEMMA CommitSafe ==
    ASSUME SafeInv, NEW r \in Request, Commit(r)
    PROVE  SafeInv'
<1>1. RequestsTyped /\ LocalsTyped /\ Outcome(r) \in Result
  BY OutcomeIsResult DEF SafeInv, Typed, Flow, FlowOf, Commit, Ready, LocalsTyped
<1>2. /\ RequestsTyped' /\ pc'[r] = "idle"
      /\ \A s \in Request \ {r} : pc'[s] = pc[s]
  BY <1>1, AnswerTyped DEF Commit
<1>3. /\ LocalsTyped' /\ ids'[r] = {}
      /\ \A s \in Request \ {r} : target'[s] = target[s] /\ ids'[s] = ids[s]
  BY <1>1, ForgetTyped DEF Commit
<1> QED BY <1>2, <1>3, TransactionSafe DEF Commit

LEMMA CommitErrorsSafe ==
    ASSUME SafeInv, NEW r \in Request, CommitErrors(r)
    PROVE  SafeInv'
<1>1. RequestsTyped /\ LocalsTyped /\ originals' \subseteq Media
  BY DEF SafeInv, Typed, RowsTyped, CommitErrors
<1>2. CASE RolledBack(r)
  BY <1>1, <1>2, GoesOn DEF CommitErrors, RolledBack, PC, Holding
<1>3. CASE Transaction(r)
  <2>1. /\ RequestsTyped' /\ pc'[r] = "compensating"
        /\ \A s \in Request \ {r} : pc'[s] = pc[s]
    BY <1>1, GotoTyped DEF CommitErrors, PC, Holding
  <2>2. LocalsTyped' /\ UNCHANGED <<target, ids>>
    BY <1>1 DEF CommitErrors, LocalsTyped, locals
  <2> QED BY <1>3, <2>1, <2>2, TransactionSafe DEF CommitErrors
<1> QED BY <1>2, <1>3 DEF CommitErrors

LEMMA LeaseExpiresSafe ==
    ASSUME SafeInv, NEW k \in Key, LeaseExpires(k), UNCHANGED <<rows, originals, locals>>
    PROVE  SafeInv'
<1>1. /\ RecordsTyped'
      /\ \A l \in Key : /\ record'[l].state = record[l].state
                        /\ record'[l].outcome = record[l].outcome
  BY ExpiredRow DEF SafeInv, Typed, LeaseExpires
<1>2. UNCHANGED <<pc, asked, answer, rows, originals, locals>>
  BY DEF LeaseExpires
<1>3. Typed'
  BY <1>1, <1>2 DEF SafeInv, Typed, RowsTyped, LocalsTyped, RequestsTyped, rows, locals
<1>4. Flow' /\ Disjoint'
  BY <1>2 DEF SafeInv, Flow, FlowOf, Disjoint, Asked, KeyOf, InputOf, PostThere, rows, locals
<1>5. ReplayIsBacked'
  BY <1>1, <1>2 DEF SafeInv, ReplayIsBacked, rows
<1> QED BY <1>3, <1>4, <1>5 DEF SafeInv

\* A post that is deleted or restored is still there.
LEMMA PostsServiceSafe ==
    ASSUME SafeInv, NEW p \in Post, SoftDelete(p) \/ Restore(p)
    PROVE  SafeInv'
<1>1. /\ post \in [Post -> {"absent", "live", "deleted"}]
      /\ \E x \in {"live", "deleted"} : post' = [post EXCEPT ![p] = x]
      /\ post[p] # "absent"
  BY DEF SafeInv, Typed, RowsTyped, SoftDelete, Restore
<1>2. /\ post' \in [Post -> {"absent", "live", "deleted"}]
      /\ \A q \in Post : post[q] # "absent" <=> post'[q] # "absent"
  BY <1>1
<1>3. UNCHANGED <<record, pc, asked, answer, mediaPost, commits, originals, locals>>
  BY DEF SoftDelete, Restore, keys
<1>4. Typed'
  BY <1>2, <1>3
  DEF SafeInv, Typed, RowsTyped, LocalsTyped, RequestsTyped, RecordsTyped, locals
<1>5. Flow'
  BY <1>2, <1>3 DEF SafeInv, Flow, FlowOf, Asked, KeyOf, InputOf, PostThere, locals
<1>6. Disjoint'
  BY <1>3 DEF SafeInv, Disjoint, locals
<1>7. ReplayIsBacked'
  <2>1. \A k \in Key : record[k].state = "FINALIZED" /\ record[k].outcome.kind = "created"
                         => record[k].outcome.post \in Post
    BY CreationFields DEF SafeInv, Typed, RecordsTyped
  <2> QED BY <1>2, <1>3, <2>1 DEF SafeInv, ReplayIsBacked
<1> QED BY <1>4, <1>5, <1>6, <1>7 DEF SafeInv

LEMMA NextSafe == SafeInv /\ [Next]_vars => SafeInv'
<1> SUFFICES ASSUME SafeInv, [Next]_vars PROVE SafeInv'
  OBVIOUS
<1>1. CASE UNCHANGED vars
  <2>1. Typed'
    BY <1>1 DEF SafeInv, Typed, RowsTyped, LocalsTyped, RequestsTyped, RecordsTyped, vars
  <2>2. Flow' /\ Disjoint'
    BY <1>1 DEF SafeInv, Flow, FlowOf, Disjoint, Asked, KeyOf, InputOf, PostThere, vars
  <2>3. ReplayIsBacked'
    BY <1>1 DEF SafeInv, ReplayIsBacked, vars
  <2> QED BY <2>1, <2>2, <2>3 DEF SafeInv
<1>2. ASSUME NEW r \in Request, NEW k \in Key, NEW i \in Input,
             Ask(r, k, i), UNCHANGED <<rows, originals, locals>>
      PROVE  SafeInv'
  BY <1>2, AskSafe
<1>3. ASSUME NEW r \in Request,
             \/ Acquire(r) \/ Check(r) \/ Refuse(r) \/ Accept(r) \/ Reject(r)
             \/ Promote(r) \/ Commit(r) \/ Compensate(r) \/ Release(r)
      PROVE  SafeInv'
  BY <1>3, AcquireSafe, CheckSafe, RefuseSafe, AcceptSafe, RejectSafe, PromoteSafe,
     CommitSafe, CompensateSafe, ReleaseSafe
<1>4. ASSUME NEW r \in Request,
             \/ AcquireErrors(r) \/ RejectErrors(r) \/ PromoteErrors(r)
             \/ CommitErrors(r) \/ Crash(r)
      PROVE  SafeInv'
  BY <1>4, AcquireErrorsSafe, RejectErrorsSafe, PromoteErrorsSafe, CommitErrorsSafe,
     CrashSafe
<1>5. ASSUME NEW k \in Key, LeaseExpires(k), UNCHANGED <<rows, originals, locals>>
      PROVE  SafeInv'
  BY <1>5, LeaseExpiresSafe
<1>6. ASSUME NEW p \in Post, SoftDelete(p) \/ Restore(p)
      PROVE  SafeInv'
  BY <1>6, PostsServiceSafe
<1> QED BY <1>1, <1>2, <1>3, <1>4, <1>5, <1>6 DEF Next

LEMMA InitSafe == Init => SafeInv
<1> SUFFICES ASSUME Init PROVE SafeInv
  OBVIOUS
<1>1. RowsTyped /\ LocalsTyped
  BY DEF Init, RowsTyped, LocalsTyped
<1>2. RequestsTyped
  BY DEF Init, InitKeys, RequestsTyped, PC
<1>3. RecordsTyped /\ \A k \in Key : record[k].state = "absent"
  BY DEF Init, InitKeys, NoRecord, RecordsTyped, Row, RecordState
<1>4. Flow /\ Disjoint
  BY DEF Init, InitKeys, Flow, FlowOf, Disjoint
<1>5. ReplayIsBacked
  BY <1>3 DEF ReplayIsBacked
<1> QED BY <1>1, <1>2, <1>3, <1>4, <1>5 DEF SafeInv, Typed

LEMMA SafeInvariance == Spec => []SafeInv
  BY InitSafe, NextSafe, PTL DEF Spec

LEMMA SafeTypes == SafeInv => TypeOK
<1> SUFFICES ASSUME SafeInv PROVE TypeOK
  OBVIOUS
<1>1. \A k \in Key : /\ record[k].state \in RecordState
                     /\ record[k].input \in Input \cup {NoInput}
                     /\ record[k].lease \in {"none", "live", "expired"}
                     /\ record[k].state = "IN_PROGRESS" <=> record[k].lease # "none"
  BY DEF SafeInv, Typed, RecordsTyped, Row
<1> QED BY <1>1 DEF SafeInv, Typed, RowsTyped, LocalsTyped, RequestsTyped, TypeOK

\* Every variable has its type; a lease is on record exactly while a key is in
\* progress.  Under every fault.
THEOREM TypeCorrect == Spec => []TypeOK
  BY SafeTypes, SafeInvariance, PTL

\* A key that is FINALIZED with a created resource replays something that is
\* there.  Under every fault: handlers that outlive their leases, commits whose
\* answers are lost.
THEOREM ReplaysAreBacked == Spec => []ReplayIsBacked
<1>1. SafeInv => ReplayIsBacked
  BY DEF SafeInv
<1> QED BY <1>1, SafeInvariance, PTL
----------------------------------------------------------------------------
(* Every step keeps QuickInv, when handlers are quick.                      *)

LEMMA HeldMoves ==
    ASSUME Held, NEW r \in Request, UNCHANGED <<record, asked>>,
           \A s \in Request \ {r} : pc'[s] = pc[s],
           pc'[r] \in Holding => pc[r] \in Holding,
           pc'[r] = "reclaiming" => /\ record[KeyOf(r)].state # "absent"
                                    /\ record[KeyOf(r)].input = InputOf(r)
    PROVE  Held'
  BY DEF Held, KeyOf, InputOf

\* The key of a request that holds it is settled, and held no more.
LEMMA HeldSettles ==
    ASSUME Held, NEW r \in Request, Asked(r), UNCHANGED asked,
           \A s \in Request \ {r} : pc'[s] = pc[s],
           pc[r] \in Holding, pc'[r] = "idle",
           record'[KeyOf(r)].input = record[KeyOf(r)].input,
           record'[KeyOf(r)].state # "absent",
           \A k \in Key \ {KeyOf(r)} : record'[k] = record[k],
           \A s \in Request : pc[s] # "idle" => Asked(s)
    PROVE  Held'
<1>1. "idle" \notin Holding /\ "reclaiming" # "idle"
  BY DEF Holding
<1> SUFFICES ASSUME NEW s \in Request, s # r
             PROVE  /\ pc[s] \in Holding =>
                         /\ record'[KeyOf(s)].state = "IN_PROGRESS"
                         /\ record'[KeyOf(s)].lease = "live"
                         /\ record'[KeyOf(s)].input = InputOf(s)
                    /\ pc[s] = "reclaiming" =>
                         /\ record'[KeyOf(s)].state # "absent"
                         /\ record'[KeyOf(s)].input = InputOf(s)
  BY <1>1 DEF Held, KeyOf, InputOf
<1>2. CASE pc[s] \in Holding
  BY <1>1, <1>2 DEF Held, Asked
<1>3. CASE pc[s] = "reclaiming"
  BY <1>1, <1>3 DEF Held, Asked
<1> QED BY <1>2, <1>3

\* A key that nobody holds is taken.
LEMMA HeldTakes ==
    ASSUME Held, NEW r \in Request, Asked(r), UNCHANGED asked,
           \A s \in Request \ {r} : pc'[s] = pc[s],
           \/ record[KeyOf(r)].state # "IN_PROGRESS"
           \/ record[KeyOf(r)].lease # "live",
           record[KeyOf(r)].state # "absent" =>
               record[KeyOf(r)].input = InputOf(r),
           pc'[r] # "reclaiming",
           record'[KeyOf(r)].state = "IN_PROGRESS",
           record'[KeyOf(r)].lease = "live",
           record'[KeyOf(r)].input = InputOf(r),
           \A k \in Key \ {KeyOf(r)} : record'[k] = record[k],
           \A s \in Request : pc[s] # "idle" => Asked(s)
    PROVE  Held'
<1>1. "idle" \notin Holding /\ "reclaiming" # "idle"
  BY DEF Holding
<1>2. \A s \in Request : pc[s] \in Holding => KeyOf(s) # KeyOf(r)
  BY DEF Held
<1>3. ASSUME NEW s \in Request, s # r
      PROVE  /\ pc[s] \in Holding =>
                  /\ record'[KeyOf(s)].state = "IN_PROGRESS"
                  /\ record'[KeyOf(s)].lease = "live"
                  /\ record'[KeyOf(s)].input = InputOf(s)
             /\ pc[s] = "reclaiming" =>
                  /\ record'[KeyOf(s)].state # "absent"
                  /\ record'[KeyOf(s)].input = InputOf(s)
  <2>1. CASE pc[s] \in Holding
    BY <1>1, <1>2, <2>1 DEF Held, Asked
  <2>2. CASE pc[s] = "reclaiming"
    BY <1>1, <2>2 DEF Held, Asked
  <2> QED BY <1>1, <2>1, <2>2
<1> QED BY <1>1, <1>2, <1>3 DEF Held, KeyOf, InputOf

LEMMA RecordedKept ==
    ASSUME Recorded, NEW r \in Request, UNCHANGED <<asked, commits>>,
           \A s \in Request \ {r} : answer'[s] = answer[s],
           answer'[r] = answer[r] \/ AnswerOf(r)',
           \A k \in Key : record[k].state = "FINALIZED" => record'[k] = record[k]
    PROVE  Recorded'
<1>1. OneEffectPerKey' /\ EffectIsRecorded'
  BY DEF Recorded, OneEffectPerKey, EffectIsRecorded
<1>2. ASSUME NEW s \in Request PROVE AnswerOf(s)'
  BY DEF Recorded, AnswerOf, Asked, KeyOf, InputOf
<1> QED BY <1>1, <1>2 DEF Recorded

LEMMA StoredKept ==
    ASSUME SafeInv, Stored, NEW r \in Request, UNCHANGED mediaPost,
           \A s \in Request \ {r} : /\ pc'[s] = pc[s] /\ ids'[s] = ids[s]
                                    /\ promoted'[s] = promoted[s],
           Uncommitted(r)',
           \A m \in originals \ originals' : m \in ids[r] /\ mediaPost[m] = NoPost
    PROVE  Stored'
<1>1. OriginalsExist'
  BY DEF Stored, OriginalsExist
<1>2. ASSUME NEW s \in Request PROVE Uncommitted(s)'
  BY DEF SafeInv, Disjoint, Stored, Uncommitted
<1> QED BY <1>1, <1>2 DEF Stored

\* A step of one request that leaves the records alone.
LEMMA QuickMoves ==
    ASSUME SafeInv, QuickInv, NEW r \in Request, UNCHANGED <<record, asked, rows>>,
           \A s \in Request \ {r} : /\ pc'[s] = pc[s] /\ answer'[s] = answer[s]
                                    /\ ids'[s] = ids[s] /\ promoted'[s] = promoted[s],
           pc'[r] \in Holding => pc[r] \in Holding,
           pc'[r] = "reclaiming" => /\ record[KeyOf(r)].state # "absent"
                                    /\ record[KeyOf(r)].input = InputOf(r),
           answer'[r] = answer[r] \/ AnswerOf(r)',
           Uncommitted(r)',
           \A m \in originals \ originals' : m \in ids[r] /\ mediaPost[m] = NoPost
    PROVE  QuickInv'
<1>1. Held'
  BY HeldMoves DEF QuickInv
<1>2. Recorded'
  BY RecordedKept DEF QuickInv, rows
<1>3. Stored'
  BY StoredKept DEF QuickInv, rows
<1> QED BY <1>1, <1>2, <1>3 DEF QuickInv

\* A step that ends a request and settles its key.
LEMMA QuickSettles ==
    ASSUME SafeInv, QuickInv, NEW r \in Request, UNCHANGED <<asked, rows, originals>>,
           \A s \in Request \ {r} : /\ pc'[s] = pc[s] /\ answer'[s] = answer[s]
                                    /\ ids'[s] = ids[s] /\ promoted'[s] = promoted[s],
           pc[r] \in Holding, pc'[r] = "idle",
           record'[KeyOf(r)].input = record[KeyOf(r)].input,
           record'[KeyOf(r)].state # "absent",
           \A k \in Key \ {KeyOf(r)} : record'[k] = record[k],
           AnswerOf(r)', Uncommitted(r)'
    PROVE  QuickInv'
<1>1. \A s \in Request : pc[s] # "idle" => Asked(s)
  BY DEF SafeInv, Flow, FlowOf
<1>2. Asked(r) /\ record[KeyOf(r)].state = "IN_PROGRESS"
  BY <1>1 DEF QuickInv, Held, Holding
<1>3. Held'
  BY <1>1, <1>2, HeldSettles DEF QuickInv
<1>4. \A k \in Key : record[k].state = "FINALIZED" => record'[k] = record[k]
  BY <1>2
<1>5. Recorded'
  BY <1>4, RecordedKept DEF QuickInv, rows
<1>6. Stored'
  BY StoredKept DEF QuickInv, rows
<1> QED BY <1>3, <1>5, <1>6 DEF QuickInv
LEMMA GotoFacts ==
    ASSUME SafeInv, NEW r \in Request, NEW from, NEW to, Goto(r, from, to)
    PROVE  /\ pc[r] = from /\ pc'[r] = to
           /\ \A s \in Request \ {r} : pc'[s] = pc[s]
  BY DEF SafeInv, Typed, RequestsTyped, Goto

LEMMA AnswerFacts ==
    ASSUME SafeInv, NEW r \in Request, NEW a, Answer(r, a)
    PROVE  /\ pc'[r] = "idle" /\ answer'[r] = a
           /\ \A s \in Request \ {r} : pc'[s] = pc[s] /\ answer'[s] = answer[s]
  BY DEF SafeInv, Typed, RequestsTyped, Answer

LEMMA Idle == "idle" \notin Holding /\ "idle" \notin {"reclaiming", "promoting", "compensating"}
  BY DEF Holding

\* What an exception leaves behind.
LEMMA FailsFacts ==
    ASSUME SafeInv, NEW r \in Request, NEW from \in PC \ {"idle"}, Fails(r, from),
           UNCHANGED asked
    PROVE  /\ pc[r] = from /\ pc'[r] = "idle" /\ AnswerOf(r)' /\ Uncommitted(r)'
           /\ \A s \in Request \ {r} : /\ pc'[s] = pc[s] /\ answer'[s] = answer[s]
                                       /\ ids'[s] = ids[s] /\ promoted'[s] = promoted[s]
<1>1. Asked(r) /\ pc[r] = from
  BY DEF SafeInv, Flow, FlowOf, Fails
<1>2. /\ pc'[r] = "idle" /\ answer'[r] = Plain("error")
      /\ \A s \in Request \ {r} : pc'[s] = pc[s] /\ answer'[s] = answer[s]
  BY AnswerFacts DEF Fails
<1>3. /\ ids'[r] = {} /\ promoted'[r] = {}
      /\ \A s \in Request \ {r} : ids'[s] = ids[s] /\ promoted'[s] = promoted[s]
  BY ForgetTyped DEF Fails, SafeInv, Typed
<1>4. AnswerOf(r)'
  BY <1>1, <1>2, PlainIsResult DEF AnswerOf, Asked, KeyOf, InputOf
<1>5. Uncommitted(r)'
  BY <1>2, <1>3, Idle DEF Uncommitted
<1> QED BY <1>1, <1>2, <1>3, <1>4, <1>5

\* A step that answers with no success and no rejection, or is no answer.
LEMMA FailsQuick ==
    ASSUME SafeInv, QuickInv, NEW r \in Request, NEW from \in PC \ {"idle"},
           Fails(r, from), UNCHANGED <<asked, record, rows, originals>>
    PROVE  QuickInv'
  BY FailsFacts, Idle, QuickMoves

LEMMA AcquireErrorsQuick ==
    ASSUME SafeInv, QuickInv, NEW r \in Request, AcquireErrors(r)
    PROVE  QuickInv'
<1>1. PICK from \in {"acquiring", "reading", "reclaiming", "checking"} : Fails(r, from)
  BY DEF AcquireErrors
<1>2. from \in PC \ {"idle"}
  BY DEF PC, Holding
<1> QED BY <1>1, <1>2, FailsQuick DEF AcquireErrors

LEMMA CrashQuick ==
    ASSUME SafeInv, QuickInv, NEW r \in Request, Crash(r)
    PROVE  QuickInv'
  BY FailsQuick DEF Crash

LEMMA AskQuick ==
    ASSUME SafeInv, QuickInv, NEW r \in Request, NEW k \in Key, NEW i \in Input,
           Ask(r, k, i), UNCHANGED <<rows, originals, locals>>
    PROVE  QuickInv'
<1>1. /\ pc[r] = "idle" /\ pc'[r] = "acquiring" /\ answer'[r] = NoAnswer
      /\ asked'[r] = [key |-> k, input |-> i] /\ UNCHANGED record
      /\ \A s \in Request \ {r} : /\ pc'[s] = pc[s] /\ asked'[s] = asked[s]
                                  /\ answer'[s] = answer[s]
  BY DEF Ask, Goto, SafeInv, Typed, RequestsTyped
<1>2. "acquiring" \notin Holding /\ "acquiring" \notin {"reclaiming", "promoting", "compensating"}
  BY DEF Holding
<1>3. Held'
  BY <1>1, <1>2 DEF QuickInv, Held, KeyOf, InputOf
<1>4. Recorded'
  <2>1. ASSUME NEW s \in Request PROVE AnswerOf(s)'
    BY <1>1 DEF QuickInv, Recorded, AnswerOf, Asked, KeyOf, InputOf
  <2> QED BY <1>1, <2>1
      DEF QuickInv, Recorded, OneEffectPerKey, EffectIsRecorded, rows
<1>5. Uncommitted(r)'
  BY <1>1, <1>2 DEF QuickInv, Stored, Uncommitted, locals
<1>6. Stored'
  BY <1>1, <1>5, StoredKept DEF QuickInv, rows, locals
<1> QED BY <1>3, <1>4, <1>6 DEF QuickInv

LEMMA AcquireQuick ==
    ASSUME SafeInv, QuickInv, NEW r \in Request, Acquire(r)
    PROVE  QuickInv'
<1> DEFINE k == KeyOf(r)
<1>1. UNCHANGED <<asked, rows, originals, ids, promoted>>
  BY DEF Acquire, Insert, Read, Reclaim, locals
<1>2. pc[r] \in {"acquiring", "reading", "reclaiming"} /\ Asked(r)
  BY DEF SafeInv, Flow, FlowOf, Acquire, Insert, Read, Reclaim, Goto
<1>3. \A s \in Request : pc[s] # "idle" => Asked(s)
  BY DEF SafeInv, Flow, FlowOf
<1>4. pc'[r] \notin {"promoting", "compensating"} => Uncommitted(r)'
  BY <1>1, <1>2 DEF QuickInv, Stored, Uncommitted
<1>5. {"reading", "reclaiming"} \cap (Holding \cup {"promoting", "compensating"}) = {}
  BY DEF Holding
<1>6. FirstStep(r) \in {"validating", "checking", "retrying"}
  BY <1>2, InputKinds DEF FirstStep, Asked
<1>7. CASE /\ UNCHANGED <<record, answer>>
           /\ \/ \E from : Goto(r, from, "reading")
              \/ /\ \E from : Goto(r, from, "reclaiming")
                 /\ record[k].state # "absent" /\ record[k].input = InputOf(r)
  <2>1. /\ pc'[r] \in {"reading", "reclaiming"}
        /\ pc'[r] = "reclaiming" => /\ record[k].state # "absent"
                                    /\ record[k].input = InputOf(r)
        /\ \A s \in Request \ {r} : pc'[s] = pc[s]
    BY <1>7, GotoFacts
  <2> QED BY <1>1, <1>4, <1>5, <1>7, <2>1, QuickMoves
<1>8. CASE UNCHANGED record /\ \E a : Answer(r, a) /\ (answer'[r] = a => AnswerOf(r)')
  <2>1. /\ pc'[r] = "idle" /\ AnswerOf(r)'
        /\ \A s \in Request \ {r} : pc'[s] = pc[s] /\ answer'[s] = answer[s]
    BY <1>8, AnswerFacts
  <2> QED BY <1>1, <1>4, <1>8, <2>1, Idle, QuickMoves
<1>9. CASE /\ UNCHANGED answer /\ \E from : Goto(r, from, FirstStep(r))
           /\ record[k].state # "FINALIZED"
           /\ record[k].state # "IN_PROGRESS" \/ record[k].lease # "live"
           /\ record[k].state # "absent" => record[k].input = InputOf(r)
           /\ record'[k].state = "IN_PROGRESS" /\ record'[k].lease = "live"
           /\ record'[k].input = InputOf(r)
           /\ \A l \in Key \ {k} : record'[l] = record[l]
  <2>1. /\ pc'[r] \in {"validating", "checking", "retrying"}
        /\ \A s \in Request \ {r} : pc'[s] = pc[s]
    BY <1>6, <1>9, GotoFacts
  <2>2. Held'
    BY <1>1, <1>2, <1>3, <1>9, <2>1, HeldTakes DEF QuickInv
  <2>3. Recorded'
    <3>1. \A l \in Key : record[l].state = "FINALIZED" => record'[l] = record[l]
      BY <1>9
    <3> QED BY <1>1, <1>9, <3>1, RecordedKept DEF QuickInv, rows
  <2>4. Stored'
    BY <1>1, <1>4, <2>1, StoredKept DEF QuickInv, rows
  <2> QED BY <2>2, <2>3, <2>4 DEF QuickInv
<1>10. ASSUME NEW kind \in {"conflict", "busy"}, answer'[r] = Plain(kind)
       PROVE  AnswerOf(r)'
  BY <1>1, <1>2, <1>10, PlainIsResult DEF AnswerOf, Asked, KeyOf, InputOf
<1>11. CASE Insert(r, FirstStep(r))
  <2>1. CASE record[k].state = "absent"
    <3>1. /\ Goto(r, "acquiring", FirstStep(r)) /\ UNCHANGED answer
          /\ record' = [record EXCEPT ![k] =
                [state |-> "IN_PROGRESS", input |-> InputOf(r), lease |-> "live",
                 outcome |-> NoAnswer]]
      BY <1>11, <2>1 DEF Insert
    <3>2. /\ record'[k].state = "IN_PROGRESS" /\ record'[k].lease = "live"
          /\ record'[k].input = InputOf(r)
          /\ \A l \in Key \ {k} : record'[l] = record[l]
      BY <1>2, <3>1, TakenRow DEF SafeInv, Typed, Asked
    <3> QED BY <1>9, <2>1, <3>1, <3>2
  <2>2. CASE record[k].state # "absent"
    BY <1>7, <1>11, <2>2 DEF Insert
  <2> QED BY <2>1, <2>2
<1>12. CASE Read(r)
  <2>1. CASE Goto(r, "reading", "reclaiming") /\ SameInput(r) /\ Reclaimable(k)
             /\ UNCHANGED <<record, answer>>
    BY <1>7, <2>1 DEF SameInput, Reclaimable
  <2>2. CASE UNCHANGED record /\ \E kind \in {"conflict", "busy"} : Answer(r, Plain(kind))
    BY <1>8, <1>10, <2>2
  <2>3. CASE /\ UNCHANGED record /\ record[k].state = "FINALIZED" /\ SameInput(r)
             /\ Answer(r, record[k].outcome)
    <3>1. answer'[r] = record[k].outcome => AnswerOf(r)'
      BY <1>1, <1>2, <2>3 DEF AnswerOf, Asked, SameInput, KeyOf, InputOf
    <3> QED BY <1>8, <2>3, <3>1
  <2> QED BY <1>12, <2>1, <2>2, <2>3 DEF Read
<1>13. CASE Reclaim(r, FirstStep(r))
  <2>1. CASE StillReclaimable(k)
    <3>1. /\ Goto(r, "reclaiming", FirstStep(r)) /\ UNCHANGED answer
          /\ record' = [record EXCEPT ![k] =
                [state |-> "IN_PROGRESS", input |-> record[k].input, lease |-> "live",
                 outcome |-> record[k].outcome]]
      BY <1>13, <2>1 DEF Reclaim
    <3>2. /\ record[k].input \in Input \cup {NoInput}
          /\ record[k].outcome \in Result \cup {NoAnswer}
      BY <1>2 DEF SafeInv, Typed, RecordsTyped, Row, Asked
    <3>3. /\ record'[k].state = "IN_PROGRESS" /\ record'[k].lease = "live"
          /\ record'[k].input = record[k].input
          /\ \A l \in Key \ {k} : record'[l] = record[l]
      BY <1>2, <3>1, <3>2, TakenRow DEF SafeInv, Typed, Asked
    <3>4. record[k].input = InputOf(r)
      BY <3>1, GotoFacts DEF QuickInv, Held
    <3>5. /\ record[k].state # "FINALIZED"
          /\ record[k].state # "IN_PROGRESS" \/ record[k].lease # "live"
      BY <2>1 DEF StillReclaimable, Reclaimable
    <3> QED BY <1>9, <3>1, <3>3, <3>4, <3>5
  <2>2. CASE ~StillReclaimable(k)
    BY <1>8, <1>10, <1>13, <2>2 DEF Reclaim
  <2> QED BY <2>1, <2>2
<1> QED BY <1>11, <1>12, <1>13 DEF Acquire
\* A step on of a request that holds its key, before and after.
LEMMA GoesOnQuick ==
    ASSUME SafeInv, QuickInv, NEW r \in Request, NEW from \in Holding, NEW to \in Holding,
           Goto(r, from, to), UNCHANGED <<record, asked, answer, rows, ids, promoted>>,
           pc'[r] = to => Uncommitted(r)',
           \A m \in originals \ originals' : m \in ids[r] /\ mediaPost[m] = NoPost
    PROVE  QuickInv'
<1>1. to # "reclaiming"
  BY DEF Holding
<1> QED BY <1>1, GotoFacts, QuickMoves

LEMMA CheckQuick ==
    ASSUME SafeInv, QuickInv, NEW r \in Request, Check(r)
    PROVE  QuickInv'
<1>1. PICK to \in {"validating", "rejecting"} : Goto(r, "checking", to)
  BY DEF Check
<1>2. UNCHANGED <<record, asked, answer, rows, originals, ids, promoted>>
  BY DEF Check, locals
<1>3. pc'[r] = to => Uncommitted(r)'
  BY <1>1, <1>2, GotoFacts DEF QuickInv, Stored, Uncommitted
<1> QED BY <1>1, <1>2, <1>3, GoesOnQuick DEF Holding

LEMMA RefuseQuick ==
    ASSUME SafeInv, QuickInv, NEW r \in Request, Refuse(r)
    PROVE  QuickInv'
<1>1. UNCHANGED <<record, asked, answer, rows, originals, ids, promoted>>
  BY DEF Refuse, locals
<1>2. pc'[r] = "rejecting" => Uncommitted(r)'
  BY <1>1, GotoFacts DEF Refuse, QuickInv, Stored, Uncommitted
<1> QED BY <1>1, <1>2, GoesOnQuick DEF Refuse, Holding

LEMMA CommitErrorsQuick ==
    ASSUME SafeInv, QuickInv, Quick, NEW r \in Request, CommitErrors(r)
    PROVE  QuickInv'
<1>1. /\ UNCHANGED <<record, asked, answer, rows, originals, ids, promoted>>
      /\ Goto(r, "promoting", "compensating")
  BY DEF CommitErrors, RolledBack, Quick, locals
<1>2. pc'[r] = "compensating" => Uncommitted(r)'
  BY <1>1, GotoFacts DEF QuickInv, Stored, Uncommitted, rows
<1> QED BY <1>1, <1>2, GoesOnQuick DEF Holding

LEMMA PromoteErrorsQuick ==
    ASSUME SafeInv, QuickInv, NEW r \in Request, PromoteErrors(r)
    PROVE  QuickInv'
<1>1. /\ UNCHANGED <<record, asked, answer, rows, ids, promoted>>
      /\ Goto(r, "promoting", "compensating")
      /\ originals \subseteq originals'
  BY DEF PromoteErrors, locals
<1>2. pc'[r] = "compensating" => Uncommitted(r)'
  BY <1>1, GotoFacts DEF QuickInv, Stored, Uncommitted, rows
<1> QED BY <1>1, <1>2, GoesOnQuick DEF Holding

\* Compensation removes what the request promoted, and that is not committed.
LEMMA CompensateQuick ==
    ASSUME SafeInv, QuickInv, NEW r \in Request, Compensate(r)
    PROVE  QuickInv'
<1>1. /\ UNCHANGED <<record, asked, answer, rows, ids, promoted>>
      /\ Goto(r, "compensating", "releasing")
      /\ originals \ originals' \subseteq promoted[r]
  BY DEF Compensate, Removable, locals
<1>2. pc[r] = "compensating"
  BY <1>1, GotoFacts
<1>3. promoted[r] \subseteq ids[r] /\ \A m \in ids[r] : mediaPost[m] = NoPost
  BY <1>2 DEF QuickInv, Stored, Uncommitted
<1>4. pc'[r] = "releasing" => Uncommitted(r)'
  BY <1>1, <1>3 DEF Uncommitted
<1> QED BY <1>1, <1>3, <1>4, GoesOnQuick DEF Holding

LEMMA AcceptQuick ==
    ASSUME SafeInv, QuickInv, NEW r \in Request, Accept(r)
    PROVE  QuickInv'
<1>1. PICK p \in Post, new \in SUBSET Media :
        /\ \A m \in new : FreshMedia(m)
        /\ ids' = [ids EXCEPT ![r] = new]
  BY DEF Accept
<1>2. /\ UNCHANGED <<record, asked, answer, rows, originals, promoted>>
      /\ Goto(r, "validating", "promoting")
  BY DEF Accept
<1>3. /\ pc[r] = "validating" /\ pc'[r] = "promoting"
      /\ \A s \in Request \ {r} : pc'[s] = pc[s]
  BY <1>2, GotoFacts
<1>4. ids'[r] = new /\ \A s \in Request \ {r} : ids'[s] = ids[s]
  BY <1>1 DEF SafeInv, Typed, LocalsTyped
<1>5. Uncommitted(r)'
  <2>1. promoted[r] = {}
    BY <1>3 DEF QuickInv, Stored, Uncommitted
  <2>2. \A m \in new : mediaPost[m] = NoPost
    BY <1>1 DEF FreshMedia
  <2> QED BY <1>2, <1>3, <1>4, <2>1, <2>2 DEF Uncommitted, rows
<1>6. Held'
  BY <1>2, <1>3, HeldMoves DEF QuickInv, Holding
<1>7. Recorded'
  BY <1>2, RecordedKept DEF QuickInv, rows
<1>8. Stored'
  <2>1. OriginalsExist'
    BY <1>2 DEF QuickInv, Stored, OriginalsExist, rows
  <2>2. ASSUME NEW s \in Request, s # r PROVE Uncommitted(s)'
    BY <1>2, <1>3, <1>4, <2>2 DEF QuickInv, Stored, Uncommitted, rows
  <2> QED BY <1>5, <2>1, <2>2 DEF Stored
<1> QED BY <1>6, <1>7, <1>8 DEF QuickInv

LEMMA PromoteQuick ==
    ASSUME SafeInv, QuickInv, NEW r \in Request, Promote(r)
    PROVE  QuickInv'
<1>1. PICK m \in ids[r] \ promoted[r] :
        /\ originals' = originals \cup {m}
        /\ promoted' = [promoted EXCEPT ![r] = @ \cup {m}]
  BY DEF Promote
<1>2. UNCHANGED <<record, pc, asked, answer, rows, ids>> /\ pc[r] = "promoting"
  BY DEF Promote, keys
<1>3. /\ promoted'[r] = promoted[r] \cup {m}
      /\ \A s \in Request \ {r} : promoted'[s] = promoted[s]
  BY <1>1 DEF SafeInv, Typed, LocalsTyped
<1>4. Uncommitted(r)'
  BY <1>1, <1>2, <1>3 DEF QuickInv, Stored, Uncommitted, rows
<1>5. originals \ originals' = {}
  BY <1>1
<1>6. "promoting" # "reclaiming"
  OBVIOUS
<1> QED BY <1>2, <1>3, <1>4, <1>5, <1>6, QuickMoves

----------------------------------------------------------------------------
(* The steps that settle a key.                                             *)

LEMMA RejectQuick ==
    ASSUME SafeInv, QuickInv, NEW r \in Request, Reject(r)
    PROVE  QuickInv'
<1>1. UNCHANGED <<asked, rows, originals, ids, promoted>> /\ pc[r] = "rejecting"
  BY DEF Reject, locals
<1>2. /\ pc'[r] = "idle" /\ answer'[r] = Plain("rejected")
      /\ \A s \in Request \ {r} : pc'[s] = pc[s] /\ answer'[s] = answer[s]
  BY AnswerFacts DEF Reject
<1>3. Asked(r) /\ RecordsTyped /\ Plain("rejected") \in Result
  BY <1>1, PlainIsResult DEF SafeInv, Flow, FlowOf, Typed
<1>4. record' = Finalized(KeyOf(r), Plain("rejected"))
  BY DEF Reject
<1>5. /\ record'[KeyOf(r)].state = "FINALIZED"
      /\ record'[KeyOf(r)].outcome = Plain("rejected")
      /\ record'[KeyOf(r)].input = record[KeyOf(r)].input
      /\ \A k \in Key \ {KeyOf(r)} : record'[k] = record[k]
  BY <1>3, <1>4, FinalizedRow DEF Asked
<1>6. "rejecting" \in Holding /\ record[KeyOf(r)].input = InputOf(r)
  BY <1>1 DEF QuickInv, Held, Holding
<1>7. AnswerOf(r)'
  BY <1>1, <1>2, <1>3, <1>5, <1>6 DEF AnswerOf, Asked, KeyOf, InputOf
<1>8. Uncommitted(r)'
  BY <1>1, <1>2, Idle DEF QuickInv, Stored, Uncommitted
<1> QED BY <1>1, <1>2, <1>5, <1>6, <1>7, <1>8, QuickSettles

LEMMA RejectErrorsQuick ==
    ASSUME SafeInv, QuickInv, NEW r \in Request, RejectErrors(r)
    PROVE  QuickInv'
<1>1. "rejecting" \in PC \ {"idle"} /\ "rejecting" \in Holding
  BY DEF PC, Holding
<1>2. CASE UNCHANGED record
  BY <1>1, <1>2, FailsQuick DEF RejectErrors
<1>3. CASE record' = Finalized(KeyOf(r), Plain("rejected"))
  <2>1. Fails(r, "rejecting") /\ UNCHANGED <<asked, rows, originals>>
    BY DEF RejectErrors
  <2>2. Asked(r) /\ RecordsTyped /\ Plain("rejected") \in Result
    BY <2>1, PlainIsResult DEF SafeInv, Flow, FlowOf, Typed, Fails
  <2>3. /\ record'[KeyOf(r)].state = "FINALIZED"
        /\ record'[KeyOf(r)].input = record[KeyOf(r)].input
        /\ \A k \in Key \ {KeyOf(r)} : record'[k] = record[k]
    BY <1>3, <2>2, FinalizedRow DEF Asked
  <2> QED BY <1>1, <2>1, <2>3, FailsFacts, QuickSettles
<1> QED BY <1>2, <1>3 DEF RejectErrors

LEMMA ReleaseQuick ==
    ASSUME SafeInv, QuickInv, NEW r \in Request, Release(r)
    PROVE  QuickInv'
<1>1. "releasing" \in PC \ {"idle"} /\ "releasing" \in Holding
  BY DEF PC, Holding
<1>2. CASE UNCHANGED record
  BY <1>1, <1>2, FailsQuick DEF Release
<1>3. CASE record' = Retryable(KeyOf(r))
  <2>1. Fails(r, "releasing") /\ UNCHANGED <<asked, rows, originals>>
    BY DEF Release
  <2>2. Asked(r) /\ RecordsTyped
    BY <2>1 DEF SafeInv, Flow, FlowOf, Typed, Fails
  <2>3. /\ record'[KeyOf(r)].state = "RETRYABLE_FAILURE"
        /\ record'[KeyOf(r)].input = record[KeyOf(r)].input
        /\ \A k \in Key \ {KeyOf(r)} : record'[k] = record[k]
    BY <1>3, <2>2, RetryableRow DEF Asked
  <2> QED BY <1>1, <2>1, <2>3, FailsFacts, QuickSettles
<1> QED BY <1>2, <1>3 DEF Release

LEMMA CommitQuick ==
    ASSUME SafeInv, QuickInv, NEW r \in Request, Commit(r)
    PROVE  QuickInv'
<1> DEFINE k == KeyOf(r)
<1>1. /\ pc[r] = "promoting" /\ promoted[r] = ids[r] /\ Transaction(r)
      /\ UNCHANGED <<asked, originals>>
  BY DEF Commit, Ready
<1>2. /\ pc'[r] = "idle" /\ answer'[r] = Outcome(r)
      /\ \A s \in Request \ {r} : pc'[s] = pc[s] /\ answer'[s] = answer[s]
  BY AnswerFacts DEF Commit
<1>3. /\ ids'[r] = {} /\ promoted'[r] = {}
      /\ \A s \in Request \ {r} : ids'[s] = ids[s] /\ promoted'[s] = promoted[s]
  BY ForgetTyped DEF Commit, SafeInv, Typed
<1>4. /\ Asked(r) /\ RecordsTyped /\ Outcome(r) \in Result
      /\ Outcome(r).kind = "created"
  BY <1>1, OutcomeIsResult DEF SafeInv, Flow, FlowOf, Typed, LocalsTyped
<1>5. /\ record'[k].state = "FINALIZED" /\ record'[k].outcome = Outcome(r)
      /\ record'[k].input = record[k].input
      /\ \A l \in Key \ {k} : record'[l] = record[l]
  BY <1>1, <1>4, FinalizedRow DEF Transaction, Asked
<1>6. /\ "promoting" \in Holding /\ record[k].state = "IN_PROGRESS"
      /\ record[k].input = InputOf(r)
  BY <1>1 DEF QuickInv, Held, Holding
<1>7. Held'
  <2>1. \A s \in Request : pc[s] # "idle" => Asked(s)
    BY DEF SafeInv, Flow, FlowOf
  <2> QED BY <1>1, <1>2, <1>4, <1>5, <1>6, <2>1, HeldSettles DEF QuickInv
<1>8. commits[k] = 0 /\ commits' = [commits EXCEPT ![k] = @ + 1] /\ commits \in [Key -> Nat]
  BY <1>1, <1>4, <1>6
  DEF QuickInv, Recorded, EffectIsRecorded, Asked, Transaction, SafeInv, Typed, RowsTyped
<1>9. commits'[k] = 1 /\ \A l \in Key \ {k} : commits'[l] = commits[l]
  BY <1>4, <1>8 DEF Asked
<1>10. Recorded'
  <2>1. OneEffectPerKey' /\ EffectIsRecorded'
    BY <1>4, <1>5, <1>9 DEF QuickInv, Recorded, OneEffectPerKey, EffectIsRecorded
  <2>2. AnswerOf(r)'
    BY <1>1, <1>2, <1>4, <1>5, <1>6 DEF AnswerOf, Asked, KeyOf, InputOf
  <2>3. ASSUME NEW s \in Request, s # r PROVE AnswerOf(s)'
    <3>1. \A l \in Key : record[l].state = "FINALIZED" => record'[l] = record[l]
      BY <1>5, <1>6
    <3> QED BY <1>1, <1>2, <2>3, <3>1
        DEF QuickInv, Recorded, AnswerOf, Asked, KeyOf, InputOf
  <2> QED BY <2>1, <2>2, <2>3 DEF Recorded
<1>11. \A m \in Media : mediaPost'[m] = IF m \in ids[r] THEN target[r] ELSE mediaPost[m]
  BY <1>1 DEF Transaction
<1>12. Stored'
  <2>1. OriginalsExist'
    BY <1>1, <1>11 DEF QuickInv, Stored, Uncommitted, OriginalsExist
  <2>2. Uncommitted(r)'
    BY <1>2, <1>3, Idle DEF Uncommitted
  <2>3. ASSUME NEW s \in Request, s # r PROVE Uncommitted(s)'
    <3>1. ids[s] \cap ids[r] = {} /\ ids[s] \subseteq Media
      BY <2>3 DEF SafeInv, Disjoint, Typed, LocalsTyped
    <3>2. \A m \in ids[s] : mediaPost'[m] = mediaPost[m]
      BY <1>11, <3>1
    <3> QED BY <1>1, <1>2, <1>3, <2>3, <3>2 DEF QuickInv, Stored, Uncommitted
  <2> QED BY <2>1, <2>2, <2>3 DEF Stored
<1> QED BY <1>7, <1>10, <1>12 DEF QuickInv

----------------------------------------------------------------------------
(* The steps of no request.                                                 *)

LEMMA LeaseExpiresQuick ==
    ASSUME SafeInv, QuickInv, Quick, NEW k \in Key, LeaseExpires(k),
           UNCHANGED <<rows, originals, locals>>
    PROVE  QuickInv'
<1>1. /\ \A l \in Key : /\ record'[l].state = record[l].state
                        /\ record'[l].input = record[l].input
                        /\ record'[l].outcome = record[l].outcome
      /\ \A l \in Key \ {k} : record'[l] = record[l]
  BY ExpiredRow DEF SafeInv, Typed, LeaseExpires
<1>2. UNCHANGED <<pc, asked, answer, rows, originals, ids, promoted>>
  BY DEF LeaseExpires, locals
<1>3. \A r \in Request : pc[r] \in Holding => KeyOf(r) # k
  BY DEF LeaseExpires, Quick
<1>4. \A r \in Request : pc[r] # "idle" => KeyOf(r) \in Key
  BY DEF SafeInv, Flow, FlowOf, Asked
<1>5. Held'
  <2>1. ASSUME NEW r \in Request, pc[r] \in Holding
        PROVE  record'[KeyOf(r)] = record[KeyOf(r)]
    BY <1>1, <1>3, <1>4, <2>1, Idle
  <2>2. ASSUME NEW r \in Request, pc[r] = "reclaiming"
        PROVE  /\ record'[KeyOf(r)].state = record[KeyOf(r)].state
               /\ record'[KeyOf(r)].input = record[KeyOf(r)].input
    BY <1>1, <1>4, <2>2
  <2> QED BY <1>2, <2>1, <2>2 DEF QuickInv, Held, KeyOf, InputOf
<1>6. Recorded'
  <2>1. OneEffectPerKey' /\ EffectIsRecorded'
    BY <1>1, <1>2 DEF QuickInv, Recorded, OneEffectPerKey, EffectIsRecorded, rows
  <2>2. ASSUME NEW s \in Request PROVE AnswerOf(s)'
    BY <1>1, <1>2 DEF QuickInv, Recorded, AnswerOf, Asked, KeyOf, InputOf
  <2> QED BY <2>1, <2>2 DEF Recorded
<1>7. Stored'
  BY <1>2 DEF QuickInv, Stored, OriginalsExist, Uncommitted, rows
<1> QED BY <1>5, <1>6, <1>7 DEF QuickInv

LEMMA QuietQuick ==
    ASSUME QuickInv,
           UNCHANGED <<record, pc, asked, answer, mediaPost, commits, originals, ids,
                       promoted>>
    PROVE  QuickInv'
<1>1. Held'
  BY DEF QuickInv, Held, KeyOf, InputOf
<1>2. Recorded'
  BY DEF QuickInv, Recorded, OneEffectPerKey, EffectIsRecorded, AnswerOf, Asked, KeyOf,
         InputOf
<1>3. Stored'
  BY DEF QuickInv, Stored, OriginalsExist, Uncommitted
<1> QED BY <1>1, <1>2, <1>3 DEF QuickInv

LEMMA NextQuick == SafeInv /\ QuickInv /\ Quick /\ [Next]_vars => QuickInv'
<1> SUFFICES ASSUME SafeInv, QuickInv, Quick, [Next]_vars PROVE QuickInv'
  OBVIOUS
<1>1. CASE UNCHANGED vars
  BY <1>1, QuietQuick DEF vars
<1>2. ASSUME NEW r \in Request, NEW k \in Key, NEW i \in Input,
             Ask(r, k, i), UNCHANGED <<rows, originals, locals>>
      PROVE  QuickInv'
  BY <1>2, AskQuick
<1>3. ASSUME NEW r \in Request,
             \/ Acquire(r) \/ Check(r) \/ Refuse(r) \/ Accept(r) \/ Reject(r)
             \/ Promote(r) \/ Commit(r) \/ Compensate(r) \/ Release(r)
      PROVE  QuickInv'
  BY <1>3, AcquireQuick, CheckQuick, RefuseQuick, AcceptQuick, RejectQuick,
     PromoteQuick, CommitQuick, CompensateQuick, ReleaseQuick
<1>4. ASSUME NEW r \in Request,
             \/ AcquireErrors(r) \/ RejectErrors(r) \/ PromoteErrors(r)
             \/ CommitErrors(r) \/ Crash(r)
      PROVE  QuickInv'
  BY <1>4, AcquireErrorsQuick, RejectErrorsQuick, PromoteErrorsQuick,
     CommitErrorsQuick, CrashQuick
<1>5. ASSUME NEW k \in Key, LeaseExpires(k), UNCHANGED <<rows, originals, locals>>
      PROVE  QuickInv'
  BY <1>5, LeaseExpiresQuick
<1>6. ASSUME NEW p \in Post, SoftDelete(p) \/ Restore(p)
      PROVE  QuickInv'
  BY <1>6, QuietQuick DEF SoftDelete, Restore, keys, locals
<1> QED BY <1>1, <1>2, <1>3, <1>4, <1>5, <1>6 DEF Next

LEMMA InitQuick == Init => QuickInv
<1> SUFFICES ASSUME Init PROVE QuickInv
  OBVIOUS
<1>1. Held
  BY Idle DEF Init, InitKeys, Held
<1>2. Recorded
  BY DEF Init, InitKeys, Recorded, OneEffectPerKey, EffectIsRecorded, AnswerOf
<1>3. Stored
  BY DEF Init, InitKeys, Stored, OriginalsExist, Uncommitted
<1> QED BY <1>1, <1>2, <1>3 DEF QuickInv

LEMMA QuickInvariance == ASSUME Quick PROVE Spec => []QuickInv
<1>1. Init => QuickInv
  BY InitQuick
<1>2. SafeInv /\ QuickInv /\ [Next]_vars => QuickInv'
  BY NextQuick
<1> QED BY <1>1, <1>2, SafeInvariance, PTL DEF Spec

----------------------------------------------------------------------------
(* What quick handlers and answered commits buy.                            *)

\* However often a request is sent again, and whatever storage, database and
\* process do, its mutation commits once at most.
THEOREM OneEffect == ASSUME Quick PROVE Spec => []OneEffectPerKey
<1>1. QuickInv => OneEffectPerKey
  BY DEF QuickInv, Recorded
<1> QED BY <1>1, QuickInvariance, PTL

\* No release, rejection or reclaim opens the key of a committed mutation.
THEOREM EffectsAreRecorded == ASSUME Quick PROVE Spec => []EffectIsRecorded
<1>1. QuickInv => EffectIsRecorded
  BY DEF QuickInv, Recorded
<1> QED BY <1>1, QuickInvariance, PTL

\* A success or a rejection that a client was told is what its key replays.
THEOREM AnswersAreRecorded == ASSUME Quick PROVE Spec => []AnswerIsRecorded
<1>1. QuickInv => AnswerIsRecorded
  BY DEF QuickInv, Recorded, AnswerOf, AnswerIsRecorded
<1> QED BY <1>1, QuickInvariance, PTL

\* No compensation removes the original of a committed media row.
THEOREM OriginalsAreKept == ASSUME Quick PROVE Spec => []OriginalsExist
<1>1. QuickInv => OriginalsExist
  BY DEF QuickInv, Stored
<1> QED BY <1>1, QuickInvariance, PTL
=============================================================================
