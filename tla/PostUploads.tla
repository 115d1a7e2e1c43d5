---------------------------- MODULE PostUploads ----------------------------
(***************************************************************************)
(* The two mutating uploads of the API, CreatePostService.execute and      *)
(* AddPostMediaService.execute: originals promoted to the object store     *)
(* first, then one transaction that writes the rows and finalizes the      *)
(* idempotency key, with compensation when either fails; and the soft      *)
(* delete and restore of PostsService that run beside them.                *)
(*                                                                         *)
(* Staging objects and sort orders are left out; the dispatch rows commit  *)
(* with their media and are the business of Outbox.                        *)
(***************************************************************************)
EXTENDS Idempotency

CONSTANTS
    Post,        \* post ids
    Media,       \* media ids; each names its original object too
    NoPost

\* valid is the number of valid files, invalid whether there are others.
Upload == [op : {"create"}, post : {NoPost}, valid : Nat, invalid : BOOLEAN]
          \cup [op : {"add"}, post : Post, valid : Nat, invalid : BOOLEAN]

\* What MediaRetry lets a request do.
Retry == [op : {"retry"}, media : Media]

ASSUME UploadAssumption == Input \subseteq Upload \cup Retry /\ NoPost \notin Post

VARIABLES
    post,        \* whether a post exists, and whether it is soft-deleted
    mediaPost,   \* the post of a media row
    originals,   \* objects in the originals bucket
    target,      \* the post a request writes to
    ids,         \* the media ids a request has drawn
    promoted,    \* the originals a request knows it has stored
    commits      \* how often a key's transaction has committed

rows   == <<post, mediaPost, commits>>
locals == <<target, ids, promoted>>
vars   == <<record, pc, asked, answer, post, mediaPost, originals, target, ids,
            promoted, commits>>

\* Some posts are there already, with media and originals.
Init ==
    /\ InitKeys
    /\ mediaPost \in [Media -> Post \cup {NoPost}]
    /\ originals = {m \in Media : mediaPost[m] # NoPost}
    /\ post      = [p \in Post |->
                      IF \E m \in Media : mediaPost[m] = p THEN "live" ELSE "absent"]
    /\ target    = [r \in Request |-> NoPost]
    /\ ids       = [r \in Request |-> {}]
    /\ promoted  = [r \in Request |-> {}]
    /\ commits   = [k \in Key |-> 0]

Forget(r) ==
    /\ target'   = [target EXCEPT ![r] = NoPost]
    /\ ids'      = [ids EXCEPT ![r] = {}]
    /\ promoted' = [promoted EXCEPT ![r] = {}]

\* An exception that nothing in execute catches: the key stays as it is.
Fails(r, from) ==
    /\ pc[r] = from
    /\ Answer(r, Plain("error"))
    /\ Forget(r)

FirstStep(r) == CASE InputOf(r).op = "create" -> "validating"
                  [] InputOf(r).op = "add"    -> "checking"
                  [] InputOf(r).op = "retry"  -> "retrying"

----------------------------------------------------------------------------
Acquire(r) ==
    /\ Insert(r, FirstStep(r)) \/ Read(r) \/ Reclaim(r, FirstStep(r))
    /\ UNCHANGED <<rows, originals, locals>>

AcquireErrors(r) ==
    /\ "database" \in Faults
    /\ \E from \in {"acquiring", "reading", "reclaiming", "checking"} : Fails(r, from)
    /\ UNCHANGED <<record, asked, rows, originals>>

\* An add reads its post: it must exist and not be deleted.
Check(r) ==
    /\ pc[r] = "checking"
    /\ \/ /\ post[InputOf(r).post] = "live"
          /\ Goto(r, "checking", "validating")
       \/ /\ post[InputOf(r).post] # "live"
          /\ Goto(r, "checking", "rejecting")
    /\ UNCHANGED <<record, asked, answer, rows, originals, locals>>

\* A post is created only if all its files are valid; media are added if any
\* file is.
Acceptable(i) ==
    \/ i.op = "create" /\ ~i.invalid
    \/ i.op = "add" /\ i.valid > 0

FreshPost(p) == post[p] = "absent" /\ \A r \in Request : target[r] # p
FreshMedia(m) ==
    /\ mediaPost[m] = NoPost
    /\ m \notin originals
    /\ \A r \in Request : m \notin ids[r]

Refuse(r) ==
    /\ pc[r] = "validating"
    /\ ~Acceptable(InputOf(r))
    /\ Goto(r, "validating", "rejecting")
    /\ UNCHANGED <<record, asked, answer, rows, originals, locals>>

\* The validation, and the ids drawn after it.
Accept(r) ==
    /\ pc[r] = "validating"
    /\ Acceptable(InputOf(r))
    /\ Goto(r, "validating", "promoting")
    /\ \E p \in Post, new \in SUBSET Media :
         /\ IF InputOf(r).op = "add" THEN p = InputOf(r).post ELSE FreshPost(p)
         /\ Cardinality(new) = InputOf(r).valid
         /\ \A m \in new : FreshMedia(m)
         /\ target' = [target EXCEPT ![r] = p]
         /\ ids' = [ids EXCEPT ![r] = new]
    /\ UNCHANGED <<record, asked, answer, rows, originals, promoted>>

\* A rejection has no rows to commit with: it is finalized on its own.
Reject(r) ==
    /\ pc[r] = "rejecting"
    /\ record' = Finalized(KeyOf(r), Plain("rejected"))
    /\ Answer(r, Plain("rejected"))
    /\ UNCHANGED <<asked, rows, originals, locals>>

\* The update failed, or only its answer did.
RejectErrors(r) ==
    /\ "database" \in Faults
    /\ Fails(r, "rejecting")
    /\ record' \in {record, Finalized(KeyOf(r), Plain("rejected"))}
    /\ UNCHANGED <<asked, rows, originals>>

----------------------------------------------------------------------------
Promote(r) ==
    /\ pc[r] = "promoting"
    /\ \E m \in ids[r] \ promoted[r] :
         /\ originals' = originals \cup {m}
         /\ promoted' = [promoted EXCEPT ![r] = @ \cup {m}]
    /\ UNCHANGED <<keys, rows, target, ids>>

\* The copy failed, with or without the object; the object is not yet on the
\* list of what to remove.
PromoteErrors(r) ==
    /\ "storage" \in Faults
    /\ Goto(r, "promoting", "compensating")
    /\ \E m \in ids[r] \ promoted[r] : originals' \in {originals, originals \cup {m}}
    /\ UNCHANGED <<record, asked, answer, rows, locals>>

Outcome(r) == [kind |-> "created", post |-> target[r], media |-> ids[r]]

\* The transaction.  An add locks the post and does not look at it again.
Transaction(r) ==
    /\ post' = [post EXCEPT ![target[r]] =
                  IF InputOf(r).op = "create" THEN "live" ELSE @]
    /\ mediaPost' = [m \in Media |-> IF m \in ids[r] THEN target[r] ELSE mediaPost[m]]
    /\ record' = Finalized(KeyOf(r), Outcome(r))
    /\ commits' = [commits EXCEPT ![KeyOf(r)] = @ + 1]

Ready(r) == pc[r] = "promoting" /\ promoted[r] = ids[r]

Commit(r) ==
    /\ Ready(r)
    /\ Transaction(r)
    /\ Answer(r, Outcome(r))
    /\ Forget(r)
    /\ UNCHANGED <<asked, originals>>

\* Slip: finalize is not given the transaction, and is not rolled back with it.
FinalizedOutsideTransaction(r) ==
    /\ record' = Finalized(KeyOf(r), Outcome(r))
    /\ UNCHANGED rows

RolledBack(r) == UNCHANGED <<record, rows>>

\* The transaction failed; under "lostAck", it committed and its answer was lost.
CommitErrors(r) ==
    /\ Ready(r)
    /\ Goto(r, "promoting", "compensating")
    /\ \/ "database" \in Faults /\ RolledBack(r)
       \/ "lostAck" \in Faults /\ Transaction(r)
    /\ UNCHANGED <<asked, answer, originals, locals>>

\* Slip: compensation removes everything of the post, not what was promoted.
RemovablePost(r) == {m \in Media : mediaPost[m] = target[r]} \cup promoted[r]

Removable(r) == promoted[r]

\* compensatePromotedOriginals; what removeMany fails to delete stays.
Compensate(r) ==
    /\ Goto(r, "compensating", "releasing")
    /\ \/ originals' = originals \ Removable(r)
       \/ /\ "storage" \in Faults
          /\ \E gone \in SUBSET Removable(r) : originals' = originals \ gone
    /\ UNCHANGED <<record, asked, answer, rows, locals>>

\* markRetryableFailure swallows its own error.
Release(r) ==
    /\ Fails(r, "releasing")
    /\ \/ record' = Retryable(KeyOf(r))
       \/ "database" \in Faults /\ UNCHANGED record
    /\ UNCHANGED <<asked, rows, originals>>

\* The API process dies.
Crash(r) ==
    /\ "crash" \in Faults
    /\ \E from \in PC \ {"idle"} : Fails(r, from)
    /\ UNCHANGED <<record, asked, rows, originals>>

----------------------------------------------------------------------------
(* PostsService.                                                            *)

SoftDelete(p) ==
    /\ post[p] = "live"
    /\ post' = [post EXCEPT ![p] = "deleted"]
    /\ UNCHANGED <<keys, mediaPost, commits, originals, locals>>

Restore(p) ==
    /\ post[p] = "deleted"
    /\ post' = [post EXCEPT ![p] = "live"]
    /\ UNCHANGED <<keys, mediaPost, commits, originals, locals>>

----------------------------------------------------------------------------
Next ==
    \/ \E r \in Request :
         \/ \E k \in Key, i \in Input :
              Ask(r, k, i) /\ UNCHANGED <<rows, originals, locals>>
         \/ Acquire(r) \/ Check(r) \/ Refuse(r) \/ Accept(r) \/ Reject(r)
         \/ Promote(r) \/ Commit(r) \/ Compensate(r) \/ Release(r)
         \/ AcquireErrors(r) \/ RejectErrors(r) \/ PromoteErrors(r)
         \/ CommitErrors(r) \/ Crash(r)
    \/ \E k \in Key : LeaseExpires(k) /\ UNCHANGED <<rows, originals, locals>>
    \/ \E p \in Post : SoftDelete(p) \/ Restore(p)

Spec == Init /\ [][Next]_vars

----------------------------------------------------------------------------
(* Properties.                                                              *)

\* Every variable has its type.
TypeOK ==
    /\ \A k \in Key : /\ record[k].state \in RecordState
                      /\ record[k].input \in Input \cup {NoInput}
                      /\ record[k].lease \in {"none", "live", "expired"}
                      /\ record[k].state = "IN_PROGRESS" <=> record[k].lease # "none"
    /\ pc \in [Request -> PC]
    /\ post \in [Post -> {"absent", "live", "deleted"}]
    /\ mediaPost \in [Media -> Post \cup {NoPost}]
    /\ originals \subseteq Media
    /\ target \in [Request -> Post \cup {NoPost}]
    /\ ids \in [Request -> SUBSET Media]
    /\ promoted \in [Request -> SUBSET Media]

\* A key's mutation is carried out at most once, however often the request is
\* sent again: a client can never retry into a duplicate resource.
OneEffectPerKey == \A k \in Key : commits[k] <= 1

\* A committed mutation is never forgotten: its key is FINALIZED with what was
\* created, and no release, rejection or reclaim opens it again.
EffectIsRecorded ==
    \A k \in Key : commits[k] > 0 =>
        /\ record[k].state = "FINALIZED"
        /\ record[k].outcome.kind = "created"

\* A success that may be replayed is backed: as long as a key is FINALIZED with
\* a created resource, its post is there and has every media row it names, even
\* when handlers outlive their leases and commits lose their answers.
ReplayIsBacked ==
    \A k \in Key :
        record[k].state = "FINALIZED" /\ record[k].outcome.kind = "created" =>
            /\ commits[k] > 0
            /\ post[record[k].outcome.post] # "absent"
            /\ \A m \in record[k].outcome.media :
                 mediaPost[m] = record[k].outcome.post

\* What a client was told stays true: a success or a rejection once answered
\* is what the key is FINALIZED with, so every later request of the same key
\* and input is answered the same.
AnswerIsRecorded ==
    \A r \in Request : answer[r] # NoAnswer =>
        (answer[r].kind \in {"created", "rejected"} =>
            /\ record[KeyOf(r)].state = "FINALIZED"
            /\ record[KeyOf(r)].input = InputOf(r)
            /\ record[KeyOf(r)].outcome = answer[r])

\* The original of every media row is in storage: no compensation removes what
\* a transaction committed.
OriginalsExist == \A m \in Media : mediaPost[m] # NoPost => m \in originals

GainsMedia(p) ==
    \E m \in Media : mediaPost[m] # p /\ mediaPost'[m] = p

\* "Media cannot be added to a deleted post."
NoMediaForDeletedPosts ==
    [][\A p \in Post : GainsMedia(p) => post[p] # "deleted"]_vars
=============================================================================
