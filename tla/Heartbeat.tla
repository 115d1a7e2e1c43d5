------------------------------ MODULE Heartbeat ------------------------------
(***************************************************************************)
(* WorkerHeartbeatService: a beat probes every dependency, at most three   *)
(* seconds each, and writes what it found to the worker's row; a probe     *)
(* that takes longer is taken up by the next beats; the module's end waits *)
(* for a beat under way and writes STOPPED.                                *)
(***************************************************************************)
EXTENDS Naturals

CONSTANT Dependency      \* "redis", "storage"

VARIABLES
    beat,        \* activeBeat: none, probing, or writing
    probe,       \* dependencies with a probe on record: redisProbe, storageProbe
    calls,       \* how many calls to a dependency are in flight
    verdict,     \* what the beat has made of a dependency
    draft,       \* the status the beat is about to write
    worker,      \* WorkerInstance.status
    heart        \* how far onModuleDestroy is; "up" is ~stopping

heartVars == <<beat, probe, calls, verdict, draft, worker, heart>>

HeartInit ==
    /\ beat    = "none"
    /\ probe   = {}
    /\ calls   = [d \in Dependency |-> 0]
    /\ verdict = [d \in Dependency |-> "none"]
    /\ draft   = "none"
    /\ worker  = "absent"
    /\ heart   = "up"

\* beat(): not once stopping, and not beside another.
Beat ==
    /\ heart = "up"
    /\ beat = "none"
    /\ beat' = "probing"
    /\ probe' = Dependency
    /\ calls' = [d \in Dependency |-> IF d \in probe THEN calls[d] ELSE calls[d] + 1]
    /\ verdict' = [d \in Dependency |-> "waiting"]
    /\ UNCHANGED <<draft, worker, heart>>

\* The dependency answers, or refuses; a beat may no longer wait for it.
ProbeAnswers(d) ==
    /\ calls[d] > 0
    /\ calls' = [calls EXCEPT ![d] = @ - 1]
    /\ probe' = probe \ {d}
    /\ \E v \in {"up", "down"} :
         verdict' = [verdict EXCEPT ![d] = IF @ = "waiting" THEN v ELSE @]
    /\ UNCHANGED <<beat, draft, worker, heart>>

\* Slip: a probe that is late is taken off the record.
Abandoned(d) == probe \ {d}

AfterTimeout(d) == probe

ProbeTimesOut(d) ==
    /\ verdict[d] = "waiting"
    /\ verdict' = [verdict EXCEPT ![d] = "down"]
    /\ probe' = AfterTimeout(d)
    /\ UNCHANGED <<beat, calls, draft, worker, heart>>

\* consumersActive is read now, the row is written later.
Assess(consumersActive) ==
    /\ beat = "probing"
    /\ \A d \in Dependency : verdict[d] # "waiting"
    /\ beat' = "writing"
    /\ draft' = IF consumersActive /\ \A d \in Dependency : verdict[d] = "up"
                THEN "READY" ELSE "DEGRADED"
    /\ verdict' = [d \in Dependency |-> "none"]
    /\ UNCHANGED <<probe, calls, worker, heart>>

\* The upsert, or its failure, which the timer's callback swallows.
Write ==
    /\ beat = "writing"
    /\ worker' \in {worker, draft}
    /\ beat' = "none"
    /\ draft' = "none"
    /\ UNCHANGED <<probe, calls, verdict, heart>>

StopBeating ==
    /\ heart = "up"
    /\ heart' = "waiting"
    /\ UNCHANGED <<beat, probe, calls, verdict, draft, worker>>

\* Slip: the beat under way is not waited for.
NoWait == TRUE

BeatIsThrough == beat = "none"

\* updateMany: no row, no effect.  Its failure is swallowed, too.
MarkStopped ==
    /\ heart = "waiting"
    /\ BeatIsThrough
    /\ \/ /\ heart' = "stopped"
          /\ worker' = IF worker = "absent" THEN "absent" ELSE "STOPPED"
       \/ /\ heart' = "failed"
          /\ UNCHANGED worker
    /\ UNCHANGED <<beat, probe, calls, verdict, draft>>

HeartStep == Write \/ MarkStopped \/ \E d \in Dependency : ProbeTimesOut(d)

----------------------------------------------------------------------------
\* Every variable has its type.
HeartTypeOK ==
    /\ beat \in {"none", "probing", "writing"}
    /\ probe \subseteq Dependency
    /\ calls \in [Dependency -> Nat]
    /\ verdict \in [Dependency -> {"none", "waiting", "up", "down"}]
    /\ draft \in {"none", "READY", "DEGRADED"}
    /\ worker \in {"absent", "READY", "DEGRADED", "STOPPED"}
    /\ heart \in {"up", "waiting", "stopped", "failed"}

\* "Single-flight": however many beats a dependency lets wait, one call to it
\* is in flight at most, and it is the one on record.
SingleFlight ==
    \A d \in Dependency : calls[d] = IF d \in probe THEN 1 ELSE 0

\* "Shutdown-safe": once the worker has written STOPPED, no beat revives its
\* row, nor makes one where there was none.
StoppedForGood == heart = "stopped" => worker \in {"absent", "STOPPED"}
=============================================================================
