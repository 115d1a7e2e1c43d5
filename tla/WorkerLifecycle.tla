---------------------------- MODULE WorkerLifecycle ----------------------------
(***************************************************************************)
(* The worker process: the consumers and their children, the heartbeat and *)
(* Prisma in one module, whose onModuleDestroy hooks run side by side.     *)
(***************************************************************************)
EXTENDS WorkerShutdown, Heartbeat

vars == <<childVars, shutdownVars, heartVars>>

Init == ShutdownInit /\ HeartInit

\* The workers are not closing.
ConsumersActive == stage \notin {"closing", "closed"}

\* Nest calls every hook at once.
Terminated == Destroy /\ StopBeating

Ended == End /\ heart \in {"stopped", "failed"} /\ UNCHANGED heartVars

HeartNext ==
    \/ HeartStep \/ Beat \/ Assess(ConsumersActive)
    \/ \E d \in Dependency : ProbeAnswers(d)

\* What is left of the worker when its process is gone: children on their own.
OrphanExits(j) ==
    /\ ~Alive
    /\ Exits(j)
    /\ UNCHANGED <<shutdownVars, heartVars>>

Next ==
    \/ Terminated \/ Ended
    \/ /\ ShutdownStep \/ Disconnect \/ \E j \in Job : JobStep(j)
       /\ UNCHANGED heartVars
    \/ Alive /\ HeartNext /\ UNCHANGED <<childVars, shutdownVars>>
    \/ \E j \in Job : OrphanExits(j)

Spec == Init /\ [][Next]_vars

\* Timers fire, what was killed dies, its pipes close, statements return.  A
\* child need not end by itself nor heed SIGTERM, a job need not end, and a
\* dependency need not ever answer.
Fairness ==
    /\ WF_vars((ShutdownStep \/ Disconnect) /\ UNCHANGED heartVars)
    /\ WF_vars(Ended)
    /\ WF_vars(Alive /\ (HeartStep \/ Assess(ConsumersActive))
               /\ UNCHANGED <<childVars, shutdownVars>>)
    /\ \A j \in Job :
         /\ WF_vars(Alive /\ TimesOut(j) /\ UNCHANGED <<shutdownVars, heartVars>>)
         /\ WF_vars(Alive /\ Escalates(j) /\ UNCHANGED <<shutdownVars, heartVars>>)
         /\ WF_vars(signal[j] = "KILL" /\ JobStep(j) /\ Exits(j) /\ UNCHANGED heartVars)
         /\ WF_vars(JobStep(j) /\ Closes(j) /\ UNCHANGED heartVars)

FairSpec == Spec /\ Fairness

----------------------------------------------------------------------------
(* Properties.                                                              *)

\* Every variable has its type, and no job runs more children than it may.
TypeOK == ShutdownTypeOK /\ HeartTypeOK

\* SIGTERM ends the worker, whatever its children, jobs and dependencies do: a
\* probe that is never answered or a job that never ends does not hold it up.
ShutdownCompletes == (stage = "pausing") ~> (stage = "gone")

\* A child that hangs and does not heed SIGTERM is ended all the same, and its
\* job hears of it, as long as there is a worker.
EveryChildSettles ==
    \A j \in Job : (promise[j] = "pending") ~> (promise[j] # "pending" \/ ~Alive)
=============================================================================
