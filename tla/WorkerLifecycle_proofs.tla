------------------------ MODULE WorkerLifecycle_proofs ------------------------
(***************************************************************************)
(* The safety properties of WorkerLifecycle, for any number of jobs,       *)
(* children and dependencies.  The part of the consumers and the part of   *)
(* the heartbeat share only `stage', which the heartbeat reads, so each    *)
(* has an inductive invariant of its own.                                  *)
(***************************************************************************)
EXTENDS WorkerLifecycle, TLAPS

----------------------------------------------------------------------------
(* The consumers and their children.                                        *)

\* Only a running process holds a signal or is tracked.
GoneIsClean ==
    \A j \in Job : os[j] # "running" => signal[j] = "none" /\ j \notin children

\* Until shutdown has looked for the last time, every running child is tracked.
Tracked ==
    stage \notin ShutDown => \A j \in Job : os[j] = "running" => j \in children

\* No worker closes under a job, unless the drain met its deadline, and Prisma
\* goes last.
Drains ==
    /\ stage \in {"closing", "closed", "gone"} => active = {} \/ overdue
    /\ prisma = "disconnected" => stage \in {"closed", "gone"}

ConsumersInv ==
    /\ ShutdownTypeOK
    /\ SettledIsClean
    /\ GoneIsClean
    /\ RunningIsWatched
    /\ Tracked
    /\ ShutdownReachesChildren
    /\ Drains

\* What is left to show of a step that leaves the jobs and the stage alone.
ChildPart ==
    ChildTypeOK /\ SettledIsClean /\ GoneIsClean /\ RunningIsWatched /\ Tracked
    /\ ShutdownReachesChildren

LEMMA ConsumersInit == ShutdownInit => ConsumersInv
<1> SUFFICES ASSUME ShutdownInit PROVE ConsumersInv
  OBVIOUS
<1> USE DEF ShutdownInit, ChildInit
<1>1. ShutdownTypeOK
  <2>1. ChildTypeOK
    BY Zenon DEF ChildTypeOK
  <2>2. left \in [Job -> 0..MaxChildren]
    BY ChildrenAssumption
  <2> QED BY <2>1, <2>2 DEF ShutdownTypeOK, Stage
<1>2. SettledIsClean /\ GoneIsClean /\ RunningIsWatched
  BY DEF SettledIsClean, GoneIsClean, RunningIsWatched
<1>3. Tracked /\ ShutdownReachesChildren /\ Drains
  BY DEF Tracked, ShutdownReachesChildren, Drains, ShutDown
<1> QED BY <1>1, <1>2, <1>3 DEF ConsumersInv

LEMMA ConsumersStutter ==
    ASSUME ConsumersInv, UNCHANGED <<childVars, shutdownVars>>
    PROVE  ConsumersInv'
  BY DEF ConsumersInv, ShutdownTypeOK, ChildTypeOK, SettledIsClean, GoneIsClean,
         RunningIsWatched, Tracked, ShutdownReachesChildren, Drains, Alive, ShutDown,
         childVars, shutdownVars

LEMMA BeginJobInv ==
    ASSUME ConsumersInv, NEW j \in Job, BeginJob(j)
    PROVE  ConsumersInv'
<1> USE DEF ConsumersInv, BeginJob, childVars
<1>1. ShutdownTypeOK'
  BY ChildrenAssumption DEF ShutdownTypeOK, ChildTypeOK
<1>2. SettledIsClean' /\ GoneIsClean'
  BY DEF SettledIsClean, GoneIsClean
<1>3. RunningIsWatched'
  BY DEF RunningIsWatched, Alive
<1>4. Tracked' /\ ShutdownReachesChildren' /\ Drains'
  BY DEF Tracked, ShutdownReachesChildren, Drains, ShutDown
<1> QED BY <1>1, <1>2, <1>3, <1>4

LEMMA RunChildInv ==
    ASSUME ConsumersInv, NEW j \in Job, RunChild(j)
    PROVE  ConsumersInv'
<1> USE DEF ConsumersInv
<1>1. left' \in [Job -> 0..MaxChildren]
  BY ChildrenAssumption DEF RunChild, MoreToRun, ShutdownTypeOK
<1>2. os[j] = "none" /\ signal[j] = "none" /\ ~timer[j] /\ ~escalation[j] /\ j \notin children
  BY DEF RunChild, SettledIsClean
<1>3. CASE Spawn(j) /\ late' = IF stage \in ShutDown THEN late \cup {j} ELSE late
  <2>1. ShutdownTypeOK'
    BY <1>1, <1>3 DEF ShutdownTypeOK, ChildTypeOK, RunChild, Spawn
  <2>2. SettledIsClean' /\ GoneIsClean'
    BY <1>2, <1>3 DEF SettledIsClean, GoneIsClean, Spawn, ShutdownTypeOK, ChildTypeOK
  <2>3. RunningIsWatched'
    BY <1>2, <1>3 DEF RunningIsWatched, Alive, Spawn, RunChild, ShutdownTypeOK, ChildTypeOK
  <2>4. Tracked' /\ ShutdownReachesChildren' /\ Drains'
    BY <1>2, <1>3 DEF Tracked, ShutdownReachesChildren, Drains, ShutDown, Spawn, RunChild,
                      ShutdownTypeOK, ChildTypeOK
  <2> QED BY <2>1, <2>2, <2>3, <2>4
<1>4. CASE SpawnFails(j) /\ UNCHANGED late
  <2>1. ShutdownTypeOK'
    BY <1>1, <1>4 DEF ShutdownTypeOK, ChildTypeOK, RunChild, SpawnFails
  <2>2. SettledIsClean' /\ GoneIsClean'
    BY <1>2, <1>4 DEF SettledIsClean, GoneIsClean, SpawnFails, ShutdownTypeOK, ChildTypeOK
  <2>3. RunningIsWatched'
    BY <1>2, <1>4 DEF RunningIsWatched, Alive, SpawnFails, RunChild, ShutdownTypeOK,
                      ChildTypeOK
  <2>4. Tracked' /\ ShutdownReachesChildren' /\ Drains'
    BY <1>4 DEF Tracked, ShutdownReachesChildren, Drains, ShutDown, SpawnFails, RunChild
  <2> QED BY <2>1, <2>2, <2>3, <2>4
<1> QED BY <1>3, <1>4 DEF RunChild

LEMMA FinishJobInv ==
    ASSUME ConsumersInv, NEW j \in Job, FinishJob(j)
    PROVE  ConsumersInv'
<1> USE DEF ConsumersInv, FinishJob, MayFinish
<1>1. ShutdownTypeOK'
  BY ChildrenAssumption DEF ShutdownTypeOK, ChildTypeOK
<1>2. SettledIsClean' /\ GoneIsClean'
  BY DEF SettledIsClean, GoneIsClean, ShutdownTypeOK, ChildTypeOK
<1>3. os[j] = "none"
  BY DEF SettledIsClean
<1>4. RunningIsWatched'
  BY <1>3 DEF RunningIsWatched, Alive, ShutdownTypeOK, ChildTypeOK
<1>5. Tracked' /\ ShutdownReachesChildren' /\ Drains'
  BY DEF Tracked, ShutdownReachesChildren, Drains, ShutDown
<1> QED BY <1>1, <1>2, <1>4, <1>5

----------------------------------------------------------------------------
(* What happens to a child.                                                 *)

LEMMA TerminateInv ==
    ASSUME ConsumersInv, NEW j \in Job, promise[j] = "pending", Terminate(j),
           UNCHANGED <<os, code, promise, children>>,
           UNCHANGED shutdownVars
    PROVE  ChildPart'
<1> USE DEF ConsumersInv, Terminate, Kill, shutdownVars
<1>1. ChildTypeOK'
  BY DEF ShutdownTypeOK, ChildTypeOK
<1>2. SettledIsClean' /\ GoneIsClean'
  BY DEF SettledIsClean, GoneIsClean, ShutdownTypeOK, ChildTypeOK
<1>3. RunningIsWatched'
  BY DEF RunningIsWatched, Alive, ShutdownTypeOK, ChildTypeOK
<1>4. Tracked' /\ ShutdownReachesChildren'
  BY DEF Tracked, ShutdownReachesChildren, ShutDown, ShutdownTypeOK, ChildTypeOK
<1> QED BY <1>1, <1>2, <1>3, <1>4 DEF ChildPart

LEMMA EscalatesInv ==
    ASSUME ConsumersInv, NEW j \in Job, Escalates(j), UNCHANGED shutdownVars
    PROVE  ChildPart'
<1> USE DEF ConsumersInv, Escalates, Kill, shutdownVars
<1>1. ChildTypeOK'
  BY DEF ShutdownTypeOK, ChildTypeOK
<1>2. SettledIsClean' /\ GoneIsClean'
  BY DEF SettledIsClean, GoneIsClean, ShutdownTypeOK, ChildTypeOK
<1>3. RunningIsWatched'
  BY DEF RunningIsWatched, Alive, ShutdownTypeOK, ChildTypeOK
<1>4. Tracked' /\ ShutdownReachesChildren'
  BY DEF Tracked, ShutdownReachesChildren, ShutDown, ShutdownTypeOK, ChildTypeOK
<1> QED BY <1>1, <1>2, <1>3, <1>4 DEF ChildPart

LEMMA ExitsInv ==
    ASSUME ConsumersInv, NEW j \in Job, Exits(j),
           UNCHANGED <<stage, active, left, late, overdue, prisma>>
    PROVE  ChildPart'
<1> USE DEF ConsumersInv, Exits
<1>1. ChildTypeOK'
  BY DEF ShutdownTypeOK, ChildTypeOK
<1>2. SettledIsClean' /\ GoneIsClean'
  BY DEF SettledIsClean, GoneIsClean, ShutdownTypeOK, ChildTypeOK
<1>3. RunningIsWatched'
  BY DEF RunningIsWatched, Alive, ShutdownTypeOK, ChildTypeOK
<1>4. Tracked' /\ ShutdownReachesChildren'
  BY DEF Tracked, ShutdownReachesChildren, ShutDown, ShutdownTypeOK, ChildTypeOK
<1> QED BY <1>1, <1>2, <1>3, <1>4 DEF ChildPart

LEMMA ClosesInv ==
    ASSUME ConsumersInv, NEW j \in Job, Closes(j), late' = late \ {j},
           UNCHANGED <<stage, active, left, listed, overdue, prisma>>
    PROVE  ChildPart'
<1> USE DEF ConsumersInv, Closes, ClearTimers
<1>1. ChildTypeOK'
  BY DEF ShutdownTypeOK, ChildTypeOK
<1>2. SettledIsClean' /\ GoneIsClean'
  BY DEF SettledIsClean, GoneIsClean, ShutdownTypeOK, ChildTypeOK
<1>3. RunningIsWatched'
  BY DEF RunningIsWatched, Alive, ShutdownTypeOK, ChildTypeOK
<1>4. Tracked' /\ ShutdownReachesChildren'
  BY DEF Tracked, ShutdownReachesChildren, ShutDown, ShutdownTypeOK, ChildTypeOK
<1> QED BY <1>1, <1>2, <1>3, <1>4 DEF ChildPart

LEMMA ChildStepInv ==
    ASSUME ConsumersInv, NEW j \in Job, ChildStep(j)
    PROVE  ConsumersInv'
<1>1. ChildPart'
  <2>1. CASE TimesOut(j) /\ UNCHANGED <<listed, late>>
    <3>1. promise[j] = "pending"
      BY <2>1 DEF ConsumersInv, SettledIsClean, TimesOut
    <3> QED BY <2>1, <3>1, TerminateInv DEF ChildStep, TimesOut, shutdownVars
  <2>2. CASE ExceedsOutput(j) /\ UNCHANGED <<listed, late>>
    <3>1. promise[j] = "pending"
      BY <2>2 DEF ConsumersInv, SettledIsClean, ExceedsOutput
    <3> QED BY <2>2, <3>1, TerminateInv DEF ChildStep, ExceedsOutput, shutdownVars
  <2>3. CASE Escalates(j) /\ UNCHANGED <<listed, late>>
    BY <2>3, EscalatesInv DEF ChildStep, shutdownVars
  <2>4. CASE Exits(j) /\ listed' = listed \ {j} /\ UNCHANGED late
    BY <2>4, ExitsInv DEF ChildStep
  <2>5. CASE Closes(j) /\ late' = late \ {j} /\ UNCHANGED listed
    BY <2>5, ClosesInv DEF ChildStep
  <2> QED BY <2>1, <2>2, <2>3, <2>4, <2>5 DEF ChildStep
<1>2. listed' \subseteq Job /\ late' \subseteq Job
  BY DEF ChildStep, ConsumersInv, ShutdownTypeOK
<1>3. ShutdownTypeOK'
  BY <1>1, <1>2 DEF ChildPart, ChildStep, ConsumersInv, ShutdownTypeOK
<1>4. Drains'
  BY DEF ChildStep, ConsumersInv, Drains
<1> QED BY <1>1, <1>3, <1>4 DEF ChildPart, ConsumersInv

----------------------------------------------------------------------------
(* onModuleDestroy.                                                         *)

LEMMA StopInv ==
    ASSUME ConsumersInv, Stop
    PROVE  ConsumersInv'
<1> USE DEF ConsumersInv, Stop, Kill
<1>1. ShutdownTypeOK'
  BY DEF ShutdownTypeOK, ChildTypeOK, Stage
<1>2. SettledIsClean' /\ GoneIsClean'
  BY DEF SettledIsClean, GoneIsClean, ShutdownTypeOK, ChildTypeOK
<1>3. RunningIsWatched'
  BY DEF RunningIsWatched, Alive, ShutdownTypeOK, ChildTypeOK
<1>4. Tracked' /\ ShutdownReachesChildren'
  BY DEF Tracked, ShutdownReachesChildren, ShutDown, ShutdownTypeOK, ChildTypeOK
<1>5. Drains'
  BY DEF Drains
<1> QED BY <1>1, <1>2, <1>3, <1>4, <1>5

LEMMA StopEndsInv ==
    ASSUME ConsumersInv, StopEnds
    PROVE  ConsumersInv'
<1> USE DEF ConsumersInv, StopEnds, Kill, ToKill
<1>1. ShutdownTypeOK'
  BY DEF ShutdownTypeOK, ChildTypeOK, Stage
<1>2. SettledIsClean' /\ GoneIsClean'
  BY DEF SettledIsClean, GoneIsClean, ShutdownTypeOK, ChildTypeOK
<1>3. RunningIsWatched'
  BY DEF RunningIsWatched, Alive, ShutdownTypeOK, ChildTypeOK
<1>4. Tracked' /\ ShutdownReachesChildren'
  BY DEF Tracked, ShutdownReachesChildren, ShutDown, ShutdownTypeOK, ChildTypeOK
<1>5. Drains'
  BY DEF Drains
<1> QED BY <1>1, <1>2, <1>3, <1>4, <1>5

\* The other steps of onModuleDestroy move the stage and leave the children.
LEMMA StageInv ==
    ASSUME ConsumersInv,
           Destroy \/ Drained \/ DrainDeadline \/ CloseWorkers \/ Disconnect \/ End
    PROVE  ConsumersInv'
<1> USE DEF ConsumersInv, Destroy, Drained, DrainDeadline, CloseWorkers, Disconnect, End,
            BarrierOpen, DeadlinePassed, childVars
<1>1. ShutdownTypeOK'
  BY DEF ShutdownTypeOK, ChildTypeOK, Stage
<1>2. SettledIsClean' /\ GoneIsClean'
  BY DEF SettledIsClean, GoneIsClean
<1>3. RunningIsWatched'
  BY DEF RunningIsWatched, Alive
<1>4. Tracked' /\ ShutdownReachesChildren'
  BY DEF Tracked, ShutdownReachesChildren, ShutDown
<1>5. Drains'
  BY DEF Drains
<1> QED BY <1>1, <1>2, <1>3, <1>4, <1>5

LEMMA OrphanExitsInv ==
    ASSUME ConsumersInv, NEW j \in Job, OrphanExits(j)
    PROVE  ConsumersInv'
<1>1. ChildPart'
  BY ExitsInv DEF OrphanExits, shutdownVars
<1>2. ShutdownTypeOK' /\ Drains'
  BY <1>1 DEF ChildPart, OrphanExits, shutdownVars, ConsumersInv, ShutdownTypeOK, Drains
<1> QED BY <1>1, <1>2 DEF ChildPart, ConsumersInv

LEMMA ConsumersNext == ConsumersInv /\ [Next]_vars => ConsumersInv'
<1> SUFFICES ASSUME ConsumersInv, [Next]_vars PROVE ConsumersInv'
  OBVIOUS
<1>1. CASE Terminated \/ Ended
  BY <1>1, StageInv DEF Terminated, Ended
<1>2. CASE ShutdownStep \/ Disconnect
  BY <1>2, StageInv, StopInv, StopEndsInv DEF ShutdownStep
<1>3. ASSUME NEW j \in Job, JobStep(j) PROVE ConsumersInv'
  BY <1>3, BeginJobInv, RunChildInv, FinishJobInv, ChildStepInv DEF JobStep
<1>4. CASE UNCHANGED <<childVars, shutdownVars>>
  BY <1>4, ConsumersStutter
<1>5. ASSUME NEW j \in Job, OrphanExits(j) PROVE ConsumersInv'
  BY <1>5, OrphanExitsInv
<1> QED BY <1>1, <1>2, <1>3, <1>4, <1>5 DEF Next, vars

----------------------------------------------------------------------------
(* The heartbeat.                                                           *)

\* Once it is stopped, no beat is under way, and none begins; a beat writes what
\* it has assessed.
Quiet == /\ heart \in {"stopped", "failed"} => beat = "none"
         /\ beat = "writing" => draft # "none"
         /\ StoppedForGood

HeartInv == HeartTypeOK /\ SingleFlight /\ Quiet

LEMMA HeartInitInv == HeartInit => HeartInv
  BY DEF HeartInit, HeartInv, HeartTypeOK, SingleFlight, Quiet, StoppedForGood

LEMMA HeartStutter ==
    ASSUME HeartInv, UNCHANGED heartVars
    PROVE  HeartInv'
  BY DEF HeartInv, HeartTypeOK, SingleFlight, Quiet, StoppedForGood, heartVars

LEMMA HeartNextInv ==
    ASSUME HeartInv, HeartNext
    PROVE  HeartInv'
<1> USE DEF HeartInv, HeartTypeOK, SingleFlight, Quiet, StoppedForGood
<1>1. CASE Write
  BY <1>1 DEF Write
<1>2. CASE MarkStopped
  BY <1>2 DEF MarkStopped, BeatIsThrough
<1>3. ASSUME NEW d \in Dependency, ProbeTimesOut(d) PROVE HeartInv'
  BY <1>3 DEF ProbeTimesOut, AfterTimeout
<1>4. CASE Beat
  BY <1>4 DEF Beat
<1>5. CASE Assess(ConsumersActive)
  BY <1>5 DEF Assess
<1>6. ASSUME NEW d \in Dependency, ProbeAnswers(d) PROVE HeartInv'
  BY <1>6 DEF ProbeAnswers
<1> QED BY <1>1, <1>2, <1>3, <1>4, <1>5, <1>6 DEF HeartNext, HeartStep

LEMMA HeartLifeNext == HeartInv /\ [Next]_vars => HeartInv'
<1> SUFFICES ASSUME HeartInv, [Next]_vars PROVE HeartInv'
  OBVIOUS
<1>1. CASE Terminated
  BY <1>1 DEF Terminated, StopBeating, HeartInv, HeartTypeOK, SingleFlight, Quiet,
              StoppedForGood
<1>2. CASE HeartNext
  BY <1>2, HeartNextInv
<1>3. CASE UNCHANGED heartVars
  BY <1>3, HeartStutter
<1>4. CASE Ended
  BY <1>3, <1>4 DEF Ended
<1>5. ASSUME NEW j \in Job, OrphanExits(j) PROVE HeartInv'
  BY <1>3, <1>5 DEF OrphanExits
<1>6. CASE UNCHANGED vars
  BY <1>3, <1>6 DEF vars
<1> QED BY <1>1, <1>2, <1>3, <1>4, <1>5, <1>6 DEF Next

----------------------------------------------------------------------------
THEOREM Invariance == Spec => [](ConsumersInv /\ HeartInv)
<1>1. Init => ConsumersInv /\ HeartInv
  BY ConsumersInit, HeartInitInv DEF Init
<1>2. ConsumersInv /\ HeartInv /\ [Next]_vars => (ConsumersInv /\ HeartInv)'
  BY ConsumersNext, HeartLifeNext
<1> QED BY <1>1, <1>2, PTL DEF Spec

\* Every variable of the worker keeps its type: FfmpegService, FfprobeService,
\* the consumers' shutdown and the heartbeat.
THEOREM TypeCorrect == Spec => []TypeOK
<1>1. ConsumersInv /\ HeartInv => TypeOK
  BY DEF ConsumersInv, HeartInv, TypeOK
<1> QED BY <1>1, Invariance, PTL

\* When run or probe settles its promise, the process is gone, every timer is
\* cleared and nothing is tracked, whichever of exit, timeout, output limit and
\* shutdown came first.
THEOREM SettledChildrenAreClean == Spec => []SettledIsClean
<1>1. ConsumersInv => SettledIsClean
  BY DEF ConsumersInv
<1> QED BY <1>1, Invariance, PTL

\* GracefulShutdownService.shutdown reaches every child but those that a job
\* spawns after its last look.
THEOREM ShutdownReachesAll == Spec => []ShutdownReachesChildren
<1>1. ConsumersInv => ShutdownReachesChildren
  BY DEF ConsumersInv
<1> QED BY <1>1, Invariance, PTL

\* No child of a living worker runs without a timer, or for a job that is not
\* counted in activeJobs.
THEOREM ChildrenAreWatched == Spec => []RunningIsWatched
<1>1. ConsumersInv => RunningIsWatched
  BY DEF ConsumersInv
<1> QED BY <1>1, Invariance, PTL

\* The shutdown barrier of Prisma holds until the jobs are through or the drain
\* has met its deadline.
THEOREM JobsKeepTheDatabase == Spec => []DatabaseOutlivesJobs
<1>1. ConsumersInv => DatabaseOutlivesJobs
  BY DEF ConsumersInv, Drains, DatabaseOutlivesJobs
<1> QED BY <1>1, Invariance, PTL

\* probeDependency never has two calls to one dependency in flight, however
\* many beats have given up on the first.
THEOREM ProbesAreSingleFlight == Spec => []SingleFlight
<1>1. HeartInv => SingleFlight
  BY DEF HeartInv
<1> QED BY <1>1, Invariance, PTL

\* No beat overwrites the STOPPED of onModuleDestroy.
THEOREM StoppedStaysStopped == Spec => []StoppedForGood
<1>1. HeartInv => StoppedForGood
  BY DEF HeartInv, Quiet
<1> QED BY <1>1, Invariance, PTL
=============================================================================
