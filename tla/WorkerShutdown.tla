---------------------------- MODULE WorkerShutdown ----------------------------
(***************************************************************************)
(* MediaQueueConsumersService: the jobs it runs, each with children one    *)
(* after the other, and its onModuleDestroy: pause the workers, stop the   *)
(* children, wait for the jobs until a deadline, close the workers, let    *)
(* Prisma go.  GracefulShutdownService.shutdown is part of it.             *)
(***************************************************************************)
EXTENDS ChildProcess, FiniteSets

CONSTANT MaxChildren     \* children of one job

ASSUME ChildrenAssumption == MaxChildren \in Nat \ {0}

VARIABLES
    stage,       \* how far onModuleDestroy is
    active,      \* jobs in process(), counted by activeJobs
    left,        \* how many children a job has yet to run
    listed,      \* the children shutdown waits for
    late,        \* children spawned after shutdown has looked for the last time
    overdue,     \* the drain has met its deadline
    prisma       \* "connected" or "disconnected"

shutdownVars == <<stage, active, left, listed, late, overdue, prisma>>

Stage == {"up", "pausing", "stopping", "draining", "closing", "closed", "gone"}

\* The stages after GracefulShutdownService.shutdown.
ShutDown == {"draining", "closing", "closed", "gone"}

ShutdownInit ==
    /\ ChildInit
    /\ stage   = "up"
    /\ active  = {}
    /\ left    = [j \in Job |-> 0]
    /\ listed  = {}
    /\ late    = {}
    /\ overdue = FALSE
    /\ prisma  = "connected"

Alive == stage # "gone"

----------------------------------------------------------------------------
(* Jobs.                                                                    *)

\* A worker that is not yet paused is handed a job; some run no child at all.
BeginJob(j) ==
    /\ stage \in {"up", "pausing"}
    /\ j \notin active
    /\ active' = active \cup {j}
    /\ left'   = [left EXCEPT ![j] = MaxChildren]
    /\ UNCHANGED <<childVars, stage, listed, late, overdue, prisma>>

\* Slip: one child too many.
OneMore(j) == left[j] >= 0

MoreToRun(j) == left[j] > 0

\* A job whose child failed runs no other.
RunChild(j) ==
    /\ Alive /\ j \in active /\ promise[j] \in {"none", "resolved"}
    /\ MoreToRun(j)
    /\ left' = [left EXCEPT ![j] = @ - 1]
    /\ \/ /\ Spawn(j)
          /\ late' = IF stage \in ShutDown THEN late \cup {j} ELSE late
       \/ SpawnFails(j) /\ UNCHANGED late
    /\ UNCHANGED <<stage, active, listed, overdue, prisma>>

\* Slip: a job is counted out while its child runs.
IsActive(j) == j \in active

MayFinish(j) == j \in active /\ promise[j] # "pending"

\* process() ends: all is done, or something failed.
FinishJob(j) ==
    /\ Alive /\ MayFinish(j)
    /\ active'  = active \ {j}
    /\ promise' = [promise EXCEPT ![j] = IF @ = "pending" THEN @ ELSE "none"]
    /\ left'    = [left EXCEPT ![j] = 0]
    /\ UNCHANGED <<os, code, signal, timer, escalation, doomed, children,
                   stage, listed, late, overdue, prisma>>

\* The events of a child; its timers are the worker's.
ChildStep(j) ==
    /\ Alive
    /\ \/ /\ TimesOut(j) \/ ExceedsOutput(j) \/ Escalates(j)
          /\ UNCHANGED <<listed, late>>
       \/ Exits(j) /\ listed' = listed \ {j} /\ UNCHANGED late
       \/ Closes(j) /\ late' = late \ {j} /\ UNCHANGED listed
    /\ UNCHANGED <<stage, active, left, overdue, prisma>>

----------------------------------------------------------------------------
(* onModuleDestroy.                                                         *)

Destroy ==
    /\ stage = "up"
    /\ stage' = "pausing"
    /\ UNCHANGED <<childVars, active, left, listed, late, overdue, prisma>>

\* The workers are paused; shutdown lists the children and terminates them.
Stop ==
    /\ stage = "pausing"
    /\ IF children = {} THEN stage' = "draining" ELSE stage' = "stopping"
    /\ listed' = children
    /\ Kill(children, "TERM")
    /\ UNCHANGED <<os, code, timer, escalation, doomed, promise, children,
                   active, left, late, overdue, prisma>>

\* Slip: the children that were listed are killed, not those there are now.
ListedOnes == listed

ToKill == children

\* All that were listed have exited, or five seconds have passed.
StopEnds ==
    /\ stage = "stopping"
    /\ stage' = "draining"
    /\ Kill(ToKill, "KILL")
    /\ children' = {}
    /\ listed' = {}
    /\ UNCHANGED <<os, code, timer, escalation, doomed, promise,
                   active, left, late, overdue, prisma>>

Drained ==
    /\ stage = "draining"
    /\ active = {}
    /\ stage' = "closing"
    /\ UNCHANGED <<childVars, active, left, listed, late, overdue, prisma>>

\* Slip: the jobs are waited for as long as it takes.
NoDeadline == active = {}

\* Five seconds may have passed in any state.
DeadlinePassed == TRUE

DrainDeadline ==
    /\ stage = "draining"
    /\ DeadlinePassed
    /\ stage' = "closing"
    /\ overdue' = TRUE
    /\ UNCHANGED <<childVars, active, left, listed, late, prisma>>

\* The workers close, by force if jobs are left, and the barrier opens.
CloseWorkers ==
    /\ stage = "closing"
    /\ stage' = "closed"
    /\ UNCHANGED <<childVars, active, left, listed, late, overdue, prisma>>

\* Slip: the barrier is open from the start.
NoBarrier == stage # "up"

BarrierOpen == stage = "closed"

Disconnect ==
    /\ BarrierOpen
    /\ prisma = "connected"
    /\ prisma' = "disconnected"
    /\ UNCHANGED <<childVars, stage, active, left, listed, late, overdue>>

\* Every onModuleDestroy is through: the process ends.  The children it leaves
\* behind run on, with nobody to time or to kill them.
End ==
    /\ stage = "closed" /\ prisma = "disconnected"
    /\ stage' = "gone"
    /\ active' = {}
    /\ UNCHANGED <<childVars, left, listed, late, overdue, prisma>>

ShutdownStep == Stop \/ StopEnds \/ Drained \/ DrainDeadline \/ CloseWorkers

JobStep(j) == BeginJob(j) \/ RunChild(j) \/ FinishJob(j) \/ ChildStep(j)

----------------------------------------------------------------------------
\* Every variable has its type.
ShutdownTypeOK ==
    /\ ChildTypeOK
    /\ stage \in Stage
    /\ active \subseteq Job
    /\ left \in [Job -> 0..MaxChildren]
    /\ listed \subseteq Job
    /\ late \subseteq Job
    /\ overdue \in BOOLEAN
    /\ prisma \in {"connected", "disconnected"}

\* Once shutdown has done its part, every child that runs has been sent
\* SIGKILL, or was spawned by a job after that; only those can outlive the
\* worker.
ShutdownReachesChildren ==
    stage \in ShutDown =>
        \A j \in Job : os[j] = "running" => signal[j] = "KILL" \/ j \in late

\* While a worker's process lives, what runs is waited for by a job that is
\* counted as active, and is timed or about to be killed.
RunningIsWatched ==
    Alive => \A j \in Job : os[j] = "running" =>
                /\ j \in active /\ promise[j] = "pending"
                /\ timer[j] \/ escalation[j] \/ signal[j] = "KILL"

\* Prisma disconnects under no running job, unless the drain met its deadline.
DatabaseOutlivesJobs == prisma = "disconnected" => active = {} \/ overdue
=============================================================================
