----------------------------- MODULE ChildProcess -----------------------------
(***************************************************************************)
(* FfmpegService.run and FfprobeService.probe: a child process, the promise *)
(* its job waits for, the timeout that terminates the child and the timer  *)
(* that kills it when it does not listen; and the set in which             *)
(* GracefulShutdownService tracks the children.                            *)
(*                                                                         *)
(* A job runs one child at a time, so a child goes by the name of its job. *)
(* kill fails only on a process that is gone.                              *)
(***************************************************************************)
EXTENDS Naturals

CONSTANT Job

VARIABLES
    os,          \* the process: none, running, or exited with its pipes open
    code,        \* the exit code of an exited process
    signal,      \* the strongest signal a running process was sent
    timer,       \* whether the timeout is armed
    escalation,  \* whether the SIGKILL after SIGTERM is armed
    doomed,      \* timedOut, terminationError
    promise,     \* of the job's last child
    children     \* tracked children

childVars == <<os, code, signal, timer, escalation, doomed, promise, children>>

ChildInit ==
    /\ os         = [j \in Job |-> "none"]
    /\ code       = [j \in Job |-> "zero"]
    /\ signal     = [j \in Job |-> "none"]
    /\ timer      = [j \in Job |-> FALSE]
    /\ escalation = [j \in Job |-> FALSE]
    /\ doomed     = [j \in Job |-> FALSE]
    /\ promise    = [j \in Job |-> "none"]
    /\ children   = {}

Spawn(j) ==
    /\ os'       = [os EXCEPT ![j] = "running"]
    /\ timer'    = [timer EXCEPT ![j] = TRUE]
    /\ promise'  = [promise EXCEPT ![j] = "pending"]
    /\ children' = children \cup {j}
    /\ UNCHANGED <<code, signal, escalation, doomed>>

\* There is no such binary: 'error', in the tick of the spawn.
SpawnFails(j) ==
    /\ promise' = [promise EXCEPT ![j] = "rejected"]
    /\ UNCHANGED <<os, code, signal, timer, escalation, doomed, children>>

\* child.kill, for a set of children; a process that is gone ignores it.
Kill(J, s) ==
    signal' = [j \in Job |->
                 IF j \in J /\ os[j] = "running" /\ signal[j] # "KILL" THEN s
                 ELSE signal[j]]

\* Slip: SIGTERM is trusted to be enough.
TerminateOnly(j) ==
    /\ doomed'     = [doomed EXCEPT ![j] = TRUE]
    /\ timer'      = [timer EXCEPT ![j] = FALSE]
    /\ Kill({j}, "TERM")
    /\ UNCHANGED escalation

Terminate(j) ==
    /\ doomed'     = [doomed EXCEPT ![j] = TRUE]
    /\ timer'      = [timer EXCEPT ![j] = FALSE]
    /\ escalation' = [escalation EXCEPT ![j] = TRUE]
    /\ Kill({j}, "TERM")

\* The timeout may strike between the exit and the close.
TimesOut(j) ==
    /\ timer[j]
    /\ Terminate(j)
    /\ UNCHANGED <<os, code, promise, children>>

\* ffprobe has printed more than maxOutputBytes; what was printed may be read
\* after the exit.
ExceedsOutput(j) ==
    /\ os[j] # "none" /\ ~doomed[j]
    /\ Terminate(j)
    /\ UNCHANGED <<os, code, promise, children>>

Escalates(j) ==
    /\ escalation[j]
    /\ escalation' = [escalation EXCEPT ![j] = FALSE]
    /\ Kill({j}, "KILL")
    /\ UNCHANGED <<os, code, timer, doomed, promise, children>>

\* By itself or by a signal; the listeners of track and of shutdown run.
Exits(j) ==
    /\ os[j] = "running"
    /\ os' = [os EXCEPT ![j] = "exited"]
    /\ \E c \in {"zero", "other"} : /\ signal[j] = "KILL" => c = "other"
                                    /\ code' = [code EXCEPT ![j] = c]
    /\ signal' = [signal EXCEPT ![j] = "none"]
    /\ children' = children \ {j}
    /\ UNCHANGED <<timer, escalation, doomed, promise>>

\* Slip: only the timeout is cleared when the promise settles.
ClearTimeout(j) ==
    /\ timer' = [timer EXCEPT ![j] = FALSE]
    /\ UNCHANGED escalation

ClearTimers(j) ==
    /\ timer'      = [timer EXCEPT ![j] = FALSE]
    /\ escalation' = [escalation EXCEPT ![j] = FALSE]

\* 'close'.  What ffprobe printed may be no JSON.
Closes(j) ==
    /\ os[j] = "exited"
    /\ os'   = [os EXCEPT ![j] = "none"]
    /\ code' = [code EXCEPT ![j] = "zero"]
    /\ doomed' = [doomed EXCEPT ![j] = FALSE]
    /\ ClearTimers(j)
    /\ \/ /\ code[j] = "zero" /\ ~doomed[j]
          /\ promise' = [promise EXCEPT ![j] = "resolved"]
       \/ promise' = [promise EXCEPT ![j] = "rejected"]
    /\ UNCHANGED <<signal, children>>

----------------------------------------------------------------------------
\* Every variable has its type.
ChildTypeOK ==
    /\ os \in [Job -> {"none", "running", "exited"}]
    /\ code \in [Job -> {"zero", "other"}]
    /\ signal \in [Job -> {"none", "TERM", "KILL"}]
    /\ timer \in [Job -> BOOLEAN]
    /\ escalation \in [Job -> BOOLEAN]
    /\ doomed \in [Job -> BOOLEAN]
    /\ promise \in [Job -> {"none", "pending", "resolved", "rejected"}]
    /\ children \subseteq Job

\* When a job goes on, its child is gone and so is all that was armed for it:
\* no timer signals a later child, no tracked name stands for a dead process.
SettledIsClean ==
    \A j \in Job : promise[j] # "pending" =>
        /\ os[j] = "none" /\ signal[j] = "none"
        /\ ~timer[j] /\ ~escalation[j]
        /\ j \notin children
=============================================================================
