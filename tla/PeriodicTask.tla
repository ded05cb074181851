----------------------------- MODULE PeriodicTask -----------------------------
(***************************************************************************)
(* Periodic tasks of one session (timer/PeriodicTask.cpp) and the strand   *)
(* that their handlers share.  A task is a flag and a steady timer; the    *)
(* timer's handler runs the task and re-arms the timer while the flag is   *)
(* set.  start() and stop() may be called by any thread, and stop() takes  *)
(* no part in the strand.                                                   *)
(***************************************************************************)
CONSTANTS
  Tasks,
  Nobody,    \* holder of the strand when it is free
  NoStep     \* value of step then

VARIABLES
  running,   \* by task: the flag
  wait,      \* by task: "none", "armed", "due" (handler queued) or
             \* "aborted" (handler queued with operation_aborted)
  onStrand,  \* the task whose handler has the strand, or another value
  step       \* where that handler is

StrandFree == onStrand = Nobody

FreeStrand == onStrand' = Nobody /\ step' = NoStep

TaskTypeOK(others, otherSteps) ==
  /\ running \in [Tasks -> BOOLEAN]
  /\ wait \in [Tasks -> {"none", "armed", "due", "aborted"}]
  /\ onStrand \in Tasks \cup {Nobody} \cup others
  /\ step \in {NoStep, "body", "check", "rearm"} \cup otherSteps

TaskInit ==
  /\ running = [t \in Tasks |-> FALSE]
  /\ wait = [t \in Tasks |-> "none"]
  /\ onStrand = Nobody
  /\ step = NoStep

\* start(): the flag first, scheduleTask() next.
SetRunning(t) ==
  /\ running' = [running EXCEPT ![t] = TRUE]
  /\ UNCHANGED <<wait, onStrand, step>>

ArmTimer(t) ==
  /\ wait' = [wait EXCEPT ![t] = "armed"]
  /\ UNCHANGED <<running, onStrand, step>>

\* Faulty variant: the timers are cancelled, the flags stay set.
StopTasksKeepFlag(S) ==
  /\ running' = running
  /\ wait' = [t \in Tasks |->
       IF t \in S /\ running[t] /\ wait[t] = "armed" THEN "aborted" ELSE wait[t]]

\* stop() of every task in S: cancel() turns an armed wait into an aborted
\* one; a handler that is queued already, or runs, is not recalled.
StopTasks(S) ==
  /\ running' = [t \in Tasks |-> t \notin S /\ running[t]]
  /\ wait' = [t \in Tasks |->
       IF t \in S /\ running[t] /\ wait[t] = "armed" THEN "aborted" ELSE wait[t]]

TimerExpires(t) ==
  /\ wait[t] = "armed"
  /\ wait' = [wait EXCEPT ![t] = "due"]
  /\ UNCHANGED <<running, onStrand, step>>

HandlerBegins(t) ==
  /\ StrandFree
  /\ wait[t] = "due"
  /\ wait' = [wait EXCEPT ![t] = "none"]
  /\ onStrand' = t
  /\ step' = "body"
  /\ UNCHANGED running

HandlerAborted(t) ==
  /\ StrandFree
  /\ wait[t] = "aborted"
  /\ wait' = [wait EXCEPT ![t] = "none"]
  /\ UNCHANGED <<running, onStrand, step>>

\* Faulty variant: the handler re-arms the timer whatever the flag says.
HandlerChecksNothing(t) ==
  /\ onStrand = t
  /\ step = "check"
  /\ step' = "rearm"
  /\ UNCHANGED <<running, wait, onStrand>>

\* if (running) scheduleTask(): another thread may call stop() in between.
HandlerChecks(t) ==
  /\ onStrand = t
  /\ step = "check"
  /\ IF running[t] THEN step' = "rearm" /\ UNCHANGED onStrand ELSE FreeStrand
  /\ UNCHANGED <<running, wait>>

HandlerRearms(t) ==
  /\ onStrand = t
  /\ step = "rearm"
  /\ wait' = [wait EXCEPT ![t] = "armed"]
  /\ FreeStrand
  /\ UNCHANGED running

\* Nothing of the task is queued, armed or running.
Quiet(t) == wait[t] = "none" /\ onStrand # t
=============================================================================
